------------------------ MODULE LateRequestsProofs -------------------------
(***************************************************************************)
(* Proof that only strays leave stale vectors: requests that outlive their *)
(* attempt are harmless until another workflow of their document starts.   *)
(***************************************************************************)
EXTENDS LateRequests, IngestionSafetyProofs

IngestOps == {"upsert", "cleanup", "record"}
RequestType == [op : Operations, doc : Doc, version : Version \cup {NoVersion},
                content : Content \cup {NoFile}, stray : BOOLEAN]

\* A request of an ingest carries the version and the content of its run.
LateShape ==
    /\ late \subseteq RequestType
    /\ strayed \subseteq Doc
    /\ \A r \in late : r.op \in IngestOps => r.version \in Version /\ r.content \in Content

LateTypeInv == TypeInv /\ LateShape

\* The requests of ingests that are not strays.
Own(r) == r \in late /\ r.op \in IngestOps /\ ~r.stray

\* They all come from one run of the document, the running one if one runs.
OfOneRun ==
    /\ \A r, s \in late : Own(r) /\ Own(s) /\ r.doc = s.doc
            => r.version = s.version /\ r.content = s.content
    /\ \A r \in late : Own(r) /\ Running(r.doc) =>
            /\ r.version = ingest[r.doc].version
            /\ r.content = ingest[r.doc].content
            /\ ingest[r.doc].stage # "fetch"

\* Once that run has ended, they agree with what it left: its row, if no purge
\* has removed it, and its vectors, if no purge has removed those.
OfTheRow ==
    \A r \in late : Own(r) /\ ~Running(r.doc) /\ r.doc \notin strayed =>
        /\ \/ ledger[r.doc].status = "absent"
           \/ /\ ledger[r.doc].version = r.version
              /\ ledger[r.doc].status = StatusOf(r.content)
        /\ StatusOf(r.content) = "ingested" =>
              \A p \in PointsOf(points, r.doc) : p.version = r.version

\* The invariant of IngestionSafetyProofs, for documents no stray has hit.
LateNoStale ==
    /\ OnlyStraysLeaveStaleVectors
    /\ \A d \in Doc \ strayed :
        ingest[d].stage = "record" /\ StatusOf(ingest[d].content) = "ingested" =>
            \A p \in PointsOf(points, d) : p.version = ingest[d].version

LateInv == OfOneRun /\ OfTheRow /\ LateNoStale

(***************************************************************************)
(* The type invariant.                                                     *)
(***************************************************************************)
LEMMA InitLateTypeInv == LateInit => LateTypeInv
BY InitTypeInv DEF LateInit, LateTypeInv, LateShape

\* What a step of Ingestion does to the late requests: the unmarked ones that
\* it leaves are requests of documents it starts no workflow of.
LEMMA OnTimeEffect ==
    ASSUME LateShape, OnTimeStep
    PROVE  /\ late' \subseteq RequestType
           /\ strayed' = strayed
           /\ \A s \in late' : \E r \in late :
                /\ s.op = r.op /\ s.version = r.version /\ s.content = r.content
                /\ s.doc = r.doc
           /\ \A s \in late' : ~s.stray => s \in late /\ ~Started(s.doc)
<1> USE DEF LateShape, RequestType
<1>1. late' = {[r EXCEPT !.stray = r.stray \/ Started(r.doc)] : r \in late}
    BY DEF OnTimeStep
<1>2. ASSUME NEW s \in late'
      PROVE  \E r \in late :
                /\ s = [r EXCEPT !.stray = r.stray \/ Started(r.doc)]
                /\ s \in RequestType
                /\ s.op = r.op /\ s.version = r.version /\ s.content = r.content
                /\ s.doc = r.doc
                /\ ~s.stray => s = r /\ ~Started(r.doc)
    <2>1. PICK r \in late : s = [r EXCEPT !.stray = r.stray \/ Started(r.doc)]
        BY <1>1, <1>2
    <2>2. PICK b \in BOOLEAN : b = (r.stray \/ Started(r.doc))
        OBVIOUS
    <2>3. s = [r EXCEPT !.stray = b]
        BY <2>1, <2>2
    <2>4. /\ s \in RequestType /\ s.op = r.op /\ s.version = r.version
          /\ s.content = r.content /\ s.doc = r.doc /\ s.stray = b
        BY <2>3
    <2>5. ASSUME ~b PROVE s = r
        <3>1. r.stray = b
            BY <2>2, <2>5
        <3>2. QED
            BY <2>3, <3>1
    <2>6. QED
        BY <2>1, <2>2, <2>4, <2>5
<1>3. QED
    BY <1>2 DEF OnTimeStep

LEMMA RequestOfARun ==
    ASSUME TypeInv, NEW d \in Doc, NEW op \in Operations
    PROVE  /\ Request(op, d) \in RequestType
           /\ Request(op, d).op = op
           /\ Request(op, d).doc = d
           /\ Request(op, d).version = ingest[d].version
           /\ Request(op, d).content = ingest[d].content
BY DEF TypeInv, TypeOK, Request, RequestType

\* What a giving up does.
GaveUp(d) ==
    \/ GiveUpUpsert(d) \/ GiveUpCleanup(d) \/ GiveUpRecord(d)
    \/ GiveUpVectors(d) \/ GiveUpRow(d)

LEMMA GiveUpEffect ==
    ASSUME TypeInv, NEW d \in Doc, GaveUp(d)
    PROVE  \E op \in Operations :
           /\ late' = late \cup {Request(op, d)}
           /\ UNCHANGED <<Stores, overlap, strayed>>
           /\ op \in IngestOps =>
                ingest[d].stage \in {"upsert", "cleanup", "record"}
           /\ ingest'[d].version = ingest[d].version
           /\ ingest'[d].content = ingest[d].content
           /\ \/ ingest'[d].stage = ingest[d].stage
              \/ ingest'[d].stage = "embed" /\ ingest[d].stage = "upsert"
           /\ \A e \in Doc \ {d} : ingest'[e] = ingest[e] /\ purge'[e] = purge[e]
           /\ op = "cleanup" => ingest[d].stage = "cleanup"
           /\ op \notin IngestOps => purge[d] # "none"
           /\ op = "row" => purge[d] = "ledger"
           /\ \/ purge'[d] = purge[d]
              \/ purge'[d] = "vectors" /\ purge[d] = "ledger"
<1> USE DEF TypeInv, Operations, IngestOps, GiveUp, storeVars, Stores
<1>1. CASE GiveUpUpsert(d)
    <2>1. GoTo(d, "embed") /\ "embed" \in IngestStages
        BY <1>1 DEF GiveUpUpsert, IngestStages
    <2>2. QED
        BY <1>1, <2>1, GoToEffect DEF GiveUpUpsert
<1>2. CASE GiveUpCleanup(d)
    BY <1>2 DEF GiveUpCleanup
<1>3. CASE GiveUpRecord(d)
    BY <1>3 DEF GiveUpRecord
<1>4. CASE GiveUpVectors(d)
    BY <1>4 DEF GiveUpVectors
<1>5. CASE GiveUpRow(d)
    BY <1>5 DEF GiveUpRow
<1>6. QED
    BY <1>1, <1>2, <1>3, <1>4, <1>5 DEF GaveUp

\* Giving up and landing keep what Ingestion keeps.
LEMMA GiveUpTypeInv ==
    ASSUME TypeInv, NEW d \in Doc, GaveUp(d)
    PROVE  TypeInv'
<1> USE DEF TypeInv, GiveUp, LoseAttempt, folderVars, storeVars, syncVars
<1>1. CASE GiveUpUpsert(d)
    <2>1. GoTo(d, "embed") /\ "embed" \in IngestStages
        BY <1>1 DEF GiveUpUpsert, IngestStages
    <2>2. TypeOK'
        BY <1>1, <2>1, GoToEffect DEF GiveUpUpsert, TypeOK
    <2>3. RunShape'
        BY <1>1, <2>1, GoToEffect DEF GiveUpUpsert, RunShape, Running
    <2>4. PlanShape'
        BY <1>1 DEF GiveUpUpsert, PlanShape
    <2>5. QED
        BY <2>2, <2>3, <2>4
<1>2. CASE GiveUpCleanup(d) \/ GiveUpRecord(d) \/ GiveUpVectors(d) \/ GiveUpRow(d)
    <2>1. TypeOK'
        BY <1>2 DEF GiveUpCleanup, GiveUpRecord, GiveUpVectors, GiveUpRow, TypeOK
    <2>2. RunShape' /\ PlanShape'
        BY <1>2 DEF GiveUpCleanup, GiveUpRecord, GiveUpVectors, GiveUpRow, RunShape,
            PlanShape, Running
    <2>3. QED
        BY <2>1, <2>2
<1>3. QED
    BY <1>1, <1>2 DEF GaveUp

Landed(r) ==
    \/ LandUpsert(r) \/ LandCleanup(r) \/ LandRecord(r) \/ LandVectors(r) \/ LandRow(r)

LEMMA LandEffect ==
    ASSUME LateShape, NEW r \in late, Landed(r)
    PROVE  /\ r.op \in Operations /\ r.doc \in Doc
           /\ late' = late \ {r}
           /\ strayed \subseteq strayed'
           /\ strayed' \subseteq Doc
           /\ r.stray => r.doc \in strayed'
           /\ UNCHANGED <<ingest, purge, overlap>>
BY DEF LateShape, RequestType, Landed, LandUpsert, LandCleanup, LandRecord, LandVectors,
    LandRow, Land, childVars

LEMMA LandTypeInv ==
    ASSUME LateTypeInv, NEW r \in late, Landed(r)
    PROVE  TypeInv'
<1> USE DEF LateTypeInv, TypeInv, Land, folderVars, syncVars, childVars
<1>1. /\ r.doc \in Doc
      /\ r.op \in IngestOps => r.version \in Version /\ r.content \in Content
    BY DEF LateShape, RequestType
<1>2. TypeOK'
    <2>1. CASE LandUpsert(r)
        <3>1. points' \subseteq [doc : Doc, version : Version, index : Nat, text : Content]
            BY <1>1, <2>1, ContentShape DEF LandUpsert, Upsert, ChunkPoints, TypeOK, IngestOps
        <3>2. QED
            BY <2>1, <3>1 DEF LandUpsert, TypeOK
    <2>2. CASE LandCleanup(r)
        BY <2>2 DEF LandCleanup, DeleteStale, TypeOK
    <2>3. CASE LandRecord(r)
        <3>1. ledger' \in [Doc -> [version : Version \cup {NoVersion}, count : Nat,
                                  status : Statuses]]
            BY <1>1, <2>3, OutcomeType DEF LandRecord, RecordIngestion, TypeOK, IngestOps
        <3>2. QED
            BY <2>3, <3>1 DEF LandRecord, TypeOK
    <2>4. CASE LandVectors(r)
        BY <2>4 DEF LandVectors, DeleteDocument, TypeOK
    <2>5. CASE LandRow(r)
        <3>1. ledger' \in [Doc -> [version : Version \cup {NoVersion}, count : Nat,
                                  status : Statuses]]
            BY <1>1, <2>5 DEF LandRow, DeleteRecord, NoRow, TypeOK, Statuses
        <3>2. QED
            BY <2>5, <3>1 DEF LandRow, TypeOK
    <2>6. QED
        BY <2>1, <2>2, <2>3, <2>4, <2>5 DEF Landed
<1>3. RunShape' /\ PlanShape'
    BY DEF Landed, LandUpsert, LandCleanup, LandRecord, LandVectors, LandRow, RunShape,
        PlanShape, Running
<1>4. QED
    BY <1>2, <1>3

LEMMA NextLateTypeInv ==
    LateTypeInv /\ [LateNext]_<<vars, lateVars>> => LateTypeInv'
<1> SUFFICES ASSUME LateTypeInv, [LateNext]_<<vars, lateVars>> PROVE LateTypeInv'
    OBVIOUS
<1> USE DEF LateTypeInv
<1>1. CASE OnTimeStep
    <2>1. TypeInv'
        BY <1>1, NextTypeInv DEF OnTimeStep
    <2>2. LateShape'
        BY <1>1, OnTimeEffect DEF LateShape
    <2>3. QED
        BY <2>1, <2>2
<1>2. ASSUME NEW d \in Doc, GaveUp(d) PROVE LateTypeInv'
    <2>1. TypeInv'
        BY <1>2, GiveUpTypeInv
    <2>2. PICK op \in Operations :
            /\ late' = late \cup {Request(op, d)}
            /\ strayed' = strayed
            /\ op \in IngestOps => ingest[d].stage \in {"upsert", "cleanup", "record"}
        BY <1>2, GiveUpEffect
    <2>3. op \in IngestOps =>
            Request(op, d).version \in Version /\ Request(op, d).content \in Content
        BY <2>2, RequestOfARun DEF TypeInv, RunShape, Running
    <2>4. LateShape'
        BY <2>2, <2>3, RequestOfARun DEF LateShape
    <2>5. QED
        BY <2>1, <2>4
<1>3. ASSUME NEW r \in late, Landed(r) PROVE LateTypeInv'
    <2>1. LateShape'
        BY <1>3, LandEffect DEF LateShape
    <2>2. QED
        BY <1>3, <2>1, LandTypeInv
<1>4. CASE UNCHANGED <<vars, lateVars>>
    <2>1. TypeInv'
        BY <1>4, NextTypeInv
    <2>2. QED
        BY <1>4, <2>1 DEF LateShape, lateVars
<1>5. QED
    BY <1>1, <1>2, <1>3, <1>4 DEF LateNext, GaveUp, Landed

(***************************************************************************)
(* LateInv is inductive.                                                   *)
(***************************************************************************)
LEMMA InitLateInv == LateInit => LateInv
BY DEF LateInit, LateInv, OfOneRun, OfTheRow, LateNoStale, OnlyStraysLeaveStaleVectors,
    Own, Init, PointsOf, NotRunning, Run, NoRow

\* Once a run has read its file, its early steps keep what it read.
LEMMA EarlyStepKeepsRun ==
    ASSUME TypeInv, NEW d \in Doc, EarlyStep(d), ingest[d].stage # "fetch"
    PROVE  ingest'[d].version = ingest[d].version /\ ingest'[d].content = ingest[d].content
BY GoToEffect, AcknowledgedOrLostEffect
DEF TypeInv, EarlyStep, FetchAndExtract, CheckCollection, CreateCollection, EmbedAttemptFails,
    IngestStages

\* A step of Ingestion with the late requests it marks.
LEMMA OnTimeLateInv ==
    ASSUME LateTypeInv, LateInv, OnTimeStep
    PROVE  LateInv'
<1> USE DEF LateTypeInv, LateInv, OfOneRun, OfTheRow, LateNoStale, OnlyStraysLeaveStaleVectors,
        PointsOf
<1>1. /\ strayed' = strayed
      /\ \A r : Own(r)' => Own(r) /\ ~Started(r.doc) /\ r.doc \in Doc
    BY OnTimeEffect DEF Own, RequestType
<1>2. \A r : Own(r) => r \in late
    BY DEF Own
<1>3. [Next]_vars
    BY DEF OnTimeStep
<1>4. ASSUME UNCHANGED <<Stores, ingest>> PROVE LateInv'
    BY <1>1, <1>2, <1>4 DEF Stores, Running, Own
<1>5. CASE Quiet
    BY <1>4, <1>5 DEF Quiet
<1>6. ASSUME NEW d \in Doc, StartIngest(d) PROVE LateInv'
    <2>1. CASE ingest' = ingest
        BY <1>4, <1>6, <2>1, StartIngestEffect DEF Stores
    <2>2. CASE ~Running(d) /\ ingest'[d].stage = "fetch"
        <3>1. Started(d)
            BY <2>2 DEF Started, Running
        <3>2. QED
            BY <1>1, <1>2, <1>6, <2>2, <3>1, StartIngestEffect DEF Stores, Running, Own
    <2>3. QED
        BY <1>6, <2>1, <2>2, StartIngestEffect
<1>7. ASSUME NEW d \in Doc, StartPurge(d) PROVE LateInv'
    BY <1>4, <1>7, StartPurgeEffect DEF Stores
<1>8. ASSUME NEW d \in Doc, EarlyStep(d) PROVE LateInv'
    <2>1. ingest[d].stage # "fetch" =>
            ingest'[d].version = ingest[d].version /\ ingest'[d].content = ingest[d].content
        BY <1>8, EarlyStepKeepsRun
    <2>2. OfOneRun'
        BY <1>1, <1>2, <1>8, <2>1, EarlyEffect DEF Running, Own
    <2>3. OfTheRow'
        BY <1>1, <1>2, <1>8, EarlyEffect DEF Running, Own, Stores
    <2>4. LateNoStale'
        BY <1>1, <1>8, EarlyEffect DEF Running, Stores
    <2>5. QED
        BY <2>2, <2>3, <2>4
<1>9. ASSUME NEW d \in Doc, UpsertChunks(d) PROVE LateInv'
    <2>1. \A e \in Doc \ {d} : PointsOf(points', e) = PointsOf(points, e)
        BY <1>9, UpsertEffect DEF Upsert, ChunkPoints, PointID
    <2>2. OfOneRun'
        BY <1>1, <1>2, <1>9, UpsertEffect DEF Running, Own
    <2>3. OfTheRow'
        BY <1>1, <1>2, <1>9, <2>1, UpsertEffect DEF Running, Own
    <2>4. LateNoStale'
        BY <1>1, <1>9, <2>1, UpsertEffect DEF Running
    <2>5. QED
        BY <2>2, <2>3, <2>4
<1>10. ASSUME NEW d \in Doc, DeleteStaleChunks(d) PROVE LateInv'
    <2>1. OfOneRun'
        BY <1>1, <1>2, <1>10, CleanupEffect DEF Running, Own
    <2>2. OfTheRow'
        BY <1>1, <1>2, <1>10, CleanupEffect DEF Running, Own, DeleteStale
    <2>3. LateNoStale'
        BY <1>1, <1>10, CleanupEffect DEF Running, DeleteStale
    <2>4. QED
        BY <2>1, <2>2, <2>3
<1>11. ASSUME NEW d \in Doc, RecordOutcome(d) PROVE LateInv'
    <2>1. ingest'[d].stage = "record" => ingest'[d] = ingest[d]
        BY <1>11, RecordEffect DEF TypeInv, TypeOK, NotRunning, Run
    <2>2. OfOneRun'
        BY <1>1, <1>2, <1>11, <2>1, RecordEffect DEF Running, Own
    <2>3. OfTheRow'
        BY <1>1, <1>2, <1>11, <2>1, RecordEffect DEF Running, Own
    <2>4. LateNoStale'
        BY <1>1, <1>11, <2>1, RecordEffect DEF Running
    <2>5. QED
        BY <2>2, <2>3, <2>4
<1>12. ASSUME NEW d \in Doc, PurgeVectors(d) \/ PurgeAttemptFails(d) PROVE LateInv'
    <2>1. OfOneRun'
        BY <1>1, <1>2, <1>12, PurgeVectorsEffect DEF Running, Own
    <2>2. OfTheRow'
        BY <1>1, <1>2, <1>12, PurgeVectorsEffect DEF Running, Own, DeleteDocument
    <2>3. LateNoStale'
        BY <1>1, <1>12, PurgeVectorsEffect DEF Running, DeleteDocument
    <2>4. QED
        BY <2>1, <2>2, <2>3
<1>13. ASSUME NEW d \in Doc, PurgeLedger(d) PROVE LateInv'
    <2>1. OfOneRun'
        BY <1>1, <1>2, <1>13, PurgeLedgerEffect DEF Running, Own
    <2>2. OfTheRow'
        BY <1>1, <1>2, <1>13, PurgeLedgerEffect DEF Running, Own
    <2>3. LateNoStale'
        BY <1>1, <1>13, PurgeLedgerEffect DEF Running
    <2>4. QED
        BY <2>1, <2>2, <2>3
<1>14. QED
    BY StepCases, <1>3, <1>5, <1>6, <1>7, <1>8, <1>9, <1>10, <1>11, <1>12, <1>13

\* A request joins those of its run, which it agrees with.
LEMMA GiveUpLateInv ==
    ASSUME LateTypeInv, LateInv, NEW d \in Doc, GaveUp(d)
    PROVE  LateInv'
<1> USE DEF LateTypeInv, LateInv, PointsOf
<1>1. PICK op \in Operations :
        /\ late' = late \cup {Request(op, d)}
        /\ UNCHANGED <<Stores, overlap, strayed>>
        /\ op \in IngestOps => ingest[d].stage \in {"upsert", "cleanup", "record"}
        /\ ingest'[d].version = ingest[d].version
        /\ ingest'[d].content = ingest[d].content
        /\ \/ ingest'[d].stage = ingest[d].stage
           \/ ingest'[d].stage = "embed" /\ ingest[d].stage = "upsert"
        /\ \A e \in Doc \ {d} : ingest'[e] = ingest[e]
    BY GiveUpEffect
<1>2. \A r : Own(r)' =>
        \/ Own(r)
        \/ /\ r.doc = d /\ r.version = ingest[d].version /\ r.content = ingest[d].content
           /\ Running(d) /\ ingest[d].stage # "fetch"
    BY <1>1, RequestOfARun DEF Own, Running
<1>3. \A r : Own(r) => r \in late
    BY DEF Own
<1>4. \A e \in Doc : Running(e)' <=> Running(e)
    BY <1>1 DEF Running
<1>5. \A r : Own(r)' => r.doc \in Doc
    BY <1>2, <1>3 DEF LateShape, RequestType
<1>6. OfOneRun'
    <2>1. ASSUME NEW r, NEW s, Own(r)', Own(s)', r.doc = s.doc
          PROVE  r.version = s.version /\ r.content = s.content
        BY <1>2, <1>3, <2>1 DEF OfOneRun
    <2>2. ASSUME NEW r, Own(r)', Running(r.doc)'
          PROVE  /\ r.version = ingest'[r.doc].version
                 /\ r.content = ingest'[r.doc].content
                 /\ ingest'[r.doc].stage # "fetch"
        <3>1. /\ r.version = ingest[r.doc].version
              /\ r.content = ingest[r.doc].content
              /\ ingest[r.doc].stage # "fetch"
            BY <1>2, <1>3, <1>4, <1>5, <2>2 DEF OfOneRun
        <3>2. QED
            BY <1>1, <1>5, <2>2, <3>1
    <2>3. QED
        BY <2>1, <2>2 DEF OfOneRun
<1>7. OfTheRow'
    BY <1>1, <1>2, <1>3, <1>4, <1>5 DEF OfTheRow, Stores
<1>8. LateNoStale'
    BY <1>1, <1>4 DEF LateNoStale, OnlyStraysLeaveStaleVectors, Stores
<1>9. QED
    BY <1>6, <1>7, <1>8

\* A request of the latest run repeats what that run did or is about to do.
LEMMA LandLateInv ==
    ASSUME LateTypeInv, LateInv, NEW r \in late, Landed(r)
    PROVE  LateInv'
<1> USE DEF LateTypeInv, LateInv, PointsOf
<1>1. /\ r.op \in Operations /\ r.doc \in Doc
      /\ late' = late \ {r}
      /\ strayed \subseteq strayed'
      /\ r.stray => r.doc \in strayed'
      /\ UNCHANGED <<ingest, purge, overlap>>
    BY LandEffect
<1>2. /\ \A s : Own(s)' => Own(s)
      /\ \A s : Own(s) => s \in late /\ s.doc \in Doc
      /\ \A d : Running(d)' <=> Running(d)
    BY <1>1 DEF Own, Running, LateShape, RequestType
<1>3. OfOneRun'
    BY <1>1, <1>2 DEF OfOneRun
<1>4. r.op \in IngestOps /\ r.doc \notin strayed' => Own(r) /\ r.doc \notin strayed
    BY <1>1 DEF Own
<1>5. CASE LandUpsert(r)
    <2>1. /\ r.op \in IngestOps
          /\ UNCHANGED ledger
          /\ \A p \in points' : p \in points \/ (p.doc = r.doc /\ p.version = r.version)
        BY <1>5 DEF LandUpsert, IngestOps, Upsert, ChunkPoints
    <2>2. OfTheRow'
        BY <1>1, <1>2, <1>4, <2>1 DEF OfTheRow, OfOneRun
    <2>3. OnlyStraysLeaveStaleVectors'
        <3>1. SUFFICES ASSUME NEW d \in Doc \ strayed', ledger[d].status = "ingested", ~Running(d),
                              NEW p \in points', p.doc = d
                       PROVE  p.version = ledger[d].version
            BY <1>2, <2>1 DEF OnlyStraysLeaveStaleVectors
        <3>2. CASE p \in points
            BY <1>1, <3>1, <3>2 DEF LateNoStale, OnlyStraysLeaveStaleVectors
        <3>3. CASE p.doc = r.doc /\ p.version = r.version
            BY <1>1, <1>4, <2>1, <3>1, <3>3 DEF OfTheRow
        <3>4. QED
            BY <2>1, <3>2, <3>3
    <2>4. ASSUME NEW d \in Doc \ strayed', ingest[d].stage = "record",
                 StatusOf(ingest[d].content) = "ingested", NEW p \in points', p.doc = d
          PROVE  p.version = ingest[d].version
        <3>1. CASE p \in points
            BY <1>1, <2>4, <3>1 DEF LateNoStale
        <3>2. CASE p.doc = r.doc /\ p.version = r.version
            BY <1>1, <1>4, <2>1, <2>4, <3>2 DEF OfOneRun, Running
        <3>3. QED
            BY <2>1, <3>1, <3>2
    <2>5. QED
        BY <1>1, <1>3, <2>2, <2>3, <2>4 DEF LateNoStale
<1>6. CASE LandCleanup(r) \/ LandVectors(r)
    <2>1. points' \subseteq points /\ UNCHANGED ledger
        BY <1>6 DEF LandCleanup, LandVectors, DeleteStale, DeleteDocument
    <2>2. OfTheRow'
        BY <1>1, <1>2, <2>1 DEF OfTheRow
    <2>3. LateNoStale'
        BY <1>1, <1>2, <2>1 DEF LateNoStale, OnlyStraysLeaveStaleVectors
    <2>4. QED
        BY <1>3, <2>2, <2>3
<1>7. CASE LandRecord(r)
    <2>1. /\ r.op \in IngestOps
          /\ UNCHANGED points
          /\ ledger'[r.doc].version = r.version
          /\ ledger'[r.doc].status = StatusOf(r.content)
          /\ \A e \in Doc \ {r.doc} : ledger'[e] = ledger[e]
        BY <1>1, <1>7 DEF LandRecord, IngestOps, RecordIngestion, TypeInv, TypeOK
    <2>2. OfTheRow'
        BY <1>1, <1>2, <1>4, <2>1 DEF OfTheRow, OfOneRun
    <2>3. OnlyStraysLeaveStaleVectors'
        <3>1. SUFFICES ASSUME NEW d \in Doc \ strayed', ledger'[d].status = "ingested", ~Running(d),
                              NEW p \in points, p.doc = d
                       PROVE  p.version = ledger'[d].version
            BY <1>2, <2>1 DEF OnlyStraysLeaveStaleVectors
        <3>2. CASE d = r.doc
            BY <1>1, <1>4, <2>1, <3>1, <3>2 DEF OfTheRow
        <3>3. CASE d # r.doc
            BY <1>1, <2>1, <3>1, <3>3 DEF LateNoStale, OnlyStraysLeaveStaleVectors
        <3>4. QED
            BY <3>2, <3>3
    <2>4. LateNoStale'
        BY <1>1, <2>1, <2>3 DEF LateNoStale
    <2>5. QED
        BY <1>3, <2>2, <2>4
<1>8. CASE LandRow(r)
    <2>1. /\ UNCHANGED points
          /\ ledger'[r.doc].status = "absent"
          /\ \A e \in Doc \ {r.doc} : ledger'[e] = ledger[e]
        BY <1>1, <1>8 DEF LandRow, DeleteRecord, NoRow, TypeInv, TypeOK
    <2>2. OfTheRow'
        BY <1>1, <1>2, <2>1 DEF OfTheRow
    <2>3. LateNoStale'
        BY <1>1, <1>2, <2>1 DEF LateNoStale, OnlyStraysLeaveStaleVectors
    <2>4. QED
        BY <1>3, <2>2, <2>3
<1>9. QED
    BY <1>5, <1>6, <1>7, <1>8 DEF Landed

LEMMA NextLateInv ==
    LateTypeInv /\ LateInv /\ [LateNext]_<<vars, lateVars>> => LateInv'
<1> SUFFICES ASSUME LateTypeInv, LateInv, [LateNext]_<<vars, lateVars>> PROVE LateInv'
    OBVIOUS
<1>1. CASE UNCHANGED <<vars, lateVars>>
    BY <1>1 DEF LateInv, OfOneRun, OfTheRow, LateNoStale, OnlyStraysLeaveStaleVectors, Own,
        Running, PointsOf, vars, lateVars, storeVars, childVars
<1>2. CASE OnTimeStep
    BY <1>2, OnTimeLateInv
<1>3. ASSUME NEW d \in Doc, GaveUp(d) PROVE LateInv'
    BY <1>3, GiveUpLateInv
<1>4. ASSUME NEW r \in late, Landed(r) PROVE LateInv'
    BY <1>4, LandLateInv
<1>5. QED
    BY <1>1, <1>2, <1>3, <1>4 DEF LateNext, GaveUp, Landed

\* Every variable keeps its type, with late requests too.
THEOREM LateTypeCorrect == LateSpec => []LateTypeOK
<1>1. LateTypeInv => LateTypeOK
    BY DEF LateTypeInv, TypeInv, LateShape, LateTypeOK, RequestType
<1>2. QED
    BY InitLateTypeInv, NextLateTypeInv, <1>1, PTL DEF LateSpec

\* A request that lands late leaves a stale vector behind a row that says
\* "ingested" only after another workflow of its document has started.
THEOREM OnlyStraysLeaveStale == LateSpec => []OnlyStraysLeaveStaleVectors
<1>1. LateTypeInv /\ LateInv /\ [LateNext]_<<vars, lateVars>> => LateTypeInv' /\ LateInv'
    BY NextLateTypeInv, NextLateInv
<1>2. LateInv => OnlyStraysLeaveStaleVectors
    BY DEF LateInv, LateNoStale
<1>3. QED
    BY InitLateTypeInv, InitLateInv, <1>1, <1>2, PTL DEF LateSpec
=============================================================================
