----------------------- MODULE IngestionSafetyProofs -----------------------
(***************************************************************************)
(* Proofs of the safety properties of Ingestion: what a ledger row says of *)
(* the vectors of its document, whatever the interleaving of sync, ingest  *)
(* and purge workflows and whatever attempts are lost.                     *)
(***************************************************************************)
EXTENDS IngestionProofs

\* Once cleaned up, a document with text has vectors of the run's version
\* only, until the run records that version.
NoStaleInv ==
    /\ IngestedRowHasNoStaleVectors
    /\ \A d \in Doc :
        ingest[d].stage = "record" /\ StatusOf(ingest[d].content) = "ingested" =>
            \A p \in PointsOf(points, d) : p.version = ingest[d].version

\* At the cleanup the document has a vector of the run's version, or none at
\* all: what the upsert wrote can only have gone with a purge.
CleanupKeepsSome ==
    \A d \in Doc : ingest[d].stage = "cleanup" =>
        PointsOf(points, d) = {} \/ \E p \in PointsOf(points, d) : p.version = ingest[d].version

\* Without an overlap the two workflows of a document exclude each other, and
\* a purge comes to the ledger with no vector of the document left.
PurgeInv ==
    \A d \in Doc \ overlap :
        /\ ~(Running(d) /\ Purging(d))
        /\ purge[d] = "ledger" => PointsOf(points, d) = {}

\* Without an overlap a run that has written its vectors still has them all.
RunHasAllVectors ==
    \A d \in Doc \ overlap :
        \/ ingest[d].stage = "cleanup"
        \/ ingest[d].stage = "record" /\ StatusOf(ingest[d].content) = "ingested"
        => HasChunks(points, d, ingest[d].version, ChunkCount[ingest[d].content])

(***************************************************************************)
(* The steps, grouped by what they change.                                 *)
(***************************************************************************)
Stores == <<points, ledger>>
Quiet == UNCHANGED <<Stores, ingest, purge, overlap>>

\* The steps of a run before its upsert, which change neither store.
EarlyStep(d) ==
    \/ FetchAndExtract(d)
    \/ CheckCollection(d)
    \/ CreateCollection(d)
    \/ EmbedAttemptFails(d)

LEMMA StepCases ==
    ASSUME [Next]_vars
    PROVE  \/ Quiet
           \/ \E d \in Doc :
                \/ StartIngest(d) \/ StartPurge(d) \/ EarlyStep(d) \/ UpsertChunks(d)
                \/ DeleteStaleChunks(d) \/ RecordOutcome(d)
                \/ PurgeVectors(d) \/ PurgeLedger(d) \/ PurgeAttemptFails(d)
<1> USE DEF Quiet, Stores, folderVars, storeVars, syncVars, childVars
<1>1. CASE UserStep
    BY <1>1 DEF UserStep, ChangeFile
<1>2. CASE SyncStep
    BY <1>2 DEF SyncStep, Tick, LoadLedger, SyncDone, ReadListed
<1>3. CASE ReconcileFails
    BY <1>3 DEF ReconcileFails
<1>4. CASE UNCHANGED vars
    BY <1>4 DEF vars
<1>5. CASE \E d \in Doc : IngestStep(d) \/ EmbedAttemptFails(d) \/ PurgeStep(d) \/ PurgeAttemptFails(d)
    BY <1>5 DEF IngestStep, PurgeStep, EarlyStep
<1>6. QED
    BY <1>1, <1>2, <1>3, <1>4, <1>5 DEF Next

\* An early step leaves its run about to embed, or about to record that there
\* is nothing to embed.
LEMMA EarlyEffect ==
    ASSUME TypeInv, NEW d \in Doc, EarlyStep(d)
    PROVE  /\ UNCHANGED <<Stores, purge, overlap>>
           /\ Running(d)
           /\ \/ ingest'[d].stage \in {"embed", "create", "upsert"}
              \/ ingest'[d].stage = "record" /\ StatusOf(ingest'[d].content) # "ingested"
           /\ \A e \in Doc \ {d} : ingest'[e] = ingest[e]
<1> USE DEF TypeInv, Stores, storeVars, Running, IngestStages
<1>1. CASE FetchAndExtract(d)
    BY <1>1 DEF FetchAndExtract, TypeOK, Run
<1>2. CASE CheckCollection(d)
    BY <1>2, GoToEffect DEF CheckCollection
<1>3. CASE CreateCollection(d)
    BY <1>3, GoToEffect, AcknowledgedOrLostEffect DEF CreateCollection
<1>4. CASE EmbedAttemptFails(d)
    BY <1>4, GoToEffect DEF EmbedAttemptFails
<1>5. QED
    BY <1>1, <1>2, <1>3, <1>4 DEF EarlyStep

\* A new run starts at its fetch and a new purge at the vectors; each marks
\* the document if the other one is running.
LEMMA StartIngestEffect ==
    ASSUME TypeInv, NEW d \in Doc, StartIngest(d)
    PROVE  /\ UNCHANGED <<Stores, purge>>
           /\ overlap \subseteq overlap'
           /\ \A e \in Doc \ {d} : ingest'[e] = ingest[e]
           /\ \/ ingest' = ingest
              \/ /\ ~Running(d)
                 /\ ingest'[d].stage = "fetch"
                 /\ Purging(d) => d \in overlap'
BY DEF TypeInv, TypeOK, StartIngest, Stores, storeVars, Run

LEMMA StartPurgeEffect ==
    ASSUME TypeInv, NEW d \in Doc, StartPurge(d)
    PROVE  /\ UNCHANGED <<Stores, ingest>>
           /\ overlap \subseteq overlap'
           /\ \A e \in Doc \ {d} : purge'[e] = purge[e]
           /\ \/ purge' = purge
              \/ /\ ~Purging(d)
                 /\ purge'[d] = "vectors"
                 /\ Running(d) => d \in overlap'
BY DEF TypeInv, TypeOK, StartPurge, Stores, storeVars

\* The other steps, with the types of Ingestion taken care of.
LEMMA UpsertEffect ==
    ASSUME TypeInv, NEW d \in Doc, UpsertChunks(d)
    PROVE  /\ UNCHANGED <<ledger, purge, overlap>>
           /\ points' = Upsert(points, ChunkPoints(d, ingest[d].version, ingest[d].content,
                                                   ChunkCount[ingest[d].content]))
           /\ ingest[d].stage = "upsert"
           /\ ingest'[d].stage \in {"cleanup", "embed"}
           /\ ingest'[d].version = ingest[d].version
           /\ ingest'[d].content = ingest[d].content
           /\ \A e \in Doc \ {d} : ingest'[e] = ingest[e]
BY AcknowledgedOrLostEffect DEF TypeInv, UpsertChunks, IngestStages

LEMMA CleanupEffect ==
    ASSUME TypeInv, NEW d \in Doc, DeleteStaleChunks(d)
    PROVE  /\ UNCHANGED <<ledger, purge, overlap>>
           /\ points' = DeleteStale(points, d, ingest[d].version)
           /\ ingest[d].stage = "cleanup"
           /\ ingest'[d].stage \in {"record", "cleanup"}
           /\ ingest'[d].version = ingest[d].version
           /\ ingest'[d].content = ingest[d].content
           /\ \A e \in Doc \ {d} : ingest'[e] = ingest[e]
BY AcknowledgedOrLostEffect DEF TypeInv, DeleteStaleChunks, IngestStages

LEMMA RecordEffect ==
    ASSUME TypeInv, NEW d \in Doc, RecordOutcome(d)
    PROVE  /\ UNCHANGED <<points, purge, overlap>>
           /\ ingest[d].stage = "record"
           /\ ingest' \in {ingest, [ingest EXCEPT ![d] = NotRunning]}
           /\ ingest'[d].stage \in {"none", "record"}
           /\ ledger'[d].version = ingest[d].version
           /\ ledger'[d].count = RecordedCount(ingest[d].content)
           /\ ledger'[d].status = StatusOf(ingest[d].content)
           /\ HasRow(ledger', d)
           /\ \A e \in Doc \ {d} : ledger'[e] = ledger[e] /\ ingest'[e] = ingest[e]
<1>1. StatusOf(ingest[d].content) # "absent"
    BY OutcomeType DEF TypeInv, RunShape, RecordOutcome, Statuses
<1>2. QED
    BY <1>1 DEF TypeInv, TypeOK, RecordOutcome, RecordIngestion, HasRow, NotRunning, Run

LEMMA PurgeLedgerEffect ==
    ASSUME TypeInv, NEW d \in Doc, PurgeLedger(d)
    PROVE  /\ UNCHANGED <<points, ingest, overlap>>
           /\ purge[d] = "ledger"
           /\ purge'[d] \in {"none", "vectors"}
           /\ ~HasRow(ledger', d)
           /\ ledger'[d].status = "absent"
           /\ \A e \in Doc \ {d} : ledger'[e] = ledger[e] /\ purge'[e] = purge[e]
BY DEF TypeInv, TypeOK, PurgeLedger, DeleteRecord, NoRow, HasRow

LEMMA PurgeVectorsEffect ==
    ASSUME TypeInv, NEW d \in Doc, PurgeVectors(d) \/ PurgeAttemptFails(d)
    PROVE  /\ UNCHANGED <<ledger, ingest, overlap>>
           /\ Purging(d)
           /\ \/ points' = DeleteDocument(points, d) /\ purge[d] = "vectors"
              \/ points' = points /\ purge'[d] = "vectors"
           /\ purge'[d] \in {"vectors", "ledger"}
           /\ \A e \in Doc \ {d} : purge'[e] = purge[e]
BY DEF TypeInv, TypeOK, PurgeVectors, PurgeAttemptFails, Purging, storeVars

(***************************************************************************)
(* No stale vectors behind a row that says "ingested".                     *)
(***************************************************************************)
LEMMA InitNoStale == Init => NoStaleInv
BY DEF Init, NoStaleInv, IngestedRowHasNoStaleVectors, PointsOf, NotRunning, Run

LEMMA NextNoStale == TypeInv /\ NoStaleInv /\ [Next]_vars => NoStaleInv'
<1> SUFFICES ASSUME TypeInv, NoStaleInv, [Next]_vars PROVE NoStaleInv'
    OBVIOUS
<1> USE DEF NoStaleInv, IngestedRowHasNoStaleVectors, PointsOf, Running
<1>1. CASE Quiet
    BY <1>1 DEF Quiet, Stores
<1>2. ASSUME NEW d \in Doc, StartIngest(d) PROVE NoStaleInv'
    BY <1>2, StartIngestEffect DEF Stores
<1>3. ASSUME NEW d \in Doc, StartPurge(d) PROVE NoStaleInv'
    BY <1>3, StartPurgeEffect DEF Stores
<1>4. ASSUME NEW d \in Doc, EarlyStep(d) PROVE NoStaleInv'
    BY <1>4, EarlyEffect DEF Stores
<1>5. ASSUME NEW d \in Doc, UpsertChunks(d) PROVE NoStaleInv'
    <2>1. \A e \in Doc \ {d} : PointsOf(points', e) = PointsOf(points, e)
        BY <1>5, UpsertEffect DEF Upsert, ChunkPoints, PointID
    <2>2. QED
        BY <1>5, <2>1, UpsertEffect
<1>6. ASSUME NEW d \in Doc, DeleteStaleChunks(d) PROVE NoStaleInv'
    BY <1>6, CleanupEffect DEF DeleteStale
<1>7. ASSUME NEW d \in Doc, RecordOutcome(d) PROVE NoStaleInv'
    <2>1. \A e \in Doc \ {d} :
            ledger'[e] = ledger[e] /\ ingest'[e] = ingest[e]
        BY <1>7, RecordEffect
    <2>2. UNCHANGED points
        BY <1>7, RecordEffect
    <2>3. ledger'[d].status = "ingested" =>
            \A p \in PointsOf(points, d) : p.version = ledger'[d].version
        BY <1>7, RecordEffect
    <2>4. ingest'[d].stage = "record" => ingest'[d] = ingest[d]
        BY <1>7, RecordEffect DEF TypeInv, TypeOK, NotRunning, Run
    <2>5. QED
        BY <1>7, <2>1, <2>2, <2>3, <2>4
<1>8. ASSUME NEW d \in Doc, PurgeVectors(d) \/ PurgeAttemptFails(d) PROVE NoStaleInv'
    BY <1>8, PurgeVectorsEffect DEF DeleteDocument
<1>9. ASSUME NEW d \in Doc, PurgeLedger(d) PROVE NoStaleInv'
    BY <1>9, PurgeLedgerEffect
<1>10. QED
    BY StepCases, <1>1, <1>2, <1>3, <1>4, <1>5, <1>6, <1>7, <1>8, <1>9

\* A row that says "ingested" speaks for every vector of its document.
THEOREM NoStaleVectors == Spec => []IngestedRowHasNoStaleVectors
<1>1. TypeInv /\ NoStaleInv /\ [Next]_vars => TypeInv' /\ NoStaleInv'
    BY NextTypeInv, NextNoStale
<1>2. NoStaleInv => IngestedRowHasNoStaleVectors
    BY DEF NoStaleInv
<1>3. QED
    BY InitTypeInv, InitNoStale, <1>1, <1>2, PTL DEF Spec

(***************************************************************************)
(* Only an overlap leaves vectors without a row.                           *)
(***************************************************************************)
OrphanInv == PurgeInv /\ OnlyOverlapOrphansVectors

LEMMA InitOrphan == Init => OrphanInv
BY DEF Init, OrphanInv, PurgeInv, OnlyOverlapOrphansVectors, Running, Purging, NotRunning, Run

LEMMA NextOrphan == TypeInv /\ OrphanInv /\ [Next]_vars => OrphanInv'
<1> SUFFICES ASSUME TypeInv, OrphanInv, [Next]_vars PROVE OrphanInv'
    OBVIOUS
<1> USE DEF OrphanInv, PurgeInv, OnlyOverlapOrphansVectors, PointsOf, Running, Purging
<1>0. \A p \in points : p.doc \in Doc
    BY DEF TypeInv, TypeOK
<1>1. CASE Quiet
    BY <1>1 DEF Quiet, Stores, HasRow
<1>2. ASSUME NEW d \in Doc, StartIngest(d) PROVE OrphanInv'
    BY <1>0, <1>2, StartIngestEffect DEF Stores, HasRow
<1>3. ASSUME NEW d \in Doc, StartPurge(d) PROVE OrphanInv'
    BY <1>0, <1>3, StartPurgeEffect DEF Stores, HasRow
<1>4. ASSUME NEW d \in Doc, EarlyStep(d) PROVE OrphanInv'
    BY <1>0, <1>4, EarlyEffect DEF Stores, HasRow
<1>5. ASSUME NEW d \in Doc, UpsertChunks(d) PROVE OrphanInv'
    <2>1. \A p \in points' : p.doc = d \/ p \in points
        BY <1>5, UpsertEffect DEF Upsert, ChunkPoints
    <2>2. QED
        BY <1>0, <1>5, <2>1, UpsertEffect DEF HasRow
<1>6. ASSUME NEW d \in Doc, DeleteStaleChunks(d) PROVE OrphanInv'
    BY <1>0, <1>6, CleanupEffect DEF DeleteStale, HasRow
<1>7. ASSUME NEW d \in Doc, RecordOutcome(d) PROVE OrphanInv'
    BY <1>0, <1>7, RecordEffect DEF HasRow
<1>8. ASSUME NEW d \in Doc, PurgeVectors(d) \/ PurgeAttemptFails(d) PROVE OrphanInv'
    BY <1>0, <1>8, PurgeVectorsEffect DEF DeleteDocument, HasRow
<1>9. ASSUME NEW d \in Doc, PurgeLedger(d) PROVE OrphanInv'
    BY <1>0, <1>9, PurgeLedgerEffect DEF HasRow
<1>10. QED
    BY StepCases, <1>1, <1>2, <1>3, <1>4, <1>5, <1>6, <1>7, <1>8, <1>9

\* Every vector has a row, or a run that will write it, or was left by an
\* ingest and a purge that ran at once.
THEOREM NoOrphanVectors == Spec => []OnlyOverlapOrphansVectors
<1>1. TypeInv /\ OrphanInv /\ [Next]_vars => TypeInv' /\ OrphanInv'
    BY NextTypeInv, NextOrphan
<1>2. OrphanInv => OnlyOverlapOrphansVectors
    BY DEF OrphanInv
<1>3. QED
    BY InitTypeInv, InitOrphan, <1>1, <1>2, PTL DEF Spec

(***************************************************************************)
(* Only an overlap loses vectors of a row that says "ingested".            *)
(***************************************************************************)
LossInv == RunHasAllVectors /\ OnlyOverlapLosesVectors

LEMMA UpsertWritesAll ==
    ASSUME NEW d, NEW v, NEW c, NEW n \in Nat, NEW pts
    PROVE  HasChunks(Upsert(pts, ChunkPoints(d, v, c, n)), d, v, n)
<1> SUFFICES ASSUME NEW i \in 0 .. n - 1
             PROVE  \E p \in Upsert(pts, ChunkPoints(d, v, c, n)) : PointID(p) = <<d, v, i>>
    BY DEF HasChunks
<1> DEFINE p == [doc |-> d, version |-> v, index |-> i, text |-> c]
<1>1. p \in Upsert(pts, ChunkPoints(d, v, c, n))
    BY DEF Upsert, ChunkPoints
<1>2. PointID(p) = <<d, v, i>>
    BY DEF PointID
<1>3. QED
    BY <1>1, <1>2

LEMMA UpsertKeepsOthers ==
    ASSUME NEW d, NEW v, NEW c, NEW n \in Nat, NEW pts, NEW e, e # d, NEW w, NEW m,
           HasChunks(pts, e, w, m)
    PROVE  HasChunks(Upsert(pts, ChunkPoints(d, v, c, n)), e, w, m)
BY DEF HasChunks, PointID, Upsert, ChunkPoints

LEMMA DeleteStaleKeepsOthers ==
    ASSUME NEW d, NEW keep, NEW pts, NEW e, NEW w, NEW m,
           HasChunks(pts, e, w, m), e # d \/ w = keep
    PROVE  HasChunks(DeleteStale(pts, d, keep), e, w, m)
BY DEF HasChunks, PointID, DeleteStale

LEMMA DeleteDocumentKeepsOthers ==
    ASSUME NEW d, NEW pts, NEW e, NEW w, NEW m, HasChunks(pts, e, w, m), e # d
    PROVE  HasChunks(DeleteDocument(pts, d), e, w, m)
BY DEF HasChunks, PointID, DeleteDocument

LEMMA InitLoss == Init => LossInv
BY DEF Init, LossInv, RunHasAllVectors, OnlyOverlapLosesVectors, NotRunning, Run, NoRow

LEMMA NextLoss == TypeInv /\ OrphanInv /\ LossInv /\ [Next]_vars => LossInv'
<1> SUFFICES ASSUME TypeInv, OrphanInv, LossInv, [Next]_vars PROVE LossInv'
    OBVIOUS
<1> USE DEF LossInv, RunHasAllVectors, OnlyOverlapLosesVectors, HasAllVectors, Running, Purging
<1>0. \A d \in Doc \ overlap : ~(Running(d) /\ Purging(d))
    BY DEF OrphanInv, PurgeInv
<1>1. CASE Quiet
    BY <1>1 DEF Quiet, Stores
<1>2. ASSUME NEW d \in Doc, StartIngest(d) PROVE LossInv'
    BY <1>2, StartIngestEffect DEF Stores
<1>3. ASSUME NEW d \in Doc, StartPurge(d) PROVE LossInv'
    BY <1>3, StartPurgeEffect DEF Stores
<1>4. ASSUME NEW d \in Doc, EarlyStep(d) PROVE LossInv'
    BY <1>4, EarlyEffect DEF Stores
<1>5. ASSUME NEW d \in Doc, UpsertChunks(d) PROVE LossInv'
    <2>1. ChunkCount[ingest[d].content] \in Nat
        BY <1>5, ContentShape DEF UpsertChunks, TypeInv, RunShape
    <2>2. HasChunks(points', d, ingest[d].version, ChunkCount[ingest[d].content])
        BY <1>5, <2>1, UpsertEffect, UpsertWritesAll
    <2>3. ASSUME NEW e \in Doc \ {d}, NEW w, NEW m, HasChunks(points, e, w, m)
          PROVE  HasChunks(points', e, w, m)
        BY <1>5, <2>1, <2>3, UpsertEffect, UpsertKeepsOthers
    <2>4. QED
        BY <1>5, <2>2, <2>3, UpsertEffect
<1>6. ASSUME NEW d \in Doc, DeleteStaleChunks(d) PROVE LossInv'
    <2>1. ASSUME NEW e \in Doc, NEW w, NEW m, HasChunks(points, e, w, m),
                 e # d \/ w = ingest[d].version
          PROVE  HasChunks(points', e, w, m)
        BY <1>6, <2>1, CleanupEffect, DeleteStaleKeepsOthers
    <2>2. QED
        BY <1>6, <2>1, CleanupEffect
<1>7. ASSUME NEW d \in Doc, RecordOutcome(d) PROVE LossInv'
    <2>1. ledger'[d].status = "ingested" =>
            ledger'[d].count = ChunkCount[ingest[d].content]
        BY <1>7, RecordEffect, OutcomeType DEF TypeInv, RunShape
    <2>2. \A e \in Doc \ {d} : ledger'[e] = ledger[e] /\ ingest'[e] = ingest[e]
        BY <1>7, RecordEffect
    <2>3. ingest'[d].stage # "none" => ingest'[d] = ingest[d]
        BY <1>7, RecordEffect DEF TypeInv, TypeOK, NotRunning, Run
    <2>4. QED
        BY <1>7, <2>1, <2>2, <2>3, RecordEffect
<1>8. ASSUME NEW d \in Doc, PurgeVectors(d) \/ PurgeAttemptFails(d) PROVE LossInv'
    <2>1. ASSUME NEW e \in Doc \ {d}, NEW w, NEW m, HasChunks(points, e, w, m)
          PROVE  HasChunks(points', e, w, m)
        BY <1>8, <2>1, PurgeVectorsEffect, DeleteDocumentKeepsOthers
    <2>2. QED
        BY <1>0, <1>8, <2>1, PurgeVectorsEffect
<1>9. ASSUME NEW d \in Doc, PurgeLedger(d) PROVE LossInv'
    BY <1>0, <1>9, PurgeLedgerEffect
<1>10. QED
    BY StepCases, <1>1, <1>2, <1>3, <1>4, <1>5, <1>6, <1>7, <1>8, <1>9

\* A row that says "ingested" has all its vectors, unless an ingest and a
\* purge of the document ran at once.
THEOREM NoLostVectors == Spec => []OnlyOverlapLosesVectors
<1>1. TypeInv /\ OrphanInv /\ LossInv /\ [Next]_vars => TypeInv' /\ OrphanInv' /\ LossInv'
    BY NextTypeInv, NextOrphan, NextLoss
<1>2. LossInv => OnlyOverlapLosesVectors
    BY DEF LossInv
<1>3. QED
    BY InitTypeInv, InitOrphan, InitLoss, <1>1, <1>2, PTL DEF Spec

(***************************************************************************)
(* Only a purge empties a document.                                        *)
(***************************************************************************)
LEMMA InitKeepsSome == Init => CleanupKeepsSome
BY DEF Init, CleanupKeepsSome, NotRunning, Run

LEMMA NextKeepsSome == TypeInv /\ CleanupKeepsSome /\ [Next]_vars => CleanupKeepsSome'
<1> SUFFICES ASSUME TypeInv, CleanupKeepsSome, [Next]_vars PROVE CleanupKeepsSome'
    OBVIOUS
<1> USE DEF CleanupKeepsSome, PointsOf
<1>1. CASE Quiet
    BY <1>1 DEF Quiet, Stores
<1>2. ASSUME NEW d \in Doc, StartIngest(d) PROVE CleanupKeepsSome'
    BY <1>2, StartIngestEffect DEF Stores
<1>3. ASSUME NEW d \in Doc, StartPurge(d) PROVE CleanupKeepsSome'
    BY <1>3, StartPurgeEffect DEF Stores
<1>4. ASSUME NEW d \in Doc, EarlyStep(d) PROVE CleanupKeepsSome'
    BY <1>4, EarlyEffect DEF Stores
<1>5. ASSUME NEW d \in Doc, UpsertChunks(d) PROVE CleanupKeepsSome'
    <2>1. ChunkCount[ingest[d].content] \in Nat \ {0}
        BY <1>5, OutcomeType DEF UpsertChunks, TypeInv, RunShape
    <2>2. HasChunks(points', d, ingest[d].version, ChunkCount[ingest[d].content])
        BY <1>5, <2>1, UpsertEffect, UpsertWritesAll
    <2>3. \E p \in points' : PointID(p) = <<d, ingest[d].version, 0>>
        BY <2>1, <2>2 DEF HasChunks
    <2>4. \E p \in PointsOf(points', d) : p.version = ingest[d].version
        BY <2>3 DEF PointID
    <2>5. \A e \in Doc \ {d} : PointsOf(points', e) = PointsOf(points, e)
        BY <1>5, UpsertEffect DEF Upsert, ChunkPoints, PointID
    <2>6. QED
        BY <1>5, <2>4, <2>5, UpsertEffect
<1>6. ASSUME NEW d \in Doc, DeleteStaleChunks(d) PROVE CleanupKeepsSome'
    BY <1>6, CleanupEffect DEF DeleteStale
<1>7. ASSUME NEW d \in Doc, RecordOutcome(d) PROVE CleanupKeepsSome'
    BY <1>7, RecordEffect
<1>8. ASSUME NEW d \in Doc, PurgeVectors(d) \/ PurgeAttemptFails(d) PROVE CleanupKeepsSome'
    BY <1>8, PurgeVectorsEffect DEF DeleteDocument
<1>9. ASSUME NEW d \in Doc, PurgeLedger(d) PROVE CleanupKeepsSome'
    BY <1>9, PurgeLedgerEffect
<1>10. QED
    BY StepCases, <1>1, <1>2, <1>3, <1>4, <1>5, <1>6, <1>7, <1>8, <1>9

LEMMA StepEmptiesByPurge ==
    ASSUME TypeInv, CleanupKeepsSome, [Next]_vars, NEW e \in Doc,
           PointsOf(points, e) # {}, PointsOf(points', e) = {}
    PROVE  purge[e] = "vectors"
<1> USE DEF PointsOf
<1>1. CASE Quiet
    BY <1>1 DEF Quiet, Stores
<1>2. ASSUME NEW d \in Doc, StartIngest(d) PROVE FALSE
    BY <1>2, StartIngestEffect DEF Stores
<1>3. ASSUME NEW d \in Doc, StartPurge(d) PROVE FALSE
    BY <1>3, StartPurgeEffect DEF Stores
<1>4. ASSUME NEW d \in Doc, EarlyStep(d) PROVE FALSE
    BY <1>4, EarlyEffect DEF Stores
<1>5. ASSUME NEW d \in Doc, UpsertChunks(d) PROVE FALSE
    <2>1. ChunkCount[ingest[d].content] \in Nat \ {0}
        BY <1>5, OutcomeType DEF UpsertChunks, TypeInv, RunShape
    <2>2. HasChunks(points', d, ingest[d].version, ChunkCount[ingest[d].content])
        BY <1>5, <2>1, UpsertEffect, UpsertWritesAll
    <2>3. e # d
        BY <2>1, <2>2 DEF HasChunks, PointID
    <2>4. PointsOf(points', e) = PointsOf(points, e)
        BY <1>5, <2>3, UpsertEffect DEF Upsert, ChunkPoints, PointID
    <2>5. QED
        BY <2>4
<1>6. ASSUME NEW d \in Doc, DeleteStaleChunks(d) PROVE FALSE
    BY <1>6, CleanupEffect DEF DeleteStale, CleanupKeepsSome
<1>7. ASSUME NEW d \in Doc, RecordOutcome(d) PROVE FALSE
    BY <1>7, RecordEffect
<1>8. ASSUME NEW d \in Doc, PurgeVectors(d) \/ PurgeAttemptFails(d) PROVE purge[e] = "vectors"
    BY <1>8, PurgeVectorsEffect DEF DeleteDocument
<1>9. ASSUME NEW d \in Doc, PurgeLedger(d) PROVE FALSE
    BY <1>9, PurgeLedgerEffect
<1>10. QED
    BY StepCases, <1>1, <1>2, <1>3, <1>4, <1>5, <1>6, <1>7, <1>8, <1>9

\* An edit never leaves its document without vectors: only a purge does.
THEOREM EditsNeverEmpty == Spec => OnlyPurgeEmptiesADocument
<1> DEFINE A == \A d \in Doc : PointsOf(points, d) # {} /\ PointsOf(points', d) = {}
                    => purge[d] = "vectors"
<1>1. TypeInv /\ CleanupKeepsSome /\ [Next]_vars => TypeInv' /\ CleanupKeepsSome'
    BY NextTypeInv, NextKeepsSome
<1>2. TypeInv /\ CleanupKeepsSome /\ [Next]_vars => [A]_vars
    BY StepEmptiesByPurge
<1>3. Spec => [][A]_vars
    BY InitTypeInv, InitKeepsSome, <1>1, <1>2, PTL DEF Spec
<1>4. QED
    BY <1>3 DEF OnlyPurgeEmptiesADocument
=============================================================================
