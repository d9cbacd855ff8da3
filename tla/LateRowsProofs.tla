--------------------------- MODULE LateRowsProofs ---------------------------
(***************************************************************************)
(* Proofs of the two other properties of LateRequests: what it takes to    *)
(* part a row from its vectors, and to empty a document.                   *)
(***************************************************************************)
EXTENDS LateRequestsProofs

\* The requests that are no strays.
Fresh(r) == r \in late /\ ~r.stray

\* What the workflows of a document keep of its row and its vectors: PurgeInv,
\* RunHasAllVectors and the property, for one document.
CalmRows(d) ==
    /\ ~(Running(d) /\ Purging(d))
    /\ purge[d] = "ledger" => PointsOf(points, d) = {}
    /\ \/ ingest[d].stage = "cleanup"
       \/ ingest[d].stage = "record" /\ StatusOf(ingest[d].content) = "ingested"
       => HasChunks(points, d, ingest[d].version, ChunkCount[ingest[d].content])
    /\ ledger[d].status = "ingested" /\ ~Running(d) /\ ~Purging(d) => HasAllVectors(d)
    /\ PointsOf(points, d) # {} => HasRow(ledger, d) \/ Running(d)

\* Its fresh requests are all of ingests or all of purges.  Those of an ingest
\* agree with its row once the run has ended; those of a purge find nothing
\* left to delete, the row's before the vectors'.
CalmRequests(d) ==
    /\ \A r, s \in late : Fresh(r) /\ Fresh(s) /\ r.doc = d /\ s.doc = d
            => (r.op \in IngestOps <=> s.op \in IngestOps)
    /\ \A r \in late : Fresh(r) /\ r.doc = d /\ r.op \in IngestOps =>
            /\ ~Purging(d)
            /\ ~Running(d) =>
                /\ ledger[d].version = r.version
                /\ ledger[d].count = RecordedCount(r.content)
                /\ ledger[d].status = StatusOf(r.content)
    /\ \A r \in late : Fresh(r) /\ r.doc = d /\ r.op \notin IngestOps =>
            /\ ~Running(d)
            /\ r.op = "row" => PointsOf(points, d) = {}
            /\ ~Purging(d) => PointsOf(points, d) = {} /\ ~HasRow(ledger, d)

Calm(d) == CalmRows(d) /\ CalmRequests(d)

CalmInv == \A d \in Doc \ (strayed \cup overlap) : Calm(d)

\* A cleanup, on time or late, finds a vector of its version, or none at all.
LateKeepsSome ==
    /\ \A d \in Doc \ strayed : ingest[d].stage = "cleanup" =>
        PointsOf(points, d) = {} \/ \E p \in PointsOf(points, d) : p.version = ingest[d].version
    /\ \A r \in late : Own(r) /\ r.op = "cleanup" =>
        /\ StatusOf(r.content) = "ingested"
        /\ Running(r.doc) => ingest[r.doc].stage \in {"cleanup", "record"}

LEMMA InitCalm == LateInit => CalmInv /\ LateKeepsSome
BY DEF LateInit, Init, CalmInv, Calm, CalmRows, CalmRequests, LateKeepsSome, Running, Purging,
    NotRunning, Run, NoRow, PointsOf

(***************************************************************************)
(* What leaves a document calm.                                            *)
(***************************************************************************)
\* Chunks are there or not whatever the points of other documents.
LEMMA ChunksOfADocument ==
    ASSUME NEW d, NEW v, NEW n, NEW pts, NEW new, PointsOf(new, d) = PointsOf(pts, d),
           HasChunks(pts, d, v, n)
    PROVE  HasChunks(new, d, v, n)
BY DEF HasChunks, PointID, PointsOf

LEMMA CalmFrame ==
    ASSUME NEW d \in Doc, Calm(d),
           PointsOf(points', d) = PointsOf(points, d),
           ledger'[d] = ledger[d], ingest'[d] = ingest[d], purge'[d] = purge[d],
           \A r : Fresh(r)' /\ r.doc = d => Fresh(r)
    PROVE  Calm(d)'
<1>1. \A v, n : HasChunks(points, d, v, n) => HasChunks(points', d, v, n)
    BY ChunksOfADocument
<1>2. CalmRows(d)'
    BY <1>1 DEF Calm, CalmRows, HasAllVectors, HasRow, Running, Purging
<1>3. \A r : Fresh(r) => r \in late
    BY DEF Fresh
<1>4. CalmRequests(d)'
    BY <1>3 DEF Calm, CalmRequests, HasRow, Running, Purging
<1>5. QED
    BY <1>2, <1>4 DEF Calm

\* A document whose requests are all strays has only its row to agree with.
LEMMA NoFreshRequests ==
    ASSUME NEW d, \A r : Fresh(r)' => r.doc # d
    PROVE  CalmRequests(d)'
BY DEF CalmRequests

\* The steps of Ingestion, one by one, at their document.
LEMMA StartsCalm ==
    ASSUME LateTypeInv, OnTimeStep, NEW d \in Doc, Calm(d), StartIngest(d) \/ StartPurge(d),
           d \notin overlap'
    PROVE  Calm(d)'
<1> USE DEF LateTypeInv, Stores
<1>1. \A r : Fresh(r)' => Fresh(r) /\ ~Started(r.doc)
    BY OnTimeEffect DEF Fresh
<1>2. CASE ingest'[d] = ingest[d] /\ purge'[d] = purge[d]
    BY <1>1, <1>2, CalmFrame, StartIngestEffect, StartPurgeEffect
<1>3. CASE StartIngest(d) /\ ~Running(d) /\ ingest'[d].stage = "fetch"
    <2>1. Started(d)
        BY <1>3 DEF Started, Running
    <2>2. CalmRequests(d)'
        BY <1>1, <2>1, NoFreshRequests
    <2>3. CalmRows(d)'
        BY <1>3, StartIngestEffect DEF Calm, CalmRows, Running, Purging
    <2>4. QED
        BY <2>2, <2>3 DEF Calm
<1>4. CASE StartPurge(d) /\ ~Purging(d) /\ purge'[d] = "vectors"
    <2>1. Started(d)
        BY <1>4 DEF Started, Purging
    <2>2. CalmRequests(d)'
        BY <1>1, <2>1, NoFreshRequests
    <2>3. CalmRows(d)'
        BY <1>4, StartPurgeEffect DEF Calm, CalmRows, Running, Purging
    <2>4. QED
        BY <2>2, <2>3 DEF Calm
<1>5. QED
    BY <1>2, <1>3, <1>4, StartIngestEffect, StartPurgeEffect

\* Up to its end a run leaves the requests calm: they are its own.
LEMMA RunKeepsRequests ==
    ASSUME NEW d, CalmRequests(d), Running(d), Running(d)', purge'[d] = purge[d],
           \A r : Fresh(r)' => Fresh(r)
    PROVE  CalmRequests(d)'
<1>1. \A r : Fresh(r) => r \in late
    BY DEF Fresh
<1>2. QED
    BY <1>1 DEF CalmRequests, Purging

LEMMA RunStepsCalm ==
    ASSUME LateTypeInv, OfOneRun, OnTimeStep, NEW d \in Doc, Calm(d),
           EarlyStep(d) \/ UpsertChunks(d) \/ DeleteStaleChunks(d) \/ RecordOutcome(d)
    PROVE  Calm(d)'
<1> USE DEF LateTypeInv, Stores
<1>1. \A r : Fresh(r)' => Fresh(r)
    BY OnTimeEffect DEF Fresh
<1>2. CASE EarlyStep(d)
    <2>1. CalmRows(d)'
        BY <1>2, EarlyEffect DEF Calm, CalmRows, Running, Purging
    <2>2. CalmRequests(d)'
        BY <1>1, <1>2, EarlyEffect, RunKeepsRequests DEF Calm, Running
    <2>3. QED
        BY <2>1, <2>2 DEF Calm
<1>3. CASE UpsertChunks(d)
    <2>1. ChunkCount[ingest[d].content] \in Nat
        BY <1>3, ContentShape DEF UpsertChunks, TypeInv, RunShape
    <2>2. HasChunks(points', d, ingest[d].version, ChunkCount[ingest[d].content])
        BY <1>3, <2>1, UpsertEffect, UpsertWritesAll
    <2>3. CalmRows(d)'
        BY <1>3, <2>2, UpsertEffect DEF Calm, CalmRows, Running, Purging
    <2>4. CalmRequests(d)'
        BY <1>1, <1>3, UpsertEffect, RunKeepsRequests DEF Calm, Running
    <2>5. QED
        BY <2>3, <2>4 DEF Calm
<1>4. CASE DeleteStaleChunks(d)
    <2>1. HasChunks(points, d, ingest[d].version, ChunkCount[ingest[d].content])
        BY <1>4, CleanupEffect DEF Calm, CalmRows
    <2>2. HasChunks(points', d, ingest[d].version, ChunkCount[ingest[d].content])
        BY <1>4, <2>1, CleanupEffect, DeleteStaleKeepsOthers
    <2>3. CalmRows(d)'
        BY <1>4, <2>2, CleanupEffect DEF Calm, CalmRows, Running, Purging
    <2>4. CalmRequests(d)'
        BY <1>1, <1>4, CleanupEffect, RunKeepsRequests DEF Calm, Running
    <2>5. QED
        BY <2>3, <2>4 DEF Calm
<1>5. CASE RecordOutcome(d)
    <2>1. /\ UNCHANGED <<points, purge>>
          /\ ingest[d].stage = "record"
          /\ ingest'[d].stage = "none" \/ ingest'[d] = ingest[d]
          /\ ledger'[d].version = ingest[d].version
          /\ ledger'[d].count = RecordedCount(ingest[d].content)
          /\ ledger'[d].status = StatusOf(ingest[d].content)
          /\ HasRow(ledger', d)
        BY <1>5, RecordEffect DEF TypeInv, TypeOK, NotRunning, Run
    <2>2. ledger'[d].status = "ingested" => ledger'[d].count = ChunkCount[ingest[d].content]
        BY <2>1, OutcomeType DEF TypeInv, RunShape
    <2>3. CalmRows(d)'
        BY <2>1, <2>2 DEF Calm, CalmRows, HasAllVectors, HasRow, Running, Purging
    <2>4. \A r : Fresh(r)' /\ r.doc = d =>
            /\ r \in late
            /\ r.op \in IngestOps
            /\ r.version = ingest[d].version /\ r.content = ingest[d].content
        BY <1>1, <2>1 DEF Calm, CalmRequests, OfOneRun, Own, Fresh, Running
    <2>5. CalmRequests(d)'
        BY <1>1, <2>1, <2>4 DEF Calm, CalmRequests, Running, Purging
    <2>6. QED
        BY <2>3, <2>5 DEF Calm
<1>6. QED
    BY <1>2, <1>3, <1>4, <1>5

LEMMA PurgeStepsCalm ==
    ASSUME LateTypeInv, OnTimeStep, NEW d \in Doc, Calm(d),
           PurgeVectors(d) \/ PurgeAttemptFails(d) \/ PurgeLedger(d)
    PROVE  Calm(d)'
<1> USE DEF LateTypeInv
<1>1. \A r : Fresh(r)' => Fresh(r) /\ r \in late
    BY OnTimeEffect DEF Fresh
<1>2. Purging(d) /\ ~Running(d) /\ ingest' = ingest
    BY PurgeVectorsEffect, PurgeLedgerEffect DEF Calm, CalmRows, Purging
<1>3. CASE PurgeVectors(d) \/ PurgeAttemptFails(d)
    <2>1. CalmRows(d)'
        BY <1>2, <1>3, PurgeVectorsEffect
        DEF Calm, CalmRows, PointsOf, DeleteDocument, Running, Purging
    <2>2. CalmRequests(d)'
        BY <1>1, <1>2, <1>3, PurgeVectorsEffect
        DEF Calm, CalmRequests, PointsOf, DeleteDocument, Running, Purging
    <2>3. QED
        BY <2>1, <2>2 DEF Calm
<1>4. CASE PurgeLedger(d)
    <2>1. PointsOf(points', d) = {} /\ ~HasRow(ledger', d)
        BY <1>4, PurgeLedgerEffect DEF Calm, CalmRows
    <2>2. CalmRows(d)'
        BY <1>2, <1>4, <2>1, PurgeLedgerEffect DEF Calm, CalmRows, HasRow, Running, Purging
    <2>3. CalmRequests(d)'
        BY <1>1, <1>2, <1>4, <2>1, PurgeLedgerEffect DEF Calm, CalmRequests, Running, Purging
    <2>4. QED
        BY <2>2, <2>3 DEF Calm
<1>5. QED
    BY <1>3, <1>4

\* A step of Ingestion is a step of one document, or changes none.
LEMMA OnTimeCalm ==
    ASSUME LateTypeInv, OfOneRun, CalmInv, OnTimeStep
    PROVE  CalmInv'
<1> SUFFICES ASSUME NEW e \in Doc \ (strayed' \cup overlap') PROVE Calm(e)'
    BY DEF CalmInv
<1> USE DEF LateTypeInv, Stores
<1>1. /\ strayed' = strayed
      /\ \A r : Fresh(r)' => Fresh(r)
      /\ [Next]_vars
    BY OnTimeEffect DEF Fresh, OnTimeStep
<1>2. ASSUME overlap \subseteq overlap' PROVE Calm(e)
    BY <1>1, <1>2 DEF CalmInv
<1>3. CASE Quiet
    BY <1>1, <1>2, <1>3, CalmFrame DEF Quiet
<1>4. ASSUME NEW d \in Doc, StartIngest(d) \/ StartPurge(d) PROVE Calm(e)'
    <2>1. Calm(e)
        BY <1>2, <1>4, StartIngestEffect, StartPurgeEffect
    <2>2. CASE e = d
        BY <1>4, <2>1, <2>2, StartsCalm
    <2>3. CASE e # d
        BY <1>1, <1>4, <2>1, <2>3, CalmFrame, StartIngestEffect, StartPurgeEffect
    <2>4. QED
        BY <2>2, <2>3
<1>5. ASSUME NEW d \in Doc,
             EarlyStep(d) \/ UpsertChunks(d) \/ DeleteStaleChunks(d) \/ RecordOutcome(d)
      PROVE  Calm(e)'
    <2>1. Calm(e)
        BY <1>2, <1>5, EarlyEffect, UpsertEffect, CleanupEffect, RecordEffect
    <2>2. CASE e = d
        BY <1>5, <2>1, <2>2, RunStepsCalm
    <2>3. CASE e # d
        <3>1. PointsOf(points', e) = PointsOf(points, e)
            BY <1>5, <2>3, EarlyEffect, UpsertEffect, CleanupEffect, RecordEffect
            DEF PointsOf, Upsert, ChunkPoints, PointID, DeleteStale
        <3>2. ledger'[e] = ledger[e] /\ ingest'[e] = ingest[e] /\ purge'[e] = purge[e]
            BY <1>5, <2>3, EarlyEffect, UpsertEffect, CleanupEffect, RecordEffect
        <3>3. QED
            BY <1>1, <2>1, <3>1, <3>2, CalmFrame
    <2>4. QED
        BY <2>2, <2>3
<1>6. ASSUME NEW d \in Doc, PurgeVectors(d) \/ PurgeAttemptFails(d) \/ PurgeLedger(d)
      PROVE  Calm(e)'
    <2>1. Calm(e)
        BY <1>2, <1>6, PurgeVectorsEffect, PurgeLedgerEffect
    <2>2. CASE e = d
        BY <1>6, <2>1, <2>2, PurgeStepsCalm
    <2>3. CASE e # d
        <3>1. PointsOf(points', e) = PointsOf(points, e)
            BY <1>6, <2>3, PurgeVectorsEffect, PurgeLedgerEffect DEF PointsOf, DeleteDocument
        <3>2. ledger'[e] = ledger[e] /\ ingest'[e] = ingest[e] /\ purge'[e] = purge[e]
            BY <1>6, <2>3, PurgeVectorsEffect, PurgeLedgerEffect
        <3>3. QED
            BY <1>1, <2>1, <3>1, <3>2, CalmFrame
    <2>4. QED
        BY <2>2, <2>3
<1>7. QED
    BY StepCases, <1>1, <1>3, <1>4, <1>5, <1>6

\* A request that is given up joins its own kind.
LEMMA GiveUpCalm ==
    ASSUME LateTypeInv, CalmInv, NEW d \in Doc, GaveUp(d)
    PROVE  CalmInv'
<1> USE DEF LateTypeInv, Stores
<1>1. PICK op \in Operations :
        /\ late' = late \cup {Request(op, d)}
        /\ UNCHANGED <<Stores, overlap, strayed>>
        /\ op \in IngestOps => ingest[d].stage \in {"upsert", "cleanup", "record"}
        /\ ingest'[d].version = ingest[d].version
        /\ ingest'[d].content = ingest[d].content
        /\ \/ ingest'[d].stage = ingest[d].stage
           \/ ingest'[d].stage = "embed" /\ ingest[d].stage = "upsert"
        /\ \A e \in Doc \ {d} : ingest'[e] = ingest[e] /\ purge'[e] = purge[e]
        /\ op \notin IngestOps => purge[d] # "none"
        /\ op = "row" => purge[d] = "ledger"
        /\ \/ purge'[d] = purge[d]
           \/ purge'[d] = "vectors" /\ purge[d] = "ledger"
    BY GiveUpEffect
<1>2. \A r : Fresh(r)' => Fresh(r) \/ (r.doc = d /\ r.op = op)
    BY <1>1, RequestOfARun DEF Fresh
<1>3. \A r : Fresh(r) => r \in late
    BY DEF Fresh
<1>4. (Running(d)' <=> Running(d)) /\ (Purging(d)' <=> Purging(d))
    BY <1>1 DEF Running, Purging
<1>5. ASSUME Calm(d) PROVE Calm(d)'
    <2>1. CalmRows(d)'
        BY <1>1, <1>4, <1>5 DEF Calm, CalmRows, HasAllVectors
    <2>2. /\ op \in IngestOps => Running(d) /\ ~Purging(d)
          /\ op \notin IngestOps => Purging(d) /\ ~Running(d)
          /\ op = "row" => PointsOf(points, d) = {}
        BY <1>1, <1>5 DEF Calm, CalmRows, Running, Purging
    <2>3. CalmRequests(d)'
        BY <1>1, <1>2, <1>3, <1>4, <1>5, <2>2 DEF Calm, CalmRequests
    <2>4. QED
        BY <2>1, <2>3 DEF Calm
<1>6. ASSUME NEW e \in Doc \ {d}, Calm(e) PROVE Calm(e)'
    BY <1>1, <1>2, <1>6, CalmFrame
<1>7. QED
    BY <1>1, <1>5, <1>6 DEF CalmInv

\* A fresh request repeats what its workflow did or is about to do.
LEMMA LandCalm ==
    ASSUME LateTypeInv, OfOneRun, CalmInv, NEW r \in late, Landed(r)
    PROVE  CalmInv'
<1> USE DEF LateTypeInv
<1>1. /\ r.op \in Operations /\ r.doc \in Doc
      /\ late' = late \ {r}
      /\ strayed \subseteq strayed'
      /\ r.stray => r.doc \in strayed'
      /\ UNCHANGED <<ingest, purge, overlap>>
    BY LandEffect
<1>2. \A s : Fresh(s)' => Fresh(s) /\ s \in late
    BY <1>1 DEF Fresh
<1>3. \A d : (Running(d)' <=> Running(d)) /\ (Purging(d)' <=> Purging(d))
    BY <1>1 DEF Running, Purging
<1>4. ASSUME NEW d \in Doc \ {r.doc}, Calm(d) PROVE Calm(d)'
    <2>1. PointsOf(points', d) = PointsOf(points, d) /\ ledger'[d] = ledger[d]
        BY <1>1 DEF Landed, LandUpsert, LandCleanup, LandRecord, LandVectors, LandRow,
            PointsOf, Upsert, ChunkPoints, PointID, DeleteStale, DeleteDocument,
            RecordIngestion, DeleteRecord, TypeInv, TypeOK
    <2>2. QED
        BY <1>1, <1>2, <1>4, <2>1, CalmFrame
<1>5. ASSUME Calm(r.doc), Fresh(r) PROVE Calm(r.doc)'
    <2> DEFINE d == r.doc
               n == ChunkCount[r.content]
    <2>1. ASSUME r.op \in IngestOps
          PROVE  /\ ~Purging(d)
                 /\ r.content \in Content /\ n \in Nat
                 /\ Running(d) => r.version = ingest[d].version /\ r.content = ingest[d].content
                 /\ ~Running(d) =>
                        /\ ledger[d].version = r.version
                        /\ ledger[d].count = RecordedCount(r.content)
                        /\ ledger[d].status = StatusOf(r.content)
                        /\ ledger[d].status # "absent"
                        /\ ledger[d].status = "ingested" => ledger[d].count = n
                 /\ \A s : Fresh(s)' /\ s.doc = d => s.op \in IngestOps
        BY <1>2, <1>5, <2>1, OutcomeType, ContentShape
        DEF Calm, CalmRequests, OfOneRun, Own, Fresh, LateShape
    <2>2. ASSUME r.op \notin IngestOps
          PROVE  /\ ~Running(d)
                 /\ r.op = "row" => PointsOf(points, d) = {}
                 /\ ~Purging(d) => PointsOf(points, d) = {} /\ ~HasRow(ledger, d)
                 /\ \A s : Fresh(s)' /\ s.doc = d => s.op \notin IngestOps
        BY <1>2, <1>5, <2>2 DEF Calm, CalmRequests, Fresh
    <2>3. CASE LandUpsert(r)
        <3>1. HasChunks(points', d, r.version, n)
            BY <2>1, <2>3, UpsertWritesAll DEF LandUpsert, IngestOps
        <3>2. ledger' = ledger /\ r.op \in IngestOps
            BY <2>3 DEF LandUpsert, IngestOps
        <3>3. CalmRows(d)'
            BY <1>1, <1>3, <1>5, <2>1, <3>1, <3>2
            DEF Calm, CalmRows, HasAllVectors, HasRow, Running, Purging
        <3>4. CalmRequests(d)'
            BY <1>1, <1>2, <1>3, <1>5, <2>1, <3>2 DEF Calm, CalmRequests
        <3>5. QED
            BY <3>3, <3>4 DEF Calm
    <2>4. CASE LandCleanup(r)
        <3>1. /\ points' = DeleteStale(points, d, r.version)
              /\ ledger' = ledger /\ r.op \in IngestOps
            BY <2>4 DEF LandCleanup, IngestOps
        <3>2. ASSUME NEW m, HasChunks(points, d, r.version, m)
              PROVE  HasChunks(points', d, r.version, m)
            BY <3>1, <3>2, DeleteStaleKeepsOthers
        <3>3. PointsOf(points', d) \subseteq PointsOf(points, d)
            BY <3>1 DEF PointsOf, DeleteStale
        <3>4. CalmRows(d)'
            BY <1>1, <1>3, <1>5, <2>1, <3>1, <3>2, <3>3
            DEF Calm, CalmRows, HasAllVectors, HasRow, Running, Purging
        <3>5. CalmRequests(d)'
            BY <1>1, <1>2, <1>3, <1>5, <2>1, <3>1 DEF Calm, CalmRequests
        <3>6. QED
            BY <3>4, <3>5 DEF Calm
    <2>5. CASE LandRecord(r)
        <3>1. /\ points' = points /\ r.op \in IngestOps
              /\ ledger'[d].version = r.version
              /\ ledger'[d].count = RecordedCount(r.content)
              /\ ledger'[d].status = StatusOf(r.content)
            BY <1>1, <2>5 DEF LandRecord, RecordIngestion, IngestOps, TypeInv, TypeOK
        <3>2. CalmRows(d)'
            BY <1>1, <1>3, <1>5, <2>1, <3>1, OutcomeType
            DEF Calm, CalmRows, HasAllVectors, HasRow, Running, Purging
        <3>3. \A s : Fresh(s)' /\ s.doc = d => s.version = r.version /\ s.content = r.content
            BY <1>2, <1>5, <2>1, <3>1 DEF OfOneRun, Own, Fresh
        <3>4. CalmRequests(d)'
            BY <1>1, <1>2, <1>3, <1>5, <2>1, <3>1, <3>3 DEF Calm, CalmRequests
        <3>5. QED
            BY <3>2, <3>4 DEF Calm
    <2>6. CASE LandVectors(r)
        <3>1. PointsOf(points', d) = {} /\ ledger' = ledger /\ r.op \notin IngestOps
            BY <2>6 DEF LandVectors, DeleteDocument, PointsOf, IngestOps
        <3>2. CalmRows(d)'
            BY <1>1, <1>3, <1>5, <2>2, <3>1
            DEF Calm, CalmRows, HasAllVectors, HasRow, Running, Purging
        <3>3. CalmRequests(d)'
            BY <1>1, <1>2, <1>3, <1>5, <2>2, <3>1 DEF Calm, CalmRequests
        <3>4. QED
            BY <3>2, <3>3 DEF Calm
    <2>7. CASE LandRow(r)
        <3>1. /\ points' = points /\ r.op = "row" /\ r.op \notin IngestOps
              /\ ledger'[d].status = "absent"
            BY <1>1, <2>7 DEF LandRow, DeleteRecord, NoRow, IngestOps, TypeInv, TypeOK
        <3>2. CalmRows(d)'
            BY <1>1, <1>3, <1>5, <2>2, <3>1
            DEF Calm, CalmRows, HasRow, Running, Purging
        <3>3. CalmRequests(d)'
            BY <1>1, <1>2, <1>3, <1>5, <2>2, <3>1 DEF Calm, CalmRequests, HasRow
        <3>4. QED
            BY <3>2, <3>3 DEF Calm
    <2>8. QED
        BY <2>3, <2>4, <2>5, <2>6, <2>7 DEF Landed
<1>6. QED
    BY <1>1, <1>4, <1>5 DEF CalmInv, Fresh

LEMMA NextCalm ==
    LateTypeInv /\ LateInv /\ CalmInv /\ [LateNext]_<<vars, lateVars>> => CalmInv'
<1> SUFFICES ASSUME LateTypeInv, LateInv, CalmInv, [LateNext]_<<vars, lateVars>> PROVE CalmInv'
    OBVIOUS
<1> USE DEF LateInv
<1>1. CASE UNCHANGED <<vars, lateVars>>
    BY <1>1, CalmFrame DEF CalmInv, Fresh, vars, lateVars, storeVars, childVars
<1>2. CASE OnTimeStep
    BY <1>2, OnTimeCalm
<1>3. ASSUME NEW d \in Doc, GaveUp(d) PROVE CalmInv'
    BY <1>3, GiveUpCalm
<1>4. ASSUME NEW r \in late, Landed(r) PROVE CalmInv'
    BY <1>4, LandCalm
<1>5. QED
    BY <1>1, <1>2, <1>3, <1>4 DEF LateNext, GaveUp, Landed

\* With late requests too, a row and its vectors part only when a stray has
\* landed on the document, or an ingest and a purge of it ran at once.
THEOREM OnlyStraysOrOverlapBreak == LateSpec => []OnlyStraysOrOverlapBreakRows
<1>1. /\ LateInit => LateTypeInv /\ LateInv /\ CalmInv
      /\ LateTypeInv /\ LateInv /\ CalmInv /\ [LateNext]_<<vars, lateVars>>
            => LateTypeInv' /\ LateInv' /\ CalmInv'
    BY InitLateTypeInv, InitLateInv, InitCalm, NextLateTypeInv, NextLateInv, NextCalm
<1>2. CalmInv => OnlyStraysOrOverlapBreakRows
    BY DEF CalmInv, Calm, CalmRows, OnlyStraysOrOverlapBreakRows
<1>3. QED
    BY <1>1, <1>2, PTL DEF LateSpec

(***************************************************************************)
(* Only purges and strays empty a document.                                *)
(***************************************************************************)
\* An upsert keeps a vector of its version, if there was one or none at all.
LEMMA UpsertKeepsSome ==
    ASSUME NEW d, NEW v, NEW c, NEW n, NEW pts,
           PointsOf(pts, d) = {} \/ \E p \in PointsOf(pts, d) : p.version = v
    PROVE  LET new == Upsert(pts, ChunkPoints(d, v, c, n))
           IN  PointsOf(new, d) = {} \/ \E p \in PointsOf(new, d) : p.version = v
<1> DEFINE chunks == ChunkPoints(d, v, c, n)
           new == Upsert(pts, chunks)
<1>1. \A q \in chunks : q.doc = d /\ q.version = v
    BY DEF ChunkPoints
<1>2. CASE chunks = {}
    <2>1. \A p \in pts : p \in new
        BY <1>2 DEF Upsert
    <2>2. new \subseteq pts
        BY <1>2 DEF Upsert
    <2> HIDE DEF new
    <2>3. QED
        BY <2>1, <2>2 DEF PointsOf, new
<1>3. CASE chunks # {}
    <2>1. PICK q \in chunks : TRUE
        BY <1>3
    <2>2. q \in PointsOf(new, d) /\ q.version = v
        BY <1>1, <2>1 DEF PointsOf, Upsert
    <2>3. QED
        BY <2>2
<1>4. QED
    BY <1>2, <1>3

LEMMA OnTimeKeepsSome ==
    ASSUME LateTypeInv, LateKeepsSome, OnTimeStep
    PROVE  LateKeepsSome'
<1> USE DEF LateTypeInv, LateKeepsSome, PointsOf, Stores
<1>1. /\ strayed' = strayed
      /\ \A r : Own(r)' => Own(r) /\ r \in late /\ ~Started(r.doc) /\ r.doc \in Doc
      /\ [Next]_vars
    BY OnTimeEffect DEF Own, OnTimeStep, RequestType
<1>2. CASE Quiet
    BY <1>1, <1>2 DEF Quiet, Running, Own
<1>3. ASSUME NEW d \in Doc, StartIngest(d) PROVE LateKeepsSome'
    <2>1. ~Running(d) /\ ingest'[d].stage = "fetch" => Started(d)
        BY DEF Started, Running
    <2>2. QED
        BY <1>1, <1>3, <2>1, StartIngestEffect DEF Running, Own
<1>4. ASSUME NEW d \in Doc, StartPurge(d) PROVE LateKeepsSome'
    BY <1>1, <1>4, StartPurgeEffect DEF Running, Own
<1>5. ASSUME NEW d \in Doc, EarlyStep(d) PROVE LateKeepsSome'
    <2>1. ingest[d].stage \notin {"cleanup", "record"}
        BY <1>5 DEF EarlyStep, FetchAndExtract, CheckCollection, CreateCollection,
            EmbedAttemptFails
    <2>2. QED
        BY <1>1, <1>5, <2>1, EarlyEffect DEF Running, Own
<1>6. ASSUME NEW d \in Doc, UpsertChunks(d) PROVE LateKeepsSome'
    <2>1. ChunkCount[ingest[d].content] \in Nat \ {0}
        BY <1>6, OutcomeType DEF UpsertChunks, TypeInv, RunShape
    <2>2. HasChunks(points', d, ingest[d].version, ChunkCount[ingest[d].content])
        BY <1>6, <2>1, UpsertEffect, UpsertWritesAll
    <2>3. \E p \in PointsOf(points', d) : p.version = ingest[d].version
        BY <2>1, <2>2 DEF HasChunks, PointID
    <2>4. \A e \in Doc \ {d} : PointsOf(points', e) = PointsOf(points, e)
        BY <1>6, UpsertEffect DEF Upsert, ChunkPoints, PointID
    <2>5. QED
        BY <1>1, <1>6, <2>3, <2>4, UpsertEffect DEF Running, Own
<1>7. ASSUME NEW d \in Doc, DeleteStaleChunks(d) PROVE LateKeepsSome'
    BY <1>1, <1>7, CleanupEffect DEF DeleteStale, Running, Own
<1>8. ASSUME NEW d \in Doc, RecordOutcome(d) PROVE LateKeepsSome'
    BY <1>1, <1>8, RecordEffect DEF Running, Own
<1>9. ASSUME NEW d \in Doc, PurgeVectors(d) \/ PurgeAttemptFails(d) PROVE LateKeepsSome'
    BY <1>1, <1>9, PurgeVectorsEffect DEF DeleteDocument, Running, Own
<1>10. ASSUME NEW d \in Doc, PurgeLedger(d) PROVE LateKeepsSome'
    BY <1>1, <1>10, PurgeLedgerEffect DEF Running, Own
<1>11. QED
    BY StepCases, <1>1, <1>2, <1>3, <1>4, <1>5, <1>6, <1>7, <1>8, <1>9, <1>10

LEMMA GiveUpKeepsSome ==
    ASSUME LateTypeInv, LateKeepsSome, NEW d \in Doc, GaveUp(d)
    PROVE  LateKeepsSome'
<1> USE DEF LateTypeInv, Stores
<1>1. PICK op \in Operations :
        /\ late' = late \cup {Request(op, d)}
        /\ UNCHANGED <<Stores, strayed>>
        /\ ingest'[d].version = ingest[d].version
        /\ \/ ingest'[d].stage = ingest[d].stage
           \/ ingest'[d].stage = "embed" /\ ingest[d].stage = "upsert"
        /\ \A e \in Doc \ {d} : ingest'[e] = ingest[e]
        /\ op = "cleanup" => ingest[d].stage = "cleanup"
    BY GiveUpEffect
<1>2. \A r : Own(r)' =>
        \/ Own(r)
        \/ r.doc = d /\ r.op = op /\ r.content = ingest[d].content
    BY <1>1, RequestOfARun DEF Own
<1>3. \A r : Own(r) => r \in late /\ r.doc \in Doc
    BY DEF Own, LateShape, RequestType
<1>4. ingest[d].stage = "cleanup" => StatusOf(ingest[d].content) = "ingested"
    BY DEF TypeInv, RunShape
<1>5. QED
    BY <1>1, <1>2, <1>3, <1>4 DEF LateKeepsSome, Running

LEMMA LandKeepsSome ==
    ASSUME LateTypeInv, OfOneRun, LateKeepsSome, NEW r \in late, Landed(r)
    PROVE  LateKeepsSome'
<1> USE DEF LateTypeInv
<1>1. /\ r.op \in Operations /\ r.doc \in Doc
      /\ late' = late \ {r}
      /\ strayed \subseteq strayed'
      /\ r.stray => r.doc \in strayed'
      /\ UNCHANGED <<ingest, purge, overlap>>
    BY LandEffect
<1>2. \A s \in late' : Own(s)' /\ s.op = "cleanup" =>
        /\ StatusOf(s.content) = "ingested"
        /\ Running(s.doc)' => ingest'[s.doc].stage \in {"cleanup", "record"}
    BY <1>1 DEF LateKeepsSome, Own, Running
<1>3. ASSUME NEW d \in Doc \ strayed', ingest[d].stage = "cleanup"
      PROVE  PointsOf(points', d) = {}
             \/ \E p \in PointsOf(points', d) : p.version = ingest[d].version
    <2>1. PointsOf(points, d) = {} \/ \E p \in PointsOf(points, d) : p.version = ingest[d].version
        BY <1>1, <1>3 DEF LateKeepsSome
    <2>2. CASE d # r.doc \/ LandRecord(r) \/ LandRow(r)
        <3>1. PointsOf(points', d) = PointsOf(points, d)
            BY <2>2 DEF Landed, LandUpsert, LandCleanup, LandRecord, LandVectors, LandRow,
                PointsOf, Upsert, ChunkPoints, PointID, DeleteStale, DeleteDocument
        <3>2. QED
            BY <2>1, <3>1
    <2>3. CASE d = r.doc /\ (LandUpsert(r) \/ LandCleanup(r))
        <3>1. r.version = ingest[d].version
            BY <1>1, <1>3, <2>3 DEF OfOneRun, Own, Running, LandUpsert, LandCleanup, IngestOps
        <3>2. CASE LandUpsert(r)
            BY <2>1, <2>3, <3>1, <3>2, UpsertKeepsSome DEF LandUpsert
        <3>3. CASE LandCleanup(r)
            BY <2>1, <2>3, <3>1, <3>3 DEF LandCleanup, DeleteStale, PointsOf
        <3>4. QED
            BY <2>3, <3>2, <3>3
    <2>4. CASE d = r.doc /\ LandVectors(r)
        BY <2>4 DEF LandVectors, DeleteDocument, PointsOf
    <2>5. QED
        BY <2>2, <2>3, <2>4 DEF Landed
<1>4. QED
    BY <1>1, <1>2, <1>3 DEF LateKeepsSome

LEMMA NextLateKeepsSome ==
    LateTypeInv /\ LateInv /\ LateKeepsSome /\ [LateNext]_<<vars, lateVars>> => LateKeepsSome'
<1> SUFFICES ASSUME LateTypeInv, LateInv, LateKeepsSome, [LateNext]_<<vars, lateVars>>
             PROVE  LateKeepsSome'
    OBVIOUS
<1>1. CASE UNCHANGED <<vars, lateVars>>
    BY <1>1 DEF LateKeepsSome, Own, Running, PointsOf, vars, lateVars, storeVars, childVars
<1>2. CASE OnTimeStep
    BY <1>2, OnTimeKeepsSome
<1>3. ASSUME NEW d \in Doc, GaveUp(d) PROVE LateKeepsSome'
    BY <1>3, GiveUpKeepsSome
<1>4. ASSUME NEW r \in late, Landed(r) PROVE LateKeepsSome'
    BY <1>4, LandKeepsSome DEF LateInv
<1>5. QED
    BY <1>1, <1>2, <1>3, <1>4 DEF LateNext, GaveUp, Landed

\* A late cleanup that is no stray keeps a vector: while its run is cleaning
\* up, by LateKeepsSome, and afterwards because none of another version is left.
LEMMA FreshCleanupKeepsSome ==
    ASSUME LateTypeInv, LateInv, LateKeepsSome, NEW r \in late, LandCleanup(r), ~r.stray,
           r.doc \notin strayed, PointsOf(points, r.doc) # {}
    PROVE  PointsOf(points', r.doc) # {}
<1> USE DEF LateInv
<1>1. /\ r.doc \in Doc /\ r.op = "cleanup" /\ Own(r)
      /\ points' = DeleteStale(points, r.doc, r.version)
    BY DEF LandCleanup, LateTypeInv, LateShape, RequestType, Own, IngestOps
<1>2. \E p \in PointsOf(points, r.doc) : p.version = r.version
    <2>1. CASE Running(r.doc)
        BY <1>1, <2>1 DEF LateKeepsSome, OfOneRun, LateNoStale, PointsOf
    <2>2. CASE ~Running(r.doc)
        BY <1>1, <2>2 DEF LateKeepsSome, OfTheRow
    <2>3. QED
        BY <2>1, <2>2
<1>3. QED
    BY <1>1, <1>2 DEF PointsOf, DeleteStale

LEMMA LateStepEmpties ==
    ASSUME LateTypeInv, LateInv, LateKeepsSome, [LateNext]_<<vars, lateVars>>,
           NEW e \in Doc \ strayed', PointsOf(points, e) # {}, PointsOf(points', e) = {}
    PROVE  purge[e] = "vectors" \/ \E r \in late : r.doc = e /\ r.op = "vectors"
<1> USE DEF LateTypeInv
<1>1. CASE UNCHANGED <<vars, lateVars>>
    BY <1>1 DEF PointsOf, vars, storeVars
<1>2. CASE OnTimeStep
    <2>1. e \notin strayed /\ [Next]_vars
        BY <1>2 DEF OnTimeStep
    <2>2. CASE \E d \in Doc : DeleteStaleChunks(d)
        BY <2>1, <2>2, CleanupEffect DEF DeleteStale, LateKeepsSome, PointsOf
    <2>3. CASE \E d \in Doc : UpsertChunks(d)
        <3>1. PICK d \in Doc : UpsertChunks(d)
            BY <2>3
        <3>2. ChunkCount[ingest[d].content] \in Nat \ {0}
            BY <3>1, OutcomeType DEF UpsertChunks, TypeInv, RunShape
        <3>3. HasChunks(points', d, ingest[d].version, ChunkCount[ingest[d].content])
            BY <3>1, <3>2, UpsertEffect, UpsertWritesAll
        <3>4. e # d
            BY <3>2, <3>3 DEF HasChunks, PointID, PointsOf
        <3>5. PointsOf(points', e) = PointsOf(points, e)
            BY <3>1, <3>4, UpsertEffect DEF Upsert, ChunkPoints, PointID, PointsOf
        <3>6. QED
            BY <3>5
    <2>4. CASE \E d \in Doc : PurgeVectors(d) \/ PurgeAttemptFails(d)
        BY <2>4, PurgeVectorsEffect DEF DeleteDocument, PointsOf
    <2>5. CASE points' = points
        BY <2>5
    <2>6. QED
        BY StepCases, <2>1, <2>2, <2>3, <2>4, <2>5, StartIngestEffect, StartPurgeEffect,
            EarlyEffect, RecordEffect, PurgeLedgerEffect DEF Quiet, Stores
<1>3. ASSUME NEW d \in Doc, GaveUp(d) PROVE FALSE
    BY <1>3, GiveUpEffect DEF Stores
<1>4. ASSUME NEW r \in late, Landed(r) PROVE r.doc = e /\ r.op = "vectors"
    <2>1. strayed \subseteq strayed' /\ (r.stray => r.doc \in strayed')
        BY <1>4, LandEffect
    <2>2. CASE LandUpsert(r)
        <3>1. \A q \in ChunkPoints(r.doc, r.version, r.content, ChunkCount[r.content]) :
                PointID(q)[1] = r.doc /\ q.doc = r.doc
            BY DEF ChunkPoints, PointID
        <3>2. PICK p \in points : p.doc = e
            BY DEF PointsOf
        <3>3. p \in points' \/ \E q \in points' : q.doc = e
            BY <2>2, <3>1, <3>2 DEF LandUpsert, Upsert, PointID
        <3>4. QED
            BY <3>2, <3>3 DEF PointsOf
    <2>3. CASE LandCleanup(r)
        <3>1. e = r.doc
            BY <2>3 DEF LandCleanup, DeleteStale, PointsOf
        <3>2. QED
            BY <2>1, <2>3, <3>1, FreshCleanupKeepsSome
    <2>4. CASE LandRecord(r) \/ LandRow(r)
        BY <2>4 DEF LandRecord, LandRow
    <2>5. CASE LandVectors(r)
        BY <2>5 DEF LandVectors, DeleteDocument, PointsOf
    <2>6. QED
        BY <1>4, <2>2, <2>3, <2>4, <2>5 DEF Landed
<1>5. QED
    BY <1>1, <1>2, <1>3, <1>4 DEF LateNext, GaveUp, Landed

\* Late requests or not, an edit never leaves its document without vectors:
\* only a purge does, or a stray.
THEOREM OnlyPurgesAndStraysEmpty == LateSpec => OnlyPurgesAndStraysEmptyADocument
<1> DEFINE A == \A d \in Doc \ strayed' : PointsOf(points, d) # {} /\ PointsOf(points', d) = {}
                    => purge[d] = "vectors" \/ \E r \in late : r.doc = d /\ r.op = "vectors"
           Inv == LateTypeInv /\ LateInv /\ LateKeepsSome
<1>1. LateInit => Inv
    BY InitLateTypeInv, InitLateInv, InitCalm
<1>2. Inv /\ [LateNext]_<<vars, lateVars>> => Inv'
    BY NextLateTypeInv, NextLateInv, NextLateKeepsSome
<1>3. Inv /\ [LateNext]_<<vars, lateVars>> => [A]_<<vars, lateVars>>
    BY LateStepEmpties
<1>4. LateSpec => [][A]_<<vars, lateVars>>
    BY <1>1, <1>2, <1>3, PTL DEF LateSpec
<1>5. QED
    BY <1>4 DEF OnlyPurgesAndStraysEmptyADocument
=============================================================================
