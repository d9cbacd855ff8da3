-------------------------- MODULE IngestionProofs --------------------------
(***************************************************************************)
(* Proofs about Ingestion: its type invariant and the safety properties    *)
(* that the Safety run checks, for every folder, content and bound.        *)
(***************************************************************************)
EXTENDS Ingestion, TLAPS

(***************************************************************************)
(* TypeOK by itself is not inductive: an upsert writes points of the run's *)
(* version and content, so a run must have them.                           *)
(***************************************************************************)
\* A running ingest has a version, and a content once it has fetched it,
\* which has text for as long as the run is about to embed or clean up.
RunShape ==
    \A d \in Doc :
        /\ Running(d) => ingest[d].version \in Version
        /\ ingest[d].stage \notin {"none", "fetch"} => ingest[d].content \in Content
        /\ ingest[d].stage \in {"embed", "create", "upsert", "cleanup"}
            => StatusOf(ingest[d].content) = "ingested"

\* There is a plan only between Reconcile and SyncDone, and the entries of
\* the documents still to be ingested are kept until then.
PlanShape ==
    /\ syncStage # "start" => planIngest = {} /\ planPurge = {}
    /\ \A d \in planIngest : listing[d] # NoVersion

TypeInv == TypeOK /\ RunShape /\ PlanShape

LEMMA InitTypeInv == Init => TypeInv
BY NullValues, Bounds DEF Init, TypeInv, TypeOK, RunShape, PlanShape, NothingListed,
    NotRunning, Run, NoRow, Running, IngestStages, Statuses

\* What moving on to a stage changes.
LEMMA GoToEffect ==
    ASSUME TypeOK, NEW d \in Doc, NEW s \in IngestStages, GoTo(d, s)
    PROVE  /\ ingest' \in [Doc -> [stage : IngestStages, version : Version \cup {NoVersion},
                                   content : Content \cup {NoFile}]]
           /\ ingest'[d].stage = s
           /\ ingest'[d].version = ingest[d].version
           /\ ingest'[d].content = ingest[d].content
           /\ \A e \in Doc \ {d} : ingest'[e] = ingest[e]
BY DEF TypeOK, GoTo, Run

\* An acknowledged attempt moves the run on, a lost one moves it back.
LEMMA AcknowledgedOrLostEffect ==
    ASSUME TypeOK, NEW d \in Doc, NEW next \in IngestStages, NEW again \in IngestStages,
           AcknowledgedOrLost(d, next, again)
    PROVE  /\ ingest' \in [Doc -> [stage : IngestStages, version : Version \cup {NoVersion},
                                   content : Content \cup {NoFile}]]
           /\ faults' \in Nat
           /\ ingest'[d].stage \in {next, again}
           /\ ingest'[d].version = ingest[d].version
           /\ ingest'[d].content = ingest[d].content
           /\ \A e \in Doc \ {d} : ingest'[e] = ingest[e]
<1>1. PICK s \in {next, again} : GoTo(d, s)
    BY DEF AcknowledgedOrLost
<1>2. faults' \in Nat
    BY DEF AcknowledgedOrLost, LoseAttempt, TypeOK
<1>3. QED
    BY <1>1, <1>2, GoToEffect

\* What the workflow records has the type of a row.
LEMMA OutcomeType ==
    ASSUME NEW c \in Content
    PROVE  /\ StatusOf(c) \in Statuses \ {"absent"}
           /\ RecordedCount(c) \in Nat
           /\ StatusOf(c) = "ingested" => ChunkCount[c] \in Nat \ {0} /\ RecordedCount(c) = ChunkCount[c]
BY ContentShape DEF StatusOf, RecordedCount, Statuses

LEMMA NextTypeInv == TypeInv /\ [Next]_vars => TypeInv'
<1> SUFFICES ASSUME TypeInv, [Next]_vars PROVE TypeInv'
    OBVIOUS
<1> USE HashInjective, ContentShape, NullValues DEF TypeInv, folderVars, storeVars, syncVars, childVars,
    Running, IngestStages, Statuses, NotRunning, Run
<1>1. ASSUME NEW d \in Doc, NEW c \in Content \cup {NoFile}, ChangeFile(d, c)
      PROVE TypeInv'
    BY <1>1 DEF ChangeFile, TypeOK, RunShape, PlanShape
<1>2. CASE Tick
    BY <1>2 DEF Tick, TypeOK, RunShape, PlanShape
<1>3. ASSUME NEW d \in Doc, ReadListed(d) PROVE TypeInv'
    BY <1>3 DEF ReadListed, LoseAttempt, TypeOK, RunShape, PlanShape
<1>4. CASE LoadLedger
    BY <1>4 DEF LoadLedger, ToIngest, ToPurge, TypeOK, RunShape, PlanShape
<1>5. CASE ReconcileFails
    BY <1>5 DEF ReconcileFails, LoseAttempt, NothingListed, TypeOK, RunShape, PlanShape
<1>6. ASSUME NEW d \in Doc, StartIngest(d) PROVE TypeInv'
    <2>1. listing[d] \in Version
        BY <1>6 DEF StartIngest, TypeOK, PlanShape
    <2>2. TypeOK'
        BY <1>6, <2>1 DEF StartIngest, TypeOK
    <2>3. RunShape'
        BY <1>6, <2>1 DEF StartIngest, TypeOK, RunShape
    <2>4. PlanShape'
        BY <1>6 DEF StartIngest, TypeOK, PlanShape
    <2>5. QED
        BY <2>2, <2>3, <2>4
<1>7. ASSUME NEW d \in Doc, StartPurge(d) PROVE TypeInv'
    BY <1>7 DEF StartPurge, Purging, TypeOK, RunShape, PlanShape
<1>8. CASE SyncDone
    BY <1>8 DEF SyncDone, TypeOK, RunShape, PlanShape
<1>9. ASSUME NEW d \in Doc, FetchAndExtract(d) PROVE TypeInv'
    <2>1. TypeOK'
        BY <1>9 DEF FetchAndExtract, TypeOK, RunShape
    <2>2. RunShape'
        BY <1>9 DEF FetchAndExtract, TypeOK, RunShape
    <2>3. PlanShape'
        BY <1>9 DEF FetchAndExtract, PlanShape
    <2>4. QED
        BY <2>1, <2>2, <2>3
<1>10. ASSUME NEW d \in Doc, CheckCollection(d) PROVE TypeInv'
    <2>1. TypeOK'
        BY <1>10, GoToEffect DEF CheckCollection, LoseAttempt, TypeOK, RunShape
    <2>2. RunShape'
        BY <1>10, GoToEffect DEF CheckCollection, TypeOK, RunShape
    <2>3. PlanShape'
        BY <1>10 DEF CheckCollection, PlanShape
    <2>4. QED
        BY <2>1, <2>2, <2>3
<1>11. ASSUME NEW d \in Doc, CreateCollection(d) PROVE TypeInv'
    <2>1. CASE collection
        <3>1. GoTo(d, "embed") /\ UNCHANGED <<collection, faults>>
            BY <1>11, <2>1 DEF CreateCollection
        <3>2. TypeOK'
            BY <1>11, <3>1, GoToEffect DEF CreateCollection, TypeOK
        <3>3. RunShape'
            BY <1>11, <3>1, GoToEffect DEF CreateCollection, RunShape
        <3>4. PlanShape'
            BY <1>11 DEF CreateCollection, PlanShape
        <3>5. QED
            BY <3>2, <3>3, <3>4
    <2>2. CASE ~collection
        <3>1. AcknowledgedOrLost(d, "upsert", "embed")
            BY <1>11, <2>2 DEF CreateCollection
        <3>2. TypeOK'
            BY <1>11, <2>2, <3>1, AcknowledgedOrLostEffect DEF CreateCollection, TypeOK
        <3>3. RunShape'
            BY <1>11, <2>2, <3>1, AcknowledgedOrLostEffect DEF CreateCollection, RunShape
        <3>4. PlanShape'
            BY <1>11, <2>2 DEF CreateCollection, PlanShape
        <3>5. QED
            BY <3>2, <3>3, <3>4
    <2>3. QED
        BY <2>1, <2>2
<1>12. ASSUME NEW d \in Doc, UpsertChunks(d) PROVE TypeInv'
    <2>1. AcknowledgedOrLost(d, "cleanup", "embed")
        BY <1>12 DEF UpsertChunks
    <2>2. points' \subseteq [doc : Doc, version : Version, index : Nat, text : Content]
        BY <1>12, ContentShape DEF UpsertChunks, Upsert, ChunkPoints, TypeOK, RunShape
    <2>3. TypeOK'
        BY <1>12, <2>1, <2>2, AcknowledgedOrLostEffect DEF UpsertChunks, TypeOK
    <2>4. RunShape'
        BY <1>12, <2>1, AcknowledgedOrLostEffect DEF UpsertChunks, RunShape
    <2>5. PlanShape'
        BY <1>12 DEF UpsertChunks, PlanShape
    <2>6. QED
        BY <2>3, <2>4, <2>5
<1>13. ASSUME NEW d \in Doc, EmbedAttemptFails(d) PROVE TypeInv'
    <2>1. TypeOK'
        BY <1>13, GoToEffect DEF EmbedAttemptFails, LoseAttempt, TypeOK, RunShape
    <2>2. RunShape'
        BY <1>13, GoToEffect DEF EmbedAttemptFails, TypeOK, RunShape
    <2>3. PlanShape'
        BY <1>13 DEF EmbedAttemptFails, PlanShape
    <2>4. QED
        BY <2>1, <2>2, <2>3
<1>14. ASSUME NEW d \in Doc, DeleteStaleChunks(d) PROVE TypeInv'
    <2>1. AcknowledgedOrLost(d, "record", "cleanup")
        BY <1>14 DEF DeleteStaleChunks
    <2>2. TypeOK'
        BY <1>14, <2>1, AcknowledgedOrLostEffect DEF DeleteStaleChunks, DeleteStale, TypeOK
    <2>3. RunShape'
        BY <1>14, <2>1, AcknowledgedOrLostEffect DEF DeleteStaleChunks, RunShape
    <2>4. PlanShape'
        BY <1>14 DEF DeleteStaleChunks, PlanShape
    <2>5. QED
        BY <2>2, <2>3, <2>4
<1>15. ASSUME NEW d \in Doc, RecordOutcome(d) PROVE TypeInv'
    <2>1. ledger' \in [Doc -> [version : Version \cup {NoVersion}, count : Nat,
                              status : Statuses]]
        BY <1>15, OutcomeType DEF RecordOutcome, RecordIngestion, TypeOK, RunShape
    <2>2. faults' \in Nat /\ ingest' \in {ingest, [ingest EXCEPT ![d] = NotRunning]}
        BY <1>15 DEF RecordOutcome, LoseAttempt, TypeOK
    <2>3. TypeOK'
        BY <1>15, <2>1, <2>2 DEF RecordOutcome, TypeOK
    <2>4. RunShape'
        BY <1>15, <2>2 DEF RecordOutcome, TypeOK, RunShape
    <2>5. PlanShape'
        BY <1>15 DEF RecordOutcome, PlanShape
    <2>6. QED
        BY <2>3, <2>4, <2>5
<1>16. ASSUME NEW d \in Doc, PurgeVectors(d) PROVE TypeInv'
    BY <1>16 DEF PurgeVectors, DeleteDocument, LoseAttempt, TypeOK, RunShape, PlanShape
<1>17. ASSUME NEW d \in Doc, PurgeLedger(d) PROVE TypeInv'
    <2>1. ledger' \in [Doc -> [version : Version \cup {NoVersion}, count : Nat,
                              status : Statuses]]
        BY <1>17 DEF PurgeLedger, DeleteRecord, NoRow, TypeOK
    <2>2. TypeOK'
        BY <1>17, <2>1 DEF PurgeLedger, LoseAttempt, TypeOK
    <2>3. RunShape' /\ PlanShape'
        BY <1>17 DEF PurgeLedger, RunShape, PlanShape
    <2>4. QED
        BY <2>2, <2>3
<1>18. ASSUME NEW d \in Doc, PurgeAttemptFails(d) PROVE TypeInv'
    BY <1>18 DEF PurgeAttemptFails, LoseAttempt, TypeOK, RunShape, PlanShape
<1>19. CASE UNCHANGED vars
    BY <1>19 DEF vars, TypeOK, RunShape, PlanShape
<1>20. QED
    BY <1>1, <1>2, <1>3, <1>4, <1>5, <1>6, <1>7, <1>8, <1>9, <1>10, <1>11, <1>12, <1>13,
       <1>14, <1>15, <1>16, <1>17, <1>18, <1>19
    DEF Next, UserStep, SyncStep, IngestStep, PurgeStep

LEMMA TypeInvariant == Spec => []TypeInv
BY InitTypeInv, NextTypeInv, PTL DEF Spec

\* Every variable keeps its type, whatever the folder and the bounds.
THEOREM TypeCorrect == Spec => []TypeOK
<1>1. TypeInv => TypeOK
    BY DEF TypeInv
<1>2. QED
    BY TypeInvariant, <1>1, PTL
=============================================================================
