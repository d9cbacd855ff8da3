----------------------------- MODULE Ingestion -----------------------------
(***************************************************************************)
(* The ingestion pipeline (backend/internal/ingest): the Schedule's sync   *)
(* workflow reconciles a watched folder with the Postgres ledger and       *)
(* starts, per changed document, a child workflow "ingest:<doc>" or        *)
(* "purge:<doc>", whose activities change Qdrant and the ledger.           *)
(*                                                                         *)
(* One step of this module is one call to a service (a file read, a Qdrant *)
(* request, a SQL statement) with the workflow bookkeeping around it, so   *)
(* every interleaving of those calls between the sync, ingest and purge    *)
(* workflows and the user of the folder is a behaviour.                    *)
(*                                                                         *)
(* Temporal (external): workflow state is durable; a workflow ID runs at   *)
(* most once at a time; an activity is attempted until one attempt is      *)
(* acknowledged, so an attempt may take effect and still be run again.     *)
(* An attempt that is given up is over here; LateRequests adds requests    *)
(* that a service carries out after that.                                  *)
(***************************************************************************)
EXTENDS QdrantStore, LedgerStore, FiniteSets

CONSTANTS
    Doc,            \* document IDs (file paths); numbers, so that they sort
    Content,        \* what a file may hold
    NoFile,         \* the file does not exist
    Version,        \* version tokens
    Hash,           \* Content -> Version: sha256 of the content (hashBytes)
    ChunkCount,     \* Content -> Nat: len(ChunkText(text)), 0 for blank text
    Unsupported,    \* contents Extract calls unsupported
    Corrupt,        \* contents Extract fails on (a broken PDF, DOCX or EPUB)
    FreshQdrant,    \* TRUE: Qdrant starts without the collection
    FlakyReads,     \* TRUE: a read of an existing file may fail during List
    MaxEdits,       \* bound: changes the user makes to the folder
    MaxFaults       \* bound: attempts that fail after having done something

ASSUME DocsSort == Doc \subseteq Nat
ASSUME HashInjective ==
    /\ Hash \in [Content -> Version]
    /\ \A c1, c2 \in Content : Hash[c1] = Hash[c2] => c1 = c2
ASSUME ContentShape ==
    /\ ChunkCount \in [Content -> Nat]
    /\ Unsupported \subseteq Content
    /\ Corrupt \subseteq Content
ASSUME NullValues == NoFile \notin Content /\ NoVersion \notin Version
ASSUME Bounds ==
    /\ MaxEdits \in Nat /\ MaxFaults \in Nat
    /\ FreshQdrant \in BOOLEAN /\ FlakyReads \in BOOLEAN

VARIABLES
    source,         \* the folder: Doc -> content or NoFile
    edits,          \* changes made to it so far
    faults,         \* attempts lost so far
    points,         \* Qdrant: the points of the collection
    collection,     \* Qdrant: does the collection exist
    ledger,         \* Postgres: one row per document
    syncStage,      \* SyncCatalogWorkflow: "idle", "list" (in Reconcile), "start"
    dirents,        \* List: the names ReadDir returned
    toRead,         \* List: those not read yet
    listing,        \* List: Doc -> version of the entry, NoVersion if none
    planIngest,     \* Plan.Ingest, the documents still to be started
    planPurge,      \* Plan.Purge, likewise
    ingest,         \* "ingest:<doc>": its stage, entry.Version and content read
    purge,          \* "purge:<doc>": "none", or the call PurgeDocument is at
    overlap         \* history: documents both of whose workflows ran at once

folderVars == <<source, edits>>
storeVars == <<points, collection, ledger>>
syncVars == <<syncStage, dirents, toRead, listing, planIngest, planPurge>>
childVars == <<ingest, purge, overlap>>
vars == <<folderVars, faults, storeVars, syncVars, childVars>>

IngestStages == {"none", "fetch", "embed", "create", "upsert", "cleanup", "record"}
Run(s, v, c) == [stage |-> s, version |-> v, content |-> c]
NotRunning == Run("none", NoVersion, NoFile)
Statuses == {"absent", "unsupported", "empty", "ingested"}

TypeOK ==
    /\ source \in [Doc -> Content \cup {NoFile}]
    /\ edits \in Nat
    /\ faults \in Nat
    /\ points \subseteq [doc : Doc, version : Version, index : Nat, text : Content]
    /\ collection \in BOOLEAN
    /\ ledger \in [Doc -> [version : Version \cup {NoVersion}, count : Nat, status : Statuses]]
    /\ syncStage \in {"idle", "list", "start"}
    /\ dirents \subseteq Doc
    /\ toRead \subseteq Doc
    /\ listing \in [Doc -> Version \cup {NoVersion}]
    /\ planIngest \subseteq Doc
    /\ planPurge \subseteq Doc
    /\ ingest \in [Doc -> [stage : IngestStages, version : Version \cup {NoVersion},
                           content : Content \cup {NoFile}]]
    /\ purge \in [Doc -> {"none", "vectors", "ledger"}]
    /\ overlap \subseteq Doc

NothingListed == [d \in Doc |-> NoVersion]

Init ==
    /\ source = [d \in Doc |-> NoFile]
    /\ edits = 0
    /\ faults = 0
    /\ points = {}
    /\ collection = ~FreshQdrant
    /\ ledger = [d \in Doc |-> NoRow]
    /\ syncStage = "idle"
    /\ dirents = {}
    /\ toRead = {}
    /\ listing = NothingListed
    /\ planIngest = {}
    /\ planPurge = {}
    /\ ingest = [d \in Doc |-> NotRunning]
    /\ purge = [d \in Doc |-> "none"]
    /\ overlap = {}

\* An attempt is lost: it failed, timed out or its worker died, whatever it
\* had done by then.  Attempts lost before they change anything are stutters.
LoseAttempt == faults < MaxFaults /\ faults' = faults + 1

(***************************************************************************)
(* The user of the watched folder.                                         *)
(***************************************************************************)
ChangeFile(d, c) ==
    /\ edits < MaxEdits
    /\ source[d] # c
    /\ source' = [source EXCEPT ![d] = c]
    /\ edits' = edits + 1
    /\ UNCHANGED <<faults, storeVars, syncVars, childVars>>

(***************************************************************************)
(* SyncCatalogWorkflow.  The Schedule skips a tick while a sync runs, so   *)
(* there is one at a time.  Its Reconcile activity lists the folder file   *)
(* by file, then reads the ledger; its default retry policy starts it over *)
(* when an attempt fails, which looks like a new tick.                     *)
(***************************************************************************)
\* The tick, and os.ReadDir.
Tick ==
    /\ syncStage = "idle"
    /\ syncStage' = "list"
    /\ dirents' = {d \in Doc : source[d] # NoFile}
    /\ toRead' = dirents'
    /\ UNCHANGED <<listing, planIngest, planPurge>>
    /\ UNCHANGED <<folderVars, faults, storeVars, childVars>>

\* The loop of List: os.ReadFile of the next name, hashed; on any error the
\* file is left out of the listing.
ReadListed(d) ==
    /\ syncStage = "list"
    /\ d \in toRead
    /\ \A e \in toRead : d <= e
    /\ toRead' = toRead \ {d}
    /\ \/ /\ source[d] # NoFile
          /\ listing' = [listing EXCEPT ![d] = Hash[source[d]]]
          /\ UNCHANGED faults
       \/ /\ source[d] = NoFile
          /\ UNCHANGED <<listing, faults>>
       \/ /\ FlakyReads
          /\ source[d] # NoFile
          /\ LoseAttempt
          /\ UNCHANGED listing
    /\ UNCHANGED <<syncStage, dirents, planIngest, planPurge>>
    /\ UNCHANGED <<folderVars, storeVars, childVars>>

\* Mutant: only documents without a row are new.
ToIngestNewOnly(list, versions) ==
    {d \in Doc : list[d] # NoVersion /\ versions[d] = NoVersion}

\* The diff of Reconcile: new or changed documents, and documents that have
\* a row but no entry.
ToIngest(list, versions) == {d \in Doc : list[d] # NoVersion /\ versions[d] # list[d]}
ToPurge(list, versions) == {d \in Doc : versions[d] # NoVersion /\ list[d] = NoVersion}

\* Store.Versions, and the plan that Reconcile returns.  The entries of
\* unchanged documents are not in the plan and are forgotten.
LoadLedger ==
    /\ syncStage = "list"
    /\ toRead = {}
    /\ syncStage' = "start"
    /\ planIngest' = ToIngest(listing, Versions(ledger))
    /\ planPurge' = ToPurge(listing, Versions(ledger))
    /\ listing' = [d \in Doc |-> IF d \in planIngest' THEN listing[d] ELSE NoVersion]
    /\ UNCHANGED <<dirents, toRead>>
    /\ UNCHANGED <<folderVars, faults, storeVars, childVars>>

\* Mutant: the attempt that starts over keeps the entries of the last one.
ReconcileFailsKeepsListing ==
    /\ syncStage = "list"
    /\ LoseAttempt
    /\ syncStage' = "idle"
    /\ dirents' = {}
    /\ toRead' = {}
    /\ UNCHANGED <<listing, planIngest, planPurge>>
    /\ UNCHANGED <<folderVars, storeVars, childVars>>

\* Reconcile fails after it has read some of the files, or on the ledger.
ReconcileFails ==
    /\ syncStage = "list"
    /\ LoseAttempt
    /\ syncStage' = "idle"
    /\ dirents' = {}
    /\ toRead' = {}
    /\ listing' = NothingListed
    /\ UNCHANGED <<planIngest, planPurge>>
    /\ UNCHANGED <<folderVars, storeVars, childVars>>

Running(d) == ingest[d].stage # "none"
Purging(d) == purge[d] # "none"

\* startChild for the next entry of plan.Ingest, in the order of the IDs:
\* rejected, and skipped, while "ingest:<doc>" runs.
StartIngest(d) ==
    /\ syncStage = "start"
    /\ d \in planIngest
    /\ \A e \in planIngest : d <= e
    /\ planIngest' = planIngest \ {d}
    /\ listing' = [listing EXCEPT ![d] = NoVersion]
    /\ \/ /\ Running(d)
          /\ UNCHANGED <<ingest, overlap>>
       \/ /\ ~Running(d)
          /\ ingest' = [ingest EXCEPT ![d] = Run("fetch", listing[d], NoFile)]
          /\ overlap' = overlap \cup {x \in {d} : Purging(x)}
    /\ UNCHANGED <<syncStage, dirents, toRead, planPurge, purge>>
    /\ UNCHANGED <<folderVars, faults, storeVars>>

\* startChild for the next ID of plan.Purge, once plan.Ingest is done.
StartPurge(d) ==
    /\ syncStage = "start"
    /\ planIngest = {}
    /\ d \in planPurge
    /\ \A e \in planPurge : d <= e
    /\ planPurge' = planPurge \ {d}
    /\ \/ /\ Purging(d)
          /\ UNCHANGED <<purge, overlap>>
       \/ /\ ~Purging(d)
          /\ purge' = [purge EXCEPT ![d] = "vectors"]
          /\ overlap' = overlap \cup {x \in {d} : Running(x)}
    /\ UNCHANGED <<syncStage, dirents, toRead, listing, planIngest, ingest>>
    /\ UNCHANGED <<folderVars, faults, storeVars>>

SyncDone ==
    /\ syncStage = "start"
    /\ planIngest = {}
    /\ planPurge = {}
    /\ syncStage' = "idle"
    /\ dirents' = {}
    /\ UNCHANGED <<toRead, listing, planIngest, planPurge>>
    /\ UNCHANGED <<folderVars, faults, storeVars, childVars>>

(***************************************************************************)
(* IngestDocumentWorkflow(entry), "ingest:<doc>".  Its activities have     *)
(* unlimited attempts, so it moves on only when one is acknowledged.       *)
(***************************************************************************)
GoTo(d, s) == ingest' = [ingest EXCEPT ![d] = Run(s, @.version, @.content)]

\* An attempt has had its effect: it is acknowledged and the workflow moves
\* on, or its result is lost and the activity starts over.
AcknowledgedOrLost(d, next, again) ==
    \/ GoTo(d, next) /\ UNCHANGED faults
    \/ GoTo(d, again) /\ LoseAttempt

\* What the workflow makes of the text it read.
StatusOf(c) ==
    IF c \in Unsupported THEN "unsupported"
    ELSE IF ChunkCount[c] = 0 THEN "empty" ELSE "ingested"

RecordedCount(c) == IF StatusOf(c) = "ingested" THEN ChunkCount[c] ELSE 0

\* FetchAndExtract: reads the file as it is now, whatever version was listed.
\* A missing or corrupt file fails the attempt, for as long as it stays so.
FetchAndExtract(d) ==
    /\ ingest[d].stage = "fetch"
    /\ source[d] # NoFile
    /\ source[d] \notin Corrupt
    /\ ingest' = [ingest EXCEPT ![d] =
            Run(IF StatusOf(source[d]) = "ingested" THEN "embed" ELSE "record",
                @.version, source[d])]
    /\ UNCHANGED <<folderVars, faults, storeVars, syncVars, purge, overlap>>

\* Mutant: EnsureCollection creates without checking first.
CheckCollectionNever(d) ==
    /\ ingest[d].stage = "embed"
    /\ GoTo(d, "create")
    /\ UNCHANGED <<folderVars, faults, storeVars, syncVars, purge, overlap>>

\* EmbedAndUpsert, up to the GET of EnsureCollection: any status but 200 means
\* that the collection is missing.
CheckCollection(d) ==
    /\ ingest[d].stage = "embed"
    /\ \/ collection /\ GoTo(d, "upsert") /\ UNCHANGED faults
       \/ ~collection /\ GoTo(d, "create") /\ UNCHANGED faults
       \/ collection /\ GoTo(d, "create") /\ LoseAttempt
    /\ UNCHANGED <<folderVars, storeVars, syncVars, purge, overlap>>

\* The PUT of EnsureCollection, an error if the collection exists by now.
CreateCollection(d) ==
    /\ ingest[d].stage = "create"
    /\ \/ collection /\ GoTo(d, "embed") /\ UNCHANGED <<collection, faults>>
       \/ /\ ~collection
          /\ collection' = TRUE
          /\ AcknowledgedOrLost(d, "upsert", "embed")
    /\ UNCHANGED <<points, ledger, folderVars, syncVars, purge, overlap>>

\* Mutant: the workflow records without cleaning up first.
UpsertWithoutCleanup(d) ==
    LET run == ingest[d]
    IN  /\ run.stage = "upsert"
        /\ points' = Upsert(points,
                        ChunkPoints(d, run.version, run.content, ChunkCount[run.content]))
        /\ AcknowledgedOrLost(d, "record", "embed")
        /\ UNCHANGED <<collection, ledger, folderVars, syncVars, purge, overlap>>

\* The PUT of Upsert, which ends EmbedAndUpsert.
UpsertChunks(d) ==
    LET run == ingest[d]
    IN  /\ run.stage = "upsert"
        /\ points' = Upsert(points,
                        ChunkPoints(d, run.version, run.content, ChunkCount[run.content]))
        /\ AcknowledgedOrLost(d, "cleanup", "embed")
        /\ UNCHANGED <<collection, ledger, folderVars, syncVars, purge, overlap>>

\* EmbedAndUpsert fails between its calls and starts over with embedding.
EmbedAttemptFails(d) ==
    /\ ingest[d].stage \in {"create", "upsert"}
    /\ GoTo(d, "embed")
    /\ LoseAttempt
    /\ UNCHANGED <<folderVars, storeVars, syncVars, purge, overlap>>

DeleteStaleChunks(d) ==
    /\ ingest[d].stage = "cleanup"
    /\ points' = DeleteStale(points, d, ingest[d].version)
    /\ AcknowledgedOrLost(d, "record", "cleanup")
    /\ UNCHANGED <<collection, ledger, folderVars, syncVars, purge, overlap>>

\* RecordIngestion, the last activity of every path of the workflow.
RecordOutcome(d) ==
    LET run == ingest[d]
    IN  /\ run.stage = "record"
        /\ ledger' = RecordIngestion(ledger, d, run.version,
                        RecordedCount(run.content), StatusOf(run.content))
        /\ \/ ingest' = [ingest EXCEPT ![d] = NotRunning] /\ UNCHANGED faults
           \/ UNCHANGED ingest /\ LoseAttempt
        /\ UNCHANGED <<points, collection, folderVars, syncVars, purge, overlap>>

(***************************************************************************)
(* PurgeDocumentWorkflow(docID), "purge:<doc>": one activity that makes    *)
(* two calls, retried from the first of them.                              *)
(***************************************************************************)
\* Mutant: the error of DeleteDocument is not returned.
PurgeVectorsUnchecked(d) ==
    /\ purge[d] = "vectors"
    /\ \/ points' = DeleteDocument(points, d)
       \/ UNCHANGED points
    /\ purge' = [purge EXCEPT ![d] = "ledger"]
    /\ UNCHANGED <<collection, ledger, folderVars, faults, syncVars, ingest, overlap>>

\* DeleteDocument, an error while the collection does not exist.
PurgeVectors(d) ==
    /\ purge[d] = "vectors"
    /\ collection
    /\ points' = DeleteDocument(points, d)
    /\ \/ purge' = [purge EXCEPT ![d] = "ledger"] /\ UNCHANGED faults
       \/ UNCHANGED purge /\ LoseAttempt
    /\ UNCHANGED <<collection, ledger, folderVars, syncVars, ingest, overlap>>

\* Mutant: deleting a row that is already gone is an error.
PurgeLedgerOnce(d) ==
    /\ purge[d] = "ledger"
    /\ \/ /\ HasRow(ledger, d)
          /\ ledger' = DeleteRecord(ledger, d)
          /\ \/ purge' = [purge EXCEPT ![d] = "none"] /\ UNCHANGED faults
             \/ purge' = [purge EXCEPT ![d] = "vectors"] /\ LoseAttempt
       \/ /\ ~HasRow(ledger, d)
          /\ purge' = [purge EXCEPT ![d] = "vectors"]
          /\ UNCHANGED <<ledger, faults>>
    /\ UNCHANGED <<points, collection, folderVars, syncVars, ingest, overlap>>

\* DeleteRecord: no error when there is no row to delete.
PurgeLedger(d) ==
    /\ purge[d] = "ledger"
    /\ ledger' = DeleteRecord(ledger, d)
    /\ \/ purge' = [purge EXCEPT ![d] = "none"] /\ UNCHANGED faults
       \/ purge' = [purge EXCEPT ![d] = "vectors"] /\ LoseAttempt
    /\ UNCHANGED <<points, collection, folderVars, syncVars, ingest, overlap>>

PurgeAttemptFails(d) ==
    /\ purge[d] = "ledger"
    /\ purge' = [purge EXCEPT ![d] = "vectors"]
    /\ LoseAttempt
    /\ UNCHANGED <<folderVars, storeVars, syncVars, ingest, overlap>>

(***************************************************************************)
(* The specification.                                                      *)
(***************************************************************************)
UserStep == \E d \in Doc, c \in Content \cup {NoFile} : ChangeFile(d, c)

SyncStep ==
    \/ Tick
    \/ LoadLedger
    \/ SyncDone
    \/ \E d \in Doc : ReadListed(d) \/ StartIngest(d) \/ StartPurge(d)

IngestStep(d) ==
    \/ FetchAndExtract(d)
    \/ CheckCollection(d)
    \/ CreateCollection(d)
    \/ UpsertChunks(d)
    \/ DeleteStaleChunks(d)
    \/ RecordOutcome(d)

PurgeStep(d) == PurgeVectors(d) \/ PurgeLedger(d)

Next ==
    \/ UserStep
    \/ SyncStep
    \/ ReconcileFails
    \/ \E d \in Doc : \/ IngestStep(d)
                      \/ EmbedAttemptFails(d)
                      \/ PurgeStep(d)
                      \/ PurgeAttemptFails(d)

Spec == Init /\ [][Next]_vars

\* The Schedule keeps ticking, and a workflow whose next call can succeed
\* makes it in the end: attempts are unlimited and, lost attempts being
\* bounded, one is acknowledged.  The user owes the system nothing.
Fairness ==
    /\ WF_vars(SyncStep)
    /\ \A d \in Doc : WF_vars(IngestStep(d)) /\ WF_vars(PurgeStep(d))

FairSpec == Spec /\ Fairness

(***************************************************************************)
(* Properties.                                                             *)
(***************************************************************************)
\* A row that says "ingested" at a version speaks for every vector of its
\* document: once the ingest workflow has ended, none of an older version is
\* left, however uploads, cleanups, purges and retries interleaved (the order
\* embed, clean up, record of IngestDocumentWorkflow).
IngestedRowHasNoStaleVectors ==
    \A d \in Doc : ledger[d].status = "ingested" /\ ~Running(d) =>
        \A p \in PointsOf(points, d) : p.version = ledger[d].version

\* A row that says "ingested" has a vector for each of its chunks: while no
\* workflow of the document runs, only an ingest and a purge that ran at once
\* can have broken this (their workflow IDs differ, so nothing excludes it).
HasAllVectors(d) == HasChunks(points, d, ledger[d].version, ledger[d].count)

OnlyOverlapLosesVectors ==
    \A d \in Doc \ overlap :
        ledger[d].status = "ingested" /\ ~Running(d) /\ ~Purging(d) => HasAllVectors(d)

\* Vectors without a ledger row are out of Reconcile's sight for good.  Only
\* an ingest and a purge that ran at once leave them behind; otherwise the
\* document's ingest is still running and will write the row.
OnlyOverlapOrphansVectors ==
    \A p \in points :
        p.doc \in overlap \/ HasRow(ledger, p.doc) \/ Running(p.doc)

\* While an edited document is ingested again, a search always finds it: its
\* vectors go from some to none only by a purge, never by the cleanup of the
\* version that is being replaced.
OnlyPurgeEmptiesADocument ==
    [][\A d \in Doc : PointsOf(points, d) # {} /\ PointsOf(points', d) = {}
            => purge[d] = "vectors"]_vars

Readable(d) == source[d] # NoFile /\ source[d] \notin Corrupt

\* Reconcile converges: once the user leaves the folder alone, the ledger ends
\* up with the version of every readable file and no row for a missing one,
\* whatever was in flight and whatever stale plan was still to be carried out.
LedgerMatches(d) ==
    /\ source[d] = NoFile => ~HasRow(ledger, d)
    /\ Readable(d) => ledger[d].version = Hash[source[d]]

LedgerConverges == <>[](\A d \in Doc : LedgerMatches(d))

\* A vector of d holds the text of another content than its version is the hash
\* of, or d's row the outcome of another: the file changed between the read of
\* List and that of FetchAndExtract (IngestedVersionIsTheContentRead, below).
Mixed(d) ==
    \/ \E p \in PointsOf(points, d) : Hash[p.text] # p.version
    \/ \E c \in Content : Hash[c] = ledger[d].version /\ StatusOf(c) # ledger[d].status

\* ... and the vectors follow: a readable file with text ends up with a vector
\* for each chunk of what the folder holds and none of another version, whatever
\* edits, lost attempts and stale plans came before.  Two mishaps are left out,
\* which nothing repairs: an ingest and a purge of the document that overlapped,
\* and two contents mixed under one version.
IndexConverges ==
    <>[](\A d \in Doc \ overlap :
            Readable(d) /\ StatusOf(source[d]) = "ingested" /\ ~Mixed(d) =>
                /\ HasChunks(points, d, Hash[source[d]], ChunkCount[source[d]])
                /\ \A p \in PointsOf(points, d) : p.version = Hash[source[d]])

\* An ingest workflow ends, unless its file is missing or unreadable, in which
\* case FetchAndExtract is retried until it is back.
IngestEnds ==
    \A d \in Doc : Running(d) ~> (~Running(d) \/ ~Readable(d))

\* A purge workflow ends.
PurgeEnds == \A d \in Doc : Purging(d) ~> ~Purging(d)

(***************************************************************************)
(* What the comments say and the code does not do.                         *)
(***************************************************************************)
\* "ledger of what has been ingested, at which version": the vectors of an
\* ingested document hold the content its recorded version is the hash of.
IngestedVersionIsTheContentRead ==
    \A d \in Doc : ledger[d].status = "ingested" /\ ~Running(d) =>
        \A p \in PointsOf(points, d) : Hash[p.text] = ledger[d].version

\* "an edit doesn't leave orphaned vectors behind": while no ingest runs, a
\* document's vectors are those of the version its row records.
EditLeavesNoOldVectors ==
    \A d \in Doc : HasRow(ledger, d) /\ ~Running(d) =>
        \A p \in PointsOf(points, d) : p.version = ledger[d].version

\* "removes a document entirely: all its Qdrant points and its ledger row":
\* with neither workflow running, no row means no vectors.
PurgedMeansNoVectors ==
    \A p \in points :
        HasRow(ledger, p.doc) \/ Running(p.doc) \/ Purging(p.doc)
=============================================================================
