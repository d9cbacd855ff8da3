---------------------------- MODULE LateRequests ----------------------------
(***************************************************************************)
(* Ingestion with attempts that are given up while a request of theirs is  *)
(* under way.  The activities of IngestDocumentWorkflow time out after 30  *)
(* seconds without a heartbeat, PurgeDocument after a minute; the server   *)
(* then starts the next attempt, and the service carries the request of    *)
(* the old one out whenever it gets to it, or never.  Nobody waits for its *)
(* answer any more.                                                        *)
(*                                                                         *)
(* The properties tell a request that lands while the workflow that made   *)
(* it is still the document's latest one from a stray, which lands after   *)
(* another workflow of the document has started.                           *)
(***************************************************************************)
EXTENDS Ingestion

VARIABLES
    late,           \* requests of attempts that were given up
    strayed         \* history: documents that a stray has landed on
lateVars == <<late, strayed>>

Operations == {"upsert", "cleanup", "record", "vectors", "row"}

LateTypeOK ==
    /\ TypeOK
    /\ late \subseteq [op : Operations, doc : Doc, version : Version \cup {NoVersion},
                       content : Content \cup {NoFile}, stray : BOOLEAN]
    /\ strayed \subseteq Doc

LateInit ==
    /\ Init
    /\ late = {}
    /\ strayed = {}

Request(op, d) ==
    [op |-> op, doc |-> d, version |-> ingest[d].version, content |-> ingest[d].content,
     stray |-> FALSE]

\* An attempt is given up with its request under way, and starts over.
GiveUp(op, d) ==
    /\ LoseAttempt
    /\ late' = late \cup {Request(op, d)}
    /\ UNCHANGED <<folderVars, storeVars, syncVars, overlap, strayed>>

GiveUpUpsert(d) ==
    /\ ingest[d].stage = "upsert"
    /\ GoTo(d, "embed")
    /\ GiveUp("upsert", d)
    /\ UNCHANGED purge

GiveUpCleanup(d) ==
    /\ ingest[d].stage = "cleanup"
    /\ GiveUp("cleanup", d)
    /\ UNCHANGED <<ingest, purge>>

GiveUpRecord(d) ==
    /\ ingest[d].stage = "record"
    /\ GiveUp("record", d)
    /\ UNCHANGED <<ingest, purge>>

GiveUpVectors(d) ==
    /\ purge[d] = "vectors"
    /\ collection
    /\ GiveUp("vectors", d)
    /\ UNCHANGED <<ingest, purge>>

GiveUpRow(d) ==
    /\ purge[d] = "ledger"
    /\ purge' = [purge EXCEPT ![d] = "vectors"]
    /\ GiveUp("row", d)
    /\ UNCHANGED ingest

\* A late request takes effect.
Land(r) ==
    /\ late' = late \ {r}
    /\ strayed' = strayed \cup {d \in {r.doc} : r.stray}
    /\ UNCHANGED <<folderVars, faults, collection, syncVars, childVars>>

LandUpsert(r) ==
    /\ r.op = "upsert"
    /\ points' = Upsert(points, ChunkPoints(r.doc, r.version, r.content, ChunkCount[r.content]))
    /\ Land(r)
    /\ UNCHANGED ledger

LandCleanup(r) ==
    /\ r.op = "cleanup"
    /\ points' = DeleteStale(points, r.doc, r.version)
    /\ Land(r)
    /\ UNCHANGED ledger

LandRecord(r) ==
    /\ r.op = "record"
    /\ ledger' = RecordIngestion(ledger, r.doc, r.version,
                    RecordedCount(r.content), StatusOf(r.content))
    /\ Land(r)
    /\ UNCHANGED points

LandVectors(r) ==
    /\ r.op = "vectors"
    /\ points' = DeleteDocument(points, r.doc)
    /\ Land(r)
    /\ UNCHANGED ledger

LandRow(r) ==
    /\ r.op = "row"
    /\ ledger' = DeleteRecord(ledger, r.doc)
    /\ Land(r)
    /\ UNCHANGED points

\* The start of a workflow makes strays of its document's late requests.
Started(d) == (~Running(d) /\ Running(d)') \/ (~Purging(d) /\ Purging(d)')

OnTimeStep ==
    /\ Next
    /\ late' = {[r EXCEPT !.stray = @ \/ Started(r.doc)] : r \in late}
    /\ UNCHANGED strayed

LateNext ==
    \/ OnTimeStep
    \/ \E d \in Doc : \/ GiveUpUpsert(d)
                      \/ GiveUpCleanup(d)
                      \/ GiveUpRecord(d)
                      \/ GiveUpVectors(d)
                      \/ GiveUpRow(d)
    \/ \E r \in late : \/ LandUpsert(r)
                       \/ LandCleanup(r)
                       \/ LandRecord(r)
                       \/ LandVectors(r)
                       \/ LandRow(r)

LateSpec == LateInit /\ [][LateNext]_<<vars, lateVars>>

(***************************************************************************)
(* Properties.                                                             *)
(***************************************************************************)
\* Point IDs and the ledger's key make a late request harmless for as long as
\* its workflow is the document's latest: it repeats what was done, or what is
\* about to be done.  So a row that says "ingested" has no stale vectors,
\* unless a stray has landed on the document.
OnlyStraysLeaveStaleVectors ==
    \A d \in Doc \ strayed : ledger[d].status = "ingested" /\ ~Running(d) =>
        \A p \in PointsOf(points, d) : p.version = ledger[d].version

\* Nor does it take vectors from a row or leave some without one: that needs
\* a stray, or an ingest and a purge that ran at once.
OnlyStraysOrOverlapBreakRows ==
    \A d \in Doc \ (strayed \cup overlap) :
        /\ ledger[d].status = "ingested" /\ ~Running(d) /\ ~Purging(d) => HasAllVectors(d)
        /\ PointsOf(points, d) # {} => HasRow(ledger, d) \/ Running(d)

\* A document that an edit or a late request empties was hit by a stray.
OnlyPurgesAndStraysEmptyADocument ==
    [][\A d \in Doc \ strayed' : PointsOf(points, d) # {} /\ PointsOf(points', d) = {}
            => purge[d] = "vectors" \/ \E r \in late : r.doc = d /\ r.op = "vectors"
      ]_<<vars, lateVars>>

(***************************************************************************)
(* What a comment says and the code does not do.                           *)
(***************************************************************************)
\* "Retries re-embed, which is wasted compute but safe - upsert is idempotent":
\* with no workflow of the document running, the vectors of a document whose
\* row says "ingested" are all of one version, whatever was retried before.
RetriesAreSafe ==
    \A d \in Doc \ overlap :
        ledger[d].status = "ingested" /\ ~Running(d) /\ ~Purging(d) =>
            \A p, q \in PointsOf(points, d) : p.version = q.version
=============================================================================
