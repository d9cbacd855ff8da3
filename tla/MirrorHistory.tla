--------------------------- MODULE MirrorHistory ---------------------------
(***************************************************************************)
(* Ingestion shown to implement CatalogMirror.  The history variables tell *)
(* which past state of a file each part of the pipeline speaks of: the     *)
(* sync that listed it, the workflows started by that sync, and the row.   *)
(***************************************************************************)
EXTENDS Ingestion, Sequences

VARIABLES
    past,           \* Doc -> the states its file has been in, as versions
    seenAt,         \* the state the last listing found
    runAt,          \* the state the document's last ingest was started for
    purgeAt,        \* the state its last purge was started for
    shownAt         \* the state its row stands for
historyVars == <<past, seenAt, runAt, purgeAt, shownAt>>
mirrorVars == <<vars, historyVars>>

FolderVersions == [d \in Doc |-> IF source[d] = NoFile THEN NoVersion ELSE Hash[source[d]]]

MirrorInit ==
    /\ Init
    /\ past = [d \in Doc |-> <<NoVersion>>]
    /\ seenAt = [d \in Doc |-> 1]
    /\ runAt = seenAt
    /\ purgeAt = seenAt
    /\ shownAt = seenAt

\* A listing settles the entry of a document when it reads it, or when the
\* directory does not have it.
Settled(d) ==
    /\ syncStage' = "list"
    /\ \/ syncStage = "idle" /\ d \notin dirents'
       \/ syncStage = "list" /\ d \in toRead \ toRead'

\* A read that fails although the file is there.
Misread(d) == Settled(d) /\ source[d] # NoFile /\ listing'[d] = NoVersion

PastOf(d) ==
    IF source'[d] # source[d] THEN Append(past[d], FolderVersions'[d])
    ELSE IF Misread(d) THEN past[d] \o <<NoVersion, FolderVersions[d]>>
    ELSE past[d]

\* RecordOutcome writes the row, unless the row already says the same and the
\* attempt is lost.
Recorded(d) == RecordOutcome(d) /\ <<ledger'[d], ingest'[d]>> # <<ledger[d], ingest[d]>>

MirrorNext ==
    /\ Next
    /\ past' = [d \in Doc |-> PastOf(d)]
    /\ seenAt' = [d \in Doc |-> IF Misread(d) THEN Len(past[d]) + 1
                                ELSE IF Settled(d) THEN Len(past[d]) ELSE seenAt[d]]
    /\ runAt' = [d \in Doc |-> IF ~Running(d) /\ Running(d)' THEN seenAt[d] ELSE runAt[d]]
    /\ purgeAt' = [d \in Doc |-> IF ~Purging(d) /\ Purging(d)' THEN seenAt[d] ELSE purgeAt[d]]
    /\ shownAt' = [d \in Doc |-> IF Recorded(d) THEN runAt[d]
                                 ELSE IF PurgeLedger(d) THEN purgeAt[d] ELSE shownAt[d]]

MirrorSpec == MirrorInit /\ [][MirrorNext]_mirrorVars

\* Fairness of the pipeline alone: the history variables follow it.
FairMirrorSpec == MirrorSpec /\ Fairness

Mirror == INSTANCE CatalogMirror WITH
    folder <- FolderVersions, catalog <- Versions(ledger),
    shown <- shownAt, disturbed <- overlap

\* The ledger shows for each document a state its file has been in, and an
\* older state never comes back over a newer one, however stale the plan, the
\* run or the retry that writes it; only a document whose ingest and purge ran
\* at once may be thrown back.
MirrorsTheFolder == Mirror!Spec
=============================================================================
