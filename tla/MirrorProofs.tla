---------------------------- MODULE MirrorProofs ----------------------------
(***************************************************************************)
(* The proof that Ingestion implements CatalogMirror: every step of the    *)
(* pipeline is a step of the mirror or leaves it alone, for every folder,  *)
(* content and bound.                                                      *)
(***************************************************************************)
EXTENDS MirrorHistory, IngestionSafetyProofs, SequenceTheorems

Versioned == Version \cup {NoVersion}

\* Every index points into the past, and nothing runs ahead of the listing.
PastInv ==
    \A d \in Doc :
        /\ past[d] \in Seq(Versioned)
        /\ seenAt[d] \in 1 .. Len(past[d])
        /\ runAt[d] \in 1 .. seenAt[d]
        /\ purgeAt[d] \in 1 .. seenAt[d]
        /\ shownAt[d] \in 1 .. seenAt[d]
        /\ past[d][Len(past[d])] = FolderVersions[d]

Shapes ==
    /\ past = [d \in Doc |-> past[d]]
    /\ seenAt = [d \in Doc |-> seenAt[d]]
    /\ runAt = [d \in Doc |-> runAt[d]]
    /\ purgeAt = [d \in Doc |-> purgeAt[d]]
    /\ shownAt = [d \in Doc |-> shownAt[d]]

\* While a sync lists, the entries it has settled are what it saw and the
\* others are empty; the plan it makes is about what it saw.
ListingInv ==
    \A d \in Doc :
        /\ syncStage = "idle" => listing[d] = NoVersion
        /\ syncStage = "list" =>
            IF d \in toRead THEN listing[d] = NoVersion ELSE listing[d] = past[d][seenAt[d]]
        /\ syncStage = "start" =>
            /\ IF d \in planIngest THEN listing[d] = past[d][seenAt[d]]
                                   ELSE listing[d] = NoVersion
            /\ d \in planPurge => past[d][seenAt[d]] = NoVersion

\* A run carries the version of the state it was started for, a purge was
\* started for a missing file, and a row is what the last of them left.
WorkInv ==
    \A d \in Doc :
        /\ Running(d) => ingest[d].version = past[d][runAt[d]]
        /\ Purging(d) => past[d][purgeAt[d]] = NoVersion
        /\ ledger[d].version = past[d][shownAt[d]]

\* Without an overlap, what is about to be written is not older than what is
\* shown.
OrderInv ==
    \A d \in Doc \ overlap :
        /\ Running(d) => shownAt[d] <= runAt[d]
        /\ Purging(d) => shownAt[d] <= purgeAt[d]

MirrorInv == TypeInv /\ OrphanInv /\ Shapes /\ PastInv /\ ListingInv /\ WorkInv /\ OrderInv

LEMMA InitMirror == MirrorInit => MirrorInv
<1> SUFFICES ASSUME MirrorInit PROVE MirrorInv
    OBVIOUS
<1>1. TypeInv /\ OrphanInv
    BY InitTypeInv, InitOrphan DEF MirrorInit
<1>2. Shapes
    BY DEF MirrorInit, Shapes
<1>3. PastInv
    BY DEF MirrorInit, Init, PastInv, FolderVersions, Versioned
<1>4. ListingInv /\ WorkInv /\ OrderInv
    BY DEF MirrorInit, Init, ListingInv, WorkInv, OrderInv, NothingListed, NotRunning, Run,
        NoRow, Running, Purging
<1>5. QED
    BY <1>1, <1>2, <1>3, <1>4 DEF MirrorInv

(***************************************************************************)
(* The history variables, one document at a time.                          *)
(***************************************************************************)
LEMMA FolderVersionsType ==
    /\ TypeOK => \A d \in Doc : FolderVersions[d] \in Versioned
    /\ TypeOK' => \A d \in Doc : FolderVersions'[d] \in Versioned
BY HashInjective DEF TypeOK, FolderVersions, Versioned

\* A listing changes no file.
LEMMA ListingKeepsSource ==
    ASSUME Next, NEW d \in Doc, Settled(d)
    PROVE  source' = source
<1> USE DEF folderVars, storeVars, syncVars, childVars
<1>1. CASE UserStep
    BY <1>1 DEF UserStep, ChangeFile, Settled
<1>2. CASE ~UserStep
    BY <1>2 DEF Next, SyncStep, IngestStep, PurgeStep, Tick, ReadListed, LoadLedger, SyncDone,
        ReconcileFails, StartIngest, StartPurge, FetchAndExtract, CheckCollection,
        CreateCollection, UpsertChunks, DeleteStaleChunks, RecordOutcome, EmbedAttemptFails,
        PurgeVectors, PurgeLedger, PurgeAttemptFails
<1>3. QED
    BY <1>1, <1>2

LEMMA ConcatTwo ==
    ASSUME NEW S, NEW s \in Seq(S), NEW x \in S, NEW y \in S
    PROVE  /\ s \o <<x, y>> \in Seq(S)
           /\ Len(s) \in Nat
           /\ Len(s \o <<x, y>>) = Len(s) + 2
           /\ \A i \in 1 .. Len(s) : (s \o <<x, y>>)[i] = s[i]
           /\ (s \o <<x, y>>)[Len(s) + 1] = x
           /\ (s \o <<x, y>>)[Len(s) + 2] = y
<1> DEFINE two == <<x, y>>
<1>1. two \in Seq(S) /\ Len(two) = 2 /\ two[1] = x /\ two[2] = y
    OBVIOUS
<1>2. Len(s) \in Nat
    BY LenProperties
<1> HIDE DEF two
<1>3. /\ s \o two \in Seq(S)
      /\ Len(s \o two) = Len(s) + Len(two)
      /\ \A i \in 1 .. Len(s) + Len(two) :
            (s \o two)[i] = IF i <= Len(s) THEN s[i] ELSE two[i - Len(s)]
    BY <1>1, ConcatProperties
<1>4. /\ \A i \in 1 .. Len(s) : (s \o two)[i] = s[i]
      /\ (s \o two)[Len(s) + 1] = two[1]
      /\ (s \o two)[Len(s) + 2] = two[2]
    BY <1>1, <1>2, <1>3
<1>5. QED
    BY <1>1, <1>2, <1>3, <1>4 DEF two

\* The past of a file is only ever extended, and ends with its present.
LEMMA PastGrows ==
    ASSUME TypeInv, TypeInv', PastInv, MirrorNext, NEW d \in Doc
    PROVE  /\ past'[d] \in Seq(Versioned)
           /\ Len(past'[d]) >= Len(past[d])
           /\ Misread(d) => Len(past'[d]) >= Len(past[d]) + 1 /\ past'[d][Len(past[d]) + 1] = NoVersion
           /\ \A i \in 1 .. Len(past[d]) : past'[d][i] = past[d][i]
           /\ past'[d][Len(past'[d])] = FolderVersions'[d]
<1>1. past[d] \in Seq(Versioned) /\ Len(past[d]) \in Nat /\ past[d][Len(past[d])] = FolderVersions[d]
    BY LenProperties DEF PastInv
<1>2. FolderVersions[d] \in Versioned /\ FolderVersions'[d] \in Versioned /\ NoVersion \in Versioned
    BY FolderVersionsType DEF TypeInv, Versioned
<1>3. past'[d] = PastOf(d)
    BY DEF MirrorNext
<1>4. source'[d] = source[d] => FolderVersions'[d] = FolderVersions[d]
    BY DEF FolderVersions
<1>5. CASE source'[d] # source[d]
    <2>1. past'[d] = Append(past[d], FolderVersions'[d])
        BY <1>3, <1>5 DEF PastOf
    <2>2. ~Misread(d)
        BY <1>5, ListingKeepsSource DEF Misread, MirrorNext
    <2>3. QED
        BY <1>1, <1>2, <2>1, <2>2, AppendProperties
<1>6. CASE source'[d] = source[d] /\ Misread(d)
    <2>1. past'[d] = past[d] \o <<NoVersion, FolderVersions[d]>>
        BY <1>3, <1>6 DEF PastOf
    <2>2. QED
        BY <1>1, <1>2, <1>4, <1>6, <2>1, ConcatTwo
<1>7. CASE source'[d] = source[d] /\ ~Misread(d)
    <2>1. past'[d] = past[d]
        BY <1>3, <1>7 DEF PastOf
    <2>2. QED
        BY <1>1, <1>4, <1>7, <2>1
<1>8. QED
    BY <1>5, <1>6, <1>7

LEMMA NextPast ==
    ASSUME TypeInv, TypeInv', PastInv, MirrorNext
    PROVE  PastInv' /\ Shapes'
<1>1. Shapes'
    BY DEF MirrorNext, Shapes
<1>2. ASSUME NEW d \in Doc
      PROVE  /\ past'[d] \in Seq(Versioned)
             /\ seenAt'[d] \in 1 .. Len(past'[d])
             /\ runAt'[d] \in 1 .. seenAt'[d]
             /\ purgeAt'[d] \in 1 .. seenAt'[d]
             /\ shownAt'[d] \in 1 .. seenAt'[d]
             /\ past'[d][Len(past'[d])] = FolderVersions'[d]
    <2>1. /\ past'[d] \in Seq(Versioned)
          /\ past'[d][Len(past'[d])] = FolderVersions'[d]
          /\ Len(past'[d]) >= Len(past[d])
          /\ Misread(d) => Len(past'[d]) >= Len(past[d]) + 1
        BY PastGrows
    <2>0. Len(past[d]) \in Nat /\ Len(past'[d]) \in Nat
        BY <2>1, LenProperties DEF PastInv
    <2>2. \/ seenAt'[d] \in {seenAt[d], Len(past[d])}
          \/ Misread(d) /\ seenAt'[d] = Len(past[d]) + 1
        BY DEF MirrorNext
    <2>3. /\ runAt'[d] \in {seenAt[d], runAt[d]}
          /\ purgeAt'[d] \in {seenAt[d], purgeAt[d]}
          /\ shownAt'[d] \in {runAt[d], purgeAt[d], shownAt[d]}
        BY DEF MirrorNext
    <2>4. /\ seenAt[d] \in 1 .. Len(past[d])
          /\ {runAt[d], purgeAt[d], shownAt[d]} \subseteq 1 .. seenAt[d]
        BY DEF PastInv
    <2>5. seenAt'[d] \in seenAt[d] .. Len(past'[d])
        BY <2>0, <2>1, <2>2, <2>4
    <2>6. {runAt'[d], purgeAt'[d], shownAt'[d]} \subseteq 1 .. seenAt[d]
        BY <2>0, <2>3, <2>4
    <2>7. seenAt'[d] \in 1 .. Len(past'[d])
        BY <2>0, <2>4, <2>5
    <2>8. {runAt'[d], purgeAt'[d], shownAt'[d]} \subseteq 1 .. seenAt'[d]
        BY <2>0, <2>4, <2>5, <2>6
    <2>9. QED
        BY <2>1, <2>7, <2>8
<1>3. QED
    BY <1>1, <1>2 DEF PastInv

\* What an index stood for, it still stands for.
LEMMA PastStays ==
    ASSUME TypeInv, TypeInv', PastInv, MirrorNext, NEW d \in Doc
    PROVE  /\ past'[d][seenAt[d]] = past[d][seenAt[d]]
           /\ past'[d][runAt[d]] = past[d][runAt[d]]
           /\ past'[d][purgeAt[d]] = past[d][purgeAt[d]]
           /\ past'[d][shownAt[d]] = past[d][shownAt[d]]
<1>1. Len(past[d]) \in Nat
    BY LenProperties DEF PastInv
<1>2. \A i \in 1 .. Len(past[d]) : past'[d][i] = past[d][i]
    BY PastGrows
<1>3. {seenAt[d], runAt[d], purgeAt[d], shownAt[d]} \subseteq 1 .. Len(past[d])
    BY <1>1 DEF PastInv
<1>4. QED
    BY <1>2, <1>3

(***************************************************************************)
(* What the last listing saw.                                              *)
(***************************************************************************)
LEMMA SyncCases ==
    ASSUME Next
    PROVE  \/ UNCHANGED syncVars
           \/ Tick \/ LoadLedger \/ ReconcileFails \/ SyncDone
           \/ \E d \in Doc : ReadListed(d) \/ StartIngest(d) \/ StartPurge(d)
<1>1. CASE UserStep
    BY <1>1 DEF UserStep, ChangeFile
<1>2. CASE ~UserStep
    BY <1>2 DEF Next, SyncStep, IngestStep, PurgeStep, FetchAndExtract, CheckCollection,
        CreateCollection, UpsertChunks, DeleteStaleChunks, RecordOutcome, EmbedAttemptFails,
        PurgeVectors, PurgeLedger, PurgeAttemptFails
<1>3. QED
    BY <1>1, <1>2

LEMMA NextListing ==
    ASSUME TypeInv, TypeInv', PastInv, ListingInv, MirrorNext
    PROVE  ListingInv'
<1> DEFINE Listed(x) ==
            /\ syncStage' = "idle" => listing'[x] = NoVersion
            /\ syncStage' = "list" =>
                IF x \in toRead' THEN listing'[x] = NoVersion
                                 ELSE listing'[x] = past'[x][seenAt'[x]]
            /\ syncStage' = "start" =>
                /\ IF x \in planIngest' THEN listing'[x] = past'[x][seenAt'[x]]
                                        ELSE listing'[x] = NoVersion
                /\ x \in planPurge' => past'[x][seenAt'[x]] = NoVersion
<1> SUFFICES ASSUME NEW d \in Doc PROVE Listed(d)
    BY DEF ListingInv
<1> USE DEF syncVars, Settled
<1>1. past'[d][seenAt[d]] = past[d][seenAt[d]]
    BY PastStays
<1>2. /\ Len(past[d]) \in 1 .. Len(past[d])
      /\ past'[d][Len(past[d])] = FolderVersions[d]
    <2>1. Len(past[d]) \in Nat /\ seenAt[d] \in 1 .. Len(past[d])
        BY LenProperties DEF PastInv
    <2>2. Len(past[d]) \in 1 .. Len(past[d])
        BY <2>1
    <2>3. QED
        BY <2>2, PastGrows DEF PastInv
<1>3. ~Settled(d) => seenAt'[d] = seenAt[d]
    BY DEF MirrorNext, Misread
<1>4. Settled(d) /\ ~Misread(d) => past'[d][seenAt'[d]] = FolderVersions[d]
    BY <1>2 DEF MirrorNext
<1>5. Misread(d) => past'[d][seenAt'[d]] = NoVersion
    BY PastGrows DEF MirrorNext
<1>6. CASE UNCHANGED syncVars
    BY <1>1, <1>3, <1>6 DEF ListingInv
<1>7. CASE Tick
    <2>1. d \notin dirents' => FolderVersions[d] = NoVersion
        BY <1>7 DEF Tick, FolderVersions
    <2>2. ~Misread(d)
        BY <1>7 DEF Tick, Misread, TypeInv, TypeOK
    <2>3. QED
        BY <1>4, <1>7, <2>1, <2>2 DEF Tick, ListingInv
<1>8. ASSUME NEW e \in Doc, ReadListed(e) PROVE Listed(d)
    <2>1. CASE d # e
        BY <1>1, <1>3, <1>8, <2>1 DEF ReadListed, ListingInv, TypeInv, TypeOK
    <2>2. CASE d = e
        <3>1. Settled(d) /\ d \notin toRead'
            BY <1>8, <2>2 DEF ReadListed
        <3>2. listing'[d] \in {FolderVersions[d], NoVersion}
            BY <1>8, <2>2 DEF ReadListed, FolderVersions, ListingInv, TypeInv, TypeOK
        <3>3. listing'[d] = past'[d][seenAt'[d]]
            BY <1>4, <1>5, <3>1, <3>2 DEF Misread, FolderVersions
        <3>4. QED
            BY <1>8, <3>1, <3>3 DEF ReadListed
    <2>3. QED
        BY <2>1, <2>2
<1>9. CASE LoadLedger
    BY <1>1, <1>3, <1>9 DEF LoadLedger, ToIngest, ToPurge, ListingInv
<1>10. CASE ReconcileFails
    BY <1>10 DEF ReconcileFails, NothingListed
<1>11. ASSUME NEW e \in Doc, StartIngest(e) PROVE Listed(d)
    BY <1>1, <1>3, <1>11 DEF StartIngest, ListingInv, TypeInv, TypeOK
<1>12. ASSUME NEW e \in Doc, StartPurge(e) PROVE Listed(d)
    BY <1>1, <1>3, <1>12 DEF StartPurge, ListingInv
<1>13. CASE SyncDone
    BY <1>13 DEF SyncDone, ListingInv
<1>14. QED
    BY SyncCases, <1>6, <1>7, <1>8, <1>9, <1>10, <1>11, <1>12, <1>13 DEF MirrorNext

(***************************************************************************)
(* What the workflows carry, and what the rows say.                        *)
(***************************************************************************)
LEMMA RunEffect ==
    ASSUME TypeInv, Next, NEW d \in Doc
    PROVE  /\ Running(d) /\ Running(d)' => ingest'[d].version = ingest[d].version
           /\ ~Running(d) /\ Running(d)' => StartIngest(d) /\ ingest'[d].version = listing[d]
           /\ ~Purging(d) /\ Purging(d)' => StartPurge(d)
           /\ overlap \subseteq overlap'
<1> DEFINE Goal == /\ Running(d) /\ Running(d)' => ingest'[d].version = ingest[d].version
                   /\ ~Running(d) /\ Running(d)' => StartIngest(d) /\ ingest'[d].version = listing[d]
                   /\ ~Purging(d) /\ Purging(d)' => StartPurge(d)
                   /\ overlap \subseteq overlap'
<1> USE DEF Running, Purging
<1>1. CASE Quiet
    BY <1>1 DEF Quiet
<1>2. ASSUME NEW e \in Doc, StartIngest(e) PROVE Goal
    <2>1. UNCHANGED purge /\ overlap \subseteq overlap'
        BY <1>2, StartIngestEffect
    <2>2. CASE e = d /\ ~Running(d)
        BY <1>2, <2>1, <2>2 DEF StartIngest, TypeInv, TypeOK, Run
    <2>3. CASE e # d \/ Running(d)
        BY <1>2, <2>1, <2>3, StartIngestEffect
    <2>4. QED
        BY <2>1, <2>2, <2>3
<1>3. ASSUME NEW e \in Doc, StartPurge(e) PROVE Goal
    BY <1>3, StartPurgeEffect
<1>4. ASSUME NEW e \in Doc, EarlyStep(e) PROVE Goal
    <2>1. ingest'[e].version = ingest[e].version
        BY <1>4, GoToEffect, AcknowledgedOrLostEffect
        DEF EarlyStep, FetchAndExtract, CheckCollection, CreateCollection, EmbedAttemptFails,
            TypeInv, TypeOK, IngestStages, Run
    <2>2. QED
        BY <1>4, <2>1, EarlyEffect
<1>5. ASSUME NEW e \in Doc, UpsertChunks(e) PROVE Goal
    BY <1>5, UpsertEffect
<1>6. ASSUME NEW e \in Doc, DeleteStaleChunks(e) PROVE Goal
    BY <1>6, CleanupEffect
<1>7. ASSUME NEW e \in Doc, RecordOutcome(e) PROVE Goal
    BY <1>7, RecordEffect DEF TypeInv, TypeOK, NotRunning, Run
<1>8. ASSUME NEW e \in Doc, PurgeVectors(e) \/ PurgeAttemptFails(e) PROVE Goal
    BY <1>8, PurgeVectorsEffect
<1>9. ASSUME NEW e \in Doc, PurgeLedger(e) PROVE Goal
    BY <1>9, PurgeLedgerEffect
<1>10. QED
    BY StepCases, <1>1, <1>2, <1>3, <1>4, <1>5, <1>6, <1>7, <1>8, <1>9

\* A row only changes by the write of its run or of its purge.
LEMMA RowEffect ==
    ASSUME TypeInv, Next, NEW d \in Doc
    PROVE  /\ Recorded(d) => Running(d) /\ ledger'[d].version = ingest[d].version
           /\ PurgeLedger(d) => Purging(d) /\ ledger'[d].version = NoVersion
           /\ ~Recorded(d) /\ ~PurgeLedger(d) => ledger'[d] = ledger[d]
<1>1. Recorded(d) => Running(d) /\ ledger'[d].version = ingest[d].version
    BY RecordEffect DEF Recorded, Running
<1>2. PurgeLedger(d) => Purging(d) /\ ledger'[d].version = NoVersion
    BY DEF PurgeLedger, Purging, DeleteRecord, NoRow, TypeInv, TypeOK
<1>3. ASSUME ~Recorded(d), ~PurgeLedger(d) PROVE ledger'[d] = ledger[d]
    <2>1. CASE Quiet
        BY <2>1 DEF Quiet, Stores
    <2>2. ASSUME NEW e \in Doc, StartIngest(e) \/ StartPurge(e) \/ EarlyStep(e)
          PROVE  ledger' = ledger
        BY <2>2, StartIngestEffect, StartPurgeEffect, EarlyEffect DEF Stores
    <2>3. ASSUME NEW e \in Doc, UpsertChunks(e) \/ DeleteStaleChunks(e) \/ PurgeVectors(e)
                                \/ PurgeAttemptFails(e)
          PROVE  ledger' = ledger
        BY <2>3, UpsertEffect, CleanupEffect, PurgeVectorsEffect
    <2>4. ASSUME NEW e \in Doc, RecordOutcome(e) PROVE ledger'[d] = ledger[d]
        BY <1>3, <2>4, RecordEffect DEF Recorded
    <2>5. ASSUME NEW e \in Doc, PurgeLedger(e) PROVE ledger'[d] = ledger[d]
        BY <1>3, <2>5, PurgeLedgerEffect
    <2>6. QED
        BY StepCases, <2>1, <2>2, <2>3, <2>4, <2>5
<1>4. QED
    BY <1>1, <1>2, <1>3

LEMMA NextWork ==
    ASSUME MirrorInv, TypeInv', MirrorNext
    PROVE  WorkInv'
<1> SUFFICES ASSUME NEW d \in Doc
             PROVE  /\ Running(d)' => ingest'[d].version = past'[d][runAt'[d]]
                    /\ Purging(d)' => past'[d][purgeAt'[d]] = NoVersion
                    /\ ledger'[d].version = past'[d][shownAt'[d]]
    BY DEF WorkInv
<1> USE DEF MirrorInv
<1>0. Next
    BY DEF MirrorNext
<1>1. /\ past'[d][seenAt[d]] = past[d][seenAt[d]]
      /\ past'[d][runAt[d]] = past[d][runAt[d]]
      /\ past'[d][purgeAt[d]] = past[d][purgeAt[d]]
      /\ past'[d][shownAt[d]] = past[d][shownAt[d]]
    BY PastStays
<1>2. Running(d)' => ingest'[d].version = past'[d][runAt'[d]]
    <2>1. CASE Running(d)
        BY <1>0, <1>1, <2>1, RunEffect DEF WorkInv, MirrorNext
    <2>2. CASE ~Running(d)
        BY <1>0, <1>1, <2>2, RunEffect DEF StartIngest, ListingInv, MirrorNext
    <2>3. QED
        BY <2>1, <2>2
<1>3. Purging(d)' => past'[d][purgeAt'[d]] = NoVersion
    <2>1. CASE Purging(d)
        BY <1>1, <2>1 DEF WorkInv, MirrorNext
    <2>2. CASE ~Purging(d)
        BY <1>0, <1>1, <2>2, RunEffect DEF StartPurge, ListingInv, MirrorNext
    <2>3. QED
        BY <2>1, <2>2
<1>4. ledger'[d].version = past'[d][shownAt'[d]]
    BY <1>0, <1>1, RowEffect DEF WorkInv, MirrorNext
<1>5. QED
    BY <1>2, <1>3, <1>4

LEMMA NextOrder ==
    ASSUME MirrorInv, MirrorNext
    PROVE  OrderInv'
<1> SUFFICES ASSUME NEW d \in Doc, d \notin overlap'
             PROVE  /\ Running(d)' => shownAt'[d] <= runAt'[d]
                    /\ Purging(d)' => shownAt'[d] <= purgeAt'[d]
    BY DEF OrderInv
<1> USE DEF MirrorInv
<1>0. Next
    BY DEF MirrorNext
<1>1. d \notin overlap /\ ~(Running(d) /\ Purging(d))
    BY <1>0, RunEffect DEF OrphanInv, PurgeInv
<1>2. /\ {runAt[d], purgeAt[d], shownAt[d]} \subseteq 1 .. seenAt[d]
      /\ seenAt[d] \in Nat
    BY LenProperties DEF PastInv
<1>3. /\ Recorded(d) => Running(d)
      /\ PurgeLedger(d) => Purging(d)
    BY <1>0, RowEffect
<1>4. Running(d)' => shownAt'[d] <= runAt'[d]
    BY <1>1, <1>2, <1>3 DEF OrderInv, MirrorNext
<1>5. Purging(d)' => shownAt'[d] <= purgeAt'[d]
    BY <1>1, <1>2, <1>3 DEF OrderInv, MirrorNext
<1>6. QED
    BY <1>4, <1>5

LEMMA NextMirrorInv == MirrorInv /\ [MirrorNext]_mirrorVars => MirrorInv'
<1> SUFFICES ASSUME MirrorInv, [MirrorNext]_mirrorVars PROVE MirrorInv'
    OBVIOUS
<1>1. CASE MirrorNext
    <2>1. TypeInv' /\ OrphanInv'
        BY <1>1, NextTypeInv, NextOrphan DEF MirrorInv, MirrorNext
    <2>2. QED
        BY <1>1, <2>1, NextPast, NextListing, NextWork, NextOrder DEF MirrorInv
<1>2. CASE UNCHANGED mirrorVars
    <2>1. UNCHANGED vars /\ UNCHANGED historyVars
        BY <1>2 DEF mirrorVars
    <2>2. TypeInv' /\ OrphanInv'
        BY <2>1, NextTypeInv, NextOrphan DEF MirrorInv
    <2>3. Shapes' /\ PastInv' /\ ListingInv' /\ WorkInv' /\ OrderInv'
        BY <2>1 DEF MirrorInv, vars, historyVars, folderVars, storeVars, syncVars, childVars,
            Shapes, PastInv, FolderVersions, ListingInv, WorkInv, OrderInv, Running, Purging
    <2>4. QED
        BY <2>2, <2>3 DEF MirrorInv
<1>3. QED
    BY <1>1, <1>2

(***************************************************************************)
(* Every step of the pipeline is a step of the mirror.                     *)
(***************************************************************************)
\* Without an edit or a misread file the past stays as it is.
LEMMA NothingHappens ==
    ASSUME MirrorInv, MirrorNext, source' = source, \A d \in Doc : ~Misread(d)
    PROVE  FolderVersions' = FolderVersions /\ past' = past
<1>1. FolderVersions' = FolderVersions
    BY DEF FolderVersions
<1>2. past' = [d \in Doc |-> past[d]]
    BY DEF MirrorNext, PastOf
<1>3. QED
    BY <1>1, <1>2 DEF MirrorInv, Shapes

\* A write of a row is all that happens in its step, and the only one.
LEMMA WriteEffect ==
    ASSUME MirrorInv, MirrorNext, NEW d \in Doc, Recorded(d) \/ PurgeLedger(d)
    PROVE  /\ source' = source /\ overlap' = overlap
           /\ \A e \in Doc : ~Misread(e)
           /\ \A e \in Doc \ {d} : ~Recorded(e) /\ ~PurgeLedger(e)
           /\ ~(Recorded(d) /\ PurgeLedger(d))
<1> USE DEF MirrorInv
<1>1. /\ source' = source /\ overlap' = overlap
      /\ \A e \in Doc : ~Misread(e)
    BY DEF Recorded, RecordOutcome, PurgeLedger, Misread, Settled, folderVars, syncVars
<1>2. CASE Recorded(d)
    <2>1. RecordOutcome(d) /\ UNCHANGED purge
        BY <1>2, RecordEffect DEF Recorded
    <2>2. \A e \in Doc : ~PurgeLedger(e)
        BY <2>1, PurgeLedgerEffect
    <2>3. \A e \in Doc \ {d} : ~Recorded(e)
        BY <2>1, RecordEffect DEF Recorded
    <2>4. QED
        BY <1>1, <2>2, <2>3
<1>3. CASE PurgeLedger(d)
    <2>1. purge'[d] # purge[d]
        BY <1>3, PurgeLedgerEffect
    <2>2. \A e \in Doc : ~Recorded(e)
        BY <2>1, RecordEffect DEF Recorded
    <2>3. \A e \in Doc \ {d} : ~PurgeLedger(e)
        BY <2>1, PurgeLedgerEffect
    <2>4. QED
        BY <1>1, <2>2, <2>3
<1>4. QED
    BY <1>2, <1>3

LEMMA WriteShows ==
    ASSUME MirrorInv, TypeInv', MirrorNext, NEW d \in Doc, Recorded(d) \/ PurgeLedger(d)
    PROVE  \E i \in 1 .. Len(past[d]) : Mirror!Show(d, i)
<1> USE DEF MirrorInv
<1> DEFINE i == IF Recorded(d) THEN runAt[d] ELSE purgeAt[d]
<1>0. Next
    BY DEF MirrorNext
<1>1. i \in 1 .. Len(past[d])
    BY LenProperties DEF PastInv
<1>2. shownAt[d] <= i \/ d \in overlap
    BY <1>0, RowEffect DEF OrderInv
<1>3. past[d][i] = ledger'[d].version
    BY <1>0, RowEffect DEF WorkInv
<1>4. Versions(ledger)' = [Versions(ledger) EXCEPT ![d] = past[d][i]]
    <2>1. ledger'[d].version = past[d][i] /\ \A e \in Doc \ {d} : ledger'[e] = ledger[e]
        BY <1>0, <1>3, WriteEffect, RowEffect
    <2>2. DOMAIN ledger = Doc /\ DOMAIN ledger' = Doc
        BY DEF TypeInv, TypeOK
    <2>3. QED
        BY <2>1, <2>2 DEF Versions
<1>5. shownAt' = [shownAt EXCEPT ![d] = i]
    BY WriteEffect DEF MirrorNext, Shapes
<1>6. FolderVersions' = FolderVersions /\ past' = past /\ overlap' = overlap
    BY WriteEffect, NothingHappens
<1>7. Mirror!Show(d, i)
    BY <1>2, <1>4, <1>5, <1>6 DEF Mirror!Show
<1>8. QED
    BY <1>1, <1>7

LEMMA OverlapEffect ==
    ASSUME MirrorInv, MirrorNext
    PROVE  \/ overlap' = overlap
           \/ \E d \in Doc : /\ overlap' = overlap \cup {d}
                             /\ source' = source
                             /\ \A e \in Doc : ~Misread(e)
<1> USE DEF MirrorInv
<1>0. Next
    BY DEF MirrorNext
<1>1. CASE Quiet
    BY <1>1 DEF Quiet
<1>2. ASSUME NEW d \in Doc, StartIngest(d) \/ StartPurge(d)
      PROVE  \/ overlap' = overlap
             \/ /\ overlap' = overlap \cup {d}
                /\ source' = source
                /\ \A e \in Doc : ~Misread(e)
    BY <1>2 DEF StartIngest, StartPurge, Misread, Settled, folderVars
<1>3. ASSUME NEW d \in Doc, EarlyStep(d) \/ UpsertChunks(d) \/ DeleteStaleChunks(d)
                            \/ RecordOutcome(d)
      PROVE  overlap' = overlap
    BY <1>3, EarlyEffect, UpsertEffect, CleanupEffect, RecordEffect
<1>4. ASSUME NEW d \in Doc, PurgeVectors(d) \/ PurgeLedger(d) \/ PurgeAttemptFails(d)
      PROVE  overlap' = overlap
    BY <1>4, PurgeVectorsEffect, PurgeLedgerEffect
<1>5. QED
    BY <1>0, StepCases, <1>1, <1>2, <1>3, <1>4

LEMMA EditMirrors ==
    ASSUME MirrorInv, TypeInv', MirrorNext, source' # source,
           Versions(ledger)' = Versions(ledger), shownAt' = shownAt
    PROVE  \E d \in Doc : \E v \in Versioned : Mirror!Edit(d, v)
<1> USE DEF MirrorInv
<1>1. PICK d \in Doc : \E c \in Content \cup {NoFile} : ChangeFile(d, c)
    <2>1. UserStep
        BY DEF MirrorNext, Next, SyncStep, IngestStep, PurgeStep, Tick, ReadListed, LoadLedger,
            SyncDone, ReconcileFails, StartIngest, StartPurge, FetchAndExtract, CheckCollection,
            CreateCollection, UpsertChunks, DeleteStaleChunks, RecordOutcome, EmbedAttemptFails,
            PurgeVectors, PurgeLedger, PurgeAttemptFails, folderVars
    <2>2. QED
        BY <2>1 DEF UserStep
<1>2. PICK c \in Content \cup {NoFile} : ChangeFile(d, c)
    BY <1>1
<1> DEFINE v == FolderVersions'[d]
<1>3. /\ source[d] # c /\ source[d] \in Content \cup {NoFile}
      /\ source' = [source EXCEPT ![d] = c]
      /\ UNCHANGED <<syncVars, overlap>>
    BY <1>2 DEF ChangeFile, childVars, TypeInv, TypeOK
<1>4. v \in Versioned /\ v # FolderVersions[d]
    BY <1>3, HashInjective, NullValues DEF FolderVersions, TypeInv, TypeOK, Versioned
<1>5. FolderVersions' = [FolderVersions EXCEPT ![d] = v]
    BY <1>3 DEF FolderVersions, TypeInv, TypeOK
<1>6. \A e \in Doc : ~Misread(e)
    BY <1>3 DEF Misread, Settled, syncVars
<1>7. past' = [past EXCEPT ![d] = Append(@, v)]
    <2>1. source'[d] # source[d] /\ \A e \in Doc \ {d} : source'[e] = source[e]
        BY <1>3 DEF TypeInv, TypeOK
    <2>2. past' = [e \in Doc |-> PastOf(e)]
        BY DEF MirrorNext
    <2>3. PastOf(d) = Append(past[d], v) /\ \A e \in Doc \ {d} : PastOf(e) = past[e]
        BY <1>6, <2>1 DEF PastOf
    <2>4. QED
        BY <2>2, <2>3 DEF Shapes
<1>8. Mirror!Edit(d, v)
    BY <1>3, <1>4, <1>5, <1>7 DEF Mirror!Edit
<1>9. QED
    BY <1>4, <1>8

LEMMA MisreadMirrors ==
    ASSUME MirrorInv, TypeInv', MirrorNext, source' = source, NEW d \in Doc, Misread(d),
           Versions(ledger)' = Versions(ledger), shownAt' = shownAt, overlap' = overlap
    PROVE  Mirror!Outage(d)
<1> USE DEF MirrorInv
<1>1. \A e \in Doc \ {d} : ~Misread(e)
    <2>1. CASE Tick
        BY <2>1 DEF Tick, Misread, Settled, TypeInv, TypeOK
    <2>2. ASSUME NEW e \in Doc, ReadListed(e) PROVE \A x \in Doc \ {e} : ~Settled(x)
        BY <2>2 DEF ReadListed, Settled
    <2>3. CASE ~Tick /\ \A e \in Doc : ~ReadListed(e)
        BY <2>3, SyncCases
        DEF MirrorNext, Misread, Settled, syncVars, LoadLedger, ReconcileFails, SyncDone,
            StartIngest, StartPurge
    <2>4. QED
        BY <2>1, <2>2, <2>3 DEF Misread
<1>2. past' = [past EXCEPT ![d] = @ \o <<NoVersion, FolderVersions[d]>>]
    <2>1. past' = [e \in Doc |-> PastOf(e)]
        BY DEF MirrorNext
    <2>2. /\ PastOf(d) = past[d] \o <<NoVersion, FolderVersions[d]>>
          /\ \A e \in Doc \ {d} : PastOf(e) = past[e]
        BY <1>1 DEF PastOf
    <2>3. QED
        BY <2>1, <2>2 DEF Shapes
<1>3. FolderVersions' = FolderVersions
    BY DEF FolderVersions
<1>4. QED
    BY <1>2, <1>3 DEF Mirror!Outage

LEMMA StepMirrors ==
    ASSUME MirrorInv, TypeInv', [MirrorNext]_mirrorVars
    PROVE  [Mirror!Next]_(Mirror!vars)
<1> USE DEF MirrorInv
<1>1. CASE UNCHANGED mirrorVars
    BY <1>1 DEF mirrorVars, historyVars, vars, folderVars, storeVars, childVars, Mirror!vars,
        FolderVersions, Versions
<1>2. ASSUME MirrorNext, NEW d \in Doc, Recorded(d) \/ PurgeLedger(d) PROVE Mirror!Next
    BY <1>2, WriteShows DEF Mirror!Next
<1>3. ASSUME MirrorNext, \A d \in Doc : ~Recorded(d) /\ ~PurgeLedger(d)
      PROVE  [Mirror!Next]_(Mirror!vars)
    <2>1. Versions(ledger)' = Versions(ledger)
        <3>1. \A d \in Doc : ledger'[d] = ledger[d]
            BY <1>3, RowEffect DEF MirrorNext
        <3>2. DOMAIN ledger = Doc /\ DOMAIN ledger' = Doc
            BY DEF TypeInv, TypeOK
        <3>3. QED
            BY <3>1, <3>2 DEF Versions
    <2>2. shownAt' = shownAt
        BY <1>3 DEF MirrorNext, Shapes
    <2>3. CASE source' # source
        BY <1>3, <2>1, <2>2, <2>3, EditMirrors DEF Mirror!Next, Versioned
    <2>4. CASE source' = source /\ \E d \in Doc : Misread(d)
        BY <1>3, <2>1, <2>2, <2>4, MisreadMirrors, OverlapEffect DEF Mirror!Next
    <2>5. CASE source' = source /\ \A d \in Doc : ~Misread(d)
        <3>1. FolderVersions' = FolderVersions /\ past' = past
            BY <1>3, <2>5, NothingHappens
        <3>2. CASE overlap' = overlap
            BY <2>1, <2>2, <3>1, <3>2 DEF Mirror!vars
        <3>3. ASSUME NEW d \in Doc, overlap' = overlap \cup {d} PROVE Mirror!Next
            <4>1. Mirror!Disturb(d)
                BY <2>1, <2>2, <3>1, <3>3 DEF Mirror!Disturb
            <4>2. QED
                BY <4>1 DEF Mirror!Next
        <3>4. QED
            BY <1>3, <3>2, <3>3, OverlapEffect
    <2>6. QED
        BY <2>3, <2>4, <2>5
<1>4. QED
    BY <1>1, <1>2, <1>3

LEMMA InitMirrors == MirrorInit => Mirror!Init
BY DEF MirrorInit, Init, Mirror!Init, FolderVersions, Versions, NoRow

\* The pipeline implements the mirror, whatever the folder, the contents and
\* the bounds: no interleaving of syncs, runs, purges and retries brings back
\* an older state of a document, unless its ingest and purge ran at once.
THEOREM PipelineMirrorsTheFolder == MirrorSpec => MirrorsTheFolder
<1>1. MirrorInv /\ [MirrorNext]_mirrorVars => MirrorInv'
    BY NextMirrorInv
<1>2. MirrorInv /\ MirrorInv' /\ [MirrorNext]_mirrorVars => [Mirror!Next]_(Mirror!vars)
    BY StepMirrors DEF MirrorInv
<1>3. QED
    BY InitMirror, InitMirrors, <1>1, <1>2, PTL DEF MirrorSpec, MirrorsTheFolder, Mirror!Spec
=============================================================================
