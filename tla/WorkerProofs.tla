---------------------------- MODULE WorkerProofs ----------------------------
(***************************************************************************)
(* Proofs about the workers: what their racing migrations leave of the     *)
(* ledger, that none serves before they are done, and that the cap bounds  *)
(* the wait for Ollama, for every number of workers, documents, chunks and *)
(* faults and every timeout.                                               *)
(***************************************************************************)
EXTENDS EmbedWorkers, FiniteSetTheorems, TLAPS

(***************************************************************************)
(* The migrations.                                                         *)
(***************************************************************************)
\* A path's newest rows are among the rows 0003 keeps: in a finite table
\* nothing gets newer for ever.
LEMMA NewestRowExists ==
    ASSUME NEW table, IsFiniteSet(table), \A a \in table : a.at \in Nat, NEW a \in table
    PROVE  \E r \in NewestRows(table) : r.path = a.path /\ r.at >= a.at
<1> DEFINE Newer(b) == {c \in table : c.path = b.path /\ c.at > b.at}
           Candidates == {b \in table : b.path = a.path /\ b.at >= a.at}
           F == {Newer(b) : b \in Candidates}
           R == StrictSubsetOrdering(table)
<1>1. IsWellFoundedOn(R, SUBSET table)
    <2>1. FiniteSubsetsOf(table) = SUBSET table
        BY FS_FiniteSubsetsOfFinite
    <2>2. QED
        BY <2>1, FS_StrictSubsetOrderingWellFounded
<1>2. F \subseteq SUBSET table /\ F # {}
    <2>1. Newer(a) \in F
        OBVIOUS
    <2>2. \A b \in table : Newer(b) \in SUBSET table
        OBVIOUS
    <2>3. F \subseteq SUBSET table
        BY <2>2
    <2>4. QED
        BY <2>1, <2>3
<1>3. PICK x \in F : \A y \in F : <<y, x>> \notin R
    <2> HIDE DEF F, R
    <2>1. QED
        BY <1>1, <1>2, WFMin
<1>4. PICK b \in Candidates : x = Newer(b)
    BY <1>3
<1>5. ASSUME NEW c \in table, c.path = b.path, b.at < c.at PROVE FALSE
    <2>1. c \in Candidates
        BY <1>5
    <2>2. Newer(c) \subseteq Newer(b) /\ c \in Newer(b) /\ c \notin Newer(c)
        BY <1>5
    <2>3. <<Newer(c), Newer(b)>> \in R
        BY <2>2 DEF StrictSubsetOrdering
    <2>4. QED
        BY <1>3, <1>4, <2>1, <2>3
<1>6. b \in NewestRows(table)
    BY <1>5 DEF NewestRows
<1>7. QED
    BY <1>6

\* Applied again, 0003 deletes nothing.
LEMMA NewestRowsOfOnePerPath ==
    ASSUME NEW table, OneRowPerPath(table), \A a \in table : a.at \in Nat
    PROVE  NewestRows(table) = table
BY DEF NewestRows, OneRowPerPath

Covered(table) == \A old \in oldRows : \E r \in table : r.path = old.path /\ r.at >= old.at

\* A worker is never ahead of the tables, and they have all their rows until
\* 0003 has chosen from them.
MigrationInv ==
    /\ version \in 0 .. LastMigration /\ schema \in 0 .. LastMigration
    /\ version <= schema
    /\ \A w \in Worker : seen[w] \in 0 .. schema
    /\ IsFiniteSet(oldRows) /\ \A a \in oldRows : a.at \in Nat
    /\ rows \subseteq oldRows
    /\ schema < 3 => rows = oldRows
    /\ RekeyKeepsTheNewest

LEMMA InitMigration == StartupInit => MigrationInv
<1> SUFFICES ASSUME StartupInit PROVE MigrationInv
    OBVIOUS
<1>1. IsFiniteSet(rows) /\ \A a \in rows : a.at \in Nat
    <2>1. IsFiniteSet({})
        BY FS_EmptySet
    <2>2. QED
        BY <2>1, TablesAreFinite DEF StartupInit
<1>2. schema >= 3 => rows = {}
    BY DEF StartupInit
<1>3. QED
    BY <1>1, <1>2, OldDatabases
    DEF StartupInit, MigrationInv, LastMigration, RekeyKeepsTheNewest, OneRowPerPath

LEMMA NextMigration ==
    ASSUME MigrationInv, NEW w \in Worker, StartupStep(w)
    PROVE  MigrationInv'
<1> USE DEF MigrationInv
<1>1. CASE Launch(w) \/ DescribeSchedule(w) \/ CreateSchedule(w)
    BY <1>1 DEF Launch, DescribeSchedule, CreateSchedule, dbVars, RekeyKeepsTheNewest
<1>2. CASE ReadVersion(w)
    BY <1>2 DEF ReadVersion, dbVars, RekeyKeepsTheNewest, LastMigration
<1>3. CASE ApplyMigration(w)
    <2> DEFINE n == seen[w] + 1
    <2>1. CASE UNCHANGED dbVars
        BY <1>3, <2>1 DEF ApplyMigration, dbVars, RekeyKeepsTheNewest
    <2>2. CASE /\ CanApply(n)
               /\ version' = n
               /\ schema' = IF n > schema THEN n ELSE schema
               /\ rows' = IF n = 3 THEN NewestRows(rows) ELSE rows
        <3>1. UNCHANGED <<seen, oldRows>> /\ n \in 1 .. 4
            BY <1>3, <2>2 DEF ApplyMigration, CanApply
        <3>2. /\ version' \in 0 .. LastMigration /\ schema' \in 0 .. LastMigration
              /\ version' <= schema' /\ schema <= schema'
            BY <2>2, <3>1 DEF LastMigration
        <3>3. rows' \subseteq rows
            BY <2>2 DEF NewestRows
        <3>4. schema' < 3 => rows' = oldRows
            BY <2>2, <3>1 DEF LastMigration
        <3>5. RekeyKeepsTheNewest'
            <4>1. CASE n = 3 /\ schema < 3
                <5>1. rows' = NewestRows(oldRows) /\ OneRowPerPath(rows')
                    BY <2>2, <4>1 DEF CanApply
                <5>2. \A old \in oldRows : \E r \in NewestRows(oldRows) :
                            r.path = old.path /\ r.at >= old.at
                    BY NewestRowExists
                <5>3. QED
                    BY <3>1, <5>1, <5>2 DEF RekeyKeepsTheNewest
            <4>2. CASE n = 3 /\ schema >= 3
                <5>1. \A a \in rows : a.at \in Nat
                    OBVIOUS
                <5>2. NewestRows(rows) = rows
                    BY <4>2, <5>1, NewestRowsOfOnePerPath DEF RekeyKeepsTheNewest
                <5>3. QED
                    BY <2>2, <3>1, <4>2, <5>2 DEF RekeyKeepsTheNewest
            <4>3. CASE n = 4
                BY <2>2, <3>1, <4>3 DEF RekeyKeepsTheNewest, LastMigration
            <4>4. CASE n < 3
                BY <2>2, <3>1, <4>4 DEF RekeyKeepsTheNewest, LastMigration
            <4>5. QED
                BY <3>1, <4>1, <4>2, <4>3, <4>4 DEF LastMigration
        <3>6. QED
            BY <3>1, <3>2, <3>3, <3>4, <3>5 DEF LastMigration
    <2>3. QED
        BY <1>3, <2>1, <2>2 DEF ApplyMigration
<1>4. QED
    BY <1>1, <1>2, <1>3 DEF StartupStep

\* The other steps leave the migrations alone.
LEMMA NextMigrationInv == MigrationInv /\ [WorkNext]_workVars => MigrationInv'
<1> SUFFICES ASSUME MigrationInv, [WorkNext]_workVars PROVE MigrationInv'
    OBVIOUS
<1>1. CASE UNCHANGED <<seen, dbVars, oldRows>>
    BY <1>1 DEF MigrationInv, RekeyKeepsTheNewest, dbVars
<1>2. ASSUME NEW w \in Worker, Start(w) PROVE MigrationInv'
    BY <1>2, NextMigration DEF Start
<1>3. CASE WorkStep
    BY <1>1, <1>3 DEF WorkStep, Poll, EmbedChunk, MissHeartbeat, TimeOut, startupVars
<1>4. CASE Tick \/ Stall
    BY <1>1, <1>4 DEF Tick, Stall, TimePasses, startupVars
<1>5. ASSUME NEW s \in Slot, EmbedFails(s) PROVE MigrationInv'
    BY <1>1, <1>5 DEF EmbedFails
<1>6. ASSUME NEW w \in Worker, CrashWorker(w) PROVE MigrationInv'
    BY <1>1, <1>6 DEF CrashWorker, Crash
<1>7. CASE UNCHANGED workVars
    BY <1>1, <1>7 DEF workVars, startupVars
<1>8. QED
    BY <1>2, <1>3, <1>4, <1>5, <1>6, <1>7 DEF WorkNext

\* Whoever applies 0003, and however often, each path keeps the newest of its
\* rows and no other.
THEOREM TheNewestRowsStay == WorkSpec => []RekeyKeepsTheNewest
<1>1. WorkInit => MigrationInv
    BY InitMigration DEF WorkInit
<1>2. MigrationInv => RekeyKeepsTheNewest
    BY DEF MigrationInv
<1>3. QED
    BY NextMigrationInv, <1>1, <1>2, PTL DEF WorkSpec

(***************************************************************************)
(* One attempt counts.                                                     *)
(***************************************************************************)
Attempts == [state : {"live", "given up"}, doc : Doc, done : Nat, age : Nat]

\* What Temporal grants: a document that is done or queued has no attempt whose
\* heartbeats count, and any other has one at most.
OneAttemptCounts ==
    \A s \in Slot : Live(s) =>
        /\ activity[exec[s].doc] = "started"
        /\ \A r \in Slot : Live(r) /\ exec[r].doc = exec[s].doc => r = s

\* The shape of what the proof looks at.
AttemptInv ==
    /\ activity = [d \in Doc |-> activity[d]]
    /\ exec \in [Slot -> {Idle} \cup Attempts]
    /\ OneAttemptCounts

LEMMA AttemptStates ==
    ASSUME NEW e \in {Idle} \cup Attempts, e.state = "live"
    PROVE  e \in Attempts
<1>1. Idle.state = "idle"
    BY DEF Idle
<1>2. QED
    BY <1>1

LEMMA AttemptUpdates ==
    ASSUME NEW e \in Attempts
    PROVE  /\ [e EXCEPT !.done = @ + 1] \in Attempts
           /\ [e EXCEPT !.done = @ + 1].doc = e.doc
           /\ [e EXCEPT !.age = @ + 1] \in Attempts
           /\ [e EXCEPT !.age = @ + 1].doc = e.doc
           /\ [e EXCEPT !.age = @ + 1].state = e.state
<1>1. e.done \in Nat /\ e.age \in Nat
    BY DEF Attempts
<1>2. PICK n \in Nat : n = e.done + 1
    BY <1>1
<1>3. PICK m \in Nat : m = e.age + 1
    BY <1>1
<1>4. /\ [e EXCEPT !.done = n] \in Attempts
      /\ [e EXCEPT !.done = n].doc = e.doc
      /\ [e EXCEPT !.age = m] \in Attempts
      /\ [e EXCEPT !.age = m].doc = e.doc
      /\ [e EXCEPT !.age = m].state = e.state
    BY DEF Attempts
<1>5. QED
    BY <1>2, <1>3, <1>4

\* Freeing slots leaves the live attempts that stay, and queues the documents
\* of those that go.
LEMMA Freeing ==
    ASSUME AttemptInv, NEW S \in SUBSET Slot, Drop(S), UNCHANGED activity \/ Retried(S)
    PROVE  AttemptInv'
<1>1. exec' = [s \in Slot |-> IF s \in S THEN Idle ELSE exec[s]]
    BY DEF Drop
<1>2. \A s \in Slot : Live(s)' => s \notin S /\ Live(s) /\ exec'[s] = exec[s]
    BY <1>1 DEF Live, Idle
<1>3. \A s \in Slot : Live(s) => exec[s].doc \in Doc
    BY AttemptStates DEF AttemptInv, Live, Attempts
<1>4. exec' \in [Slot -> {Idle} \cup Attempts]
    BY <1>1 DEF AttemptInv
<1>5. activity' = [d \in Doc |-> activity'[d]]
    BY DEF AttemptInv, Retried
<1>6. ASSUME NEW s \in Slot, Live(s)'
      PROVE  /\ activity'[exec'[s].doc] = "started"
             /\ \A r \in Slot : Live(r)' /\ exec'[r].doc = exec'[s].doc => r = s
    <2>1. /\ Live(s) /\ exec'[s] = exec[s] /\ exec[s].doc \in Doc /\ s \notin S
          /\ activity[exec[s].doc] = "started"
          /\ \A r \in Slot : Live(r) /\ exec[r].doc = exec[s].doc => r = s
        BY <1>2, <1>3, <1>6 DEF AttemptInv, OneAttemptCounts
    <2>2. \A r \in S : Live(r) => exec[r].doc # exec[s].doc
        BY <2>1
    <2>3. activity'[exec[s].doc] = "started"
        BY <2>1, <2>2 DEF Retried
    <2>4. QED
        BY <1>2, <2>1, <2>3
<1>7. QED
    BY <1>4, <1>5, <1>6 DEF AttemptInv, OneAttemptCounts

\* An action that keeps who is live keeps the invariant.
LEMMA SameAttempts ==
    ASSUME AttemptInv, activity' = activity, exec' \in [Slot -> {Idle} \cup Attempts],
           \A s \in Slot : Live(s)' => Live(s) /\ exec'[s].doc = exec[s].doc
    PROVE  AttemptInv'
BY DEF AttemptInv, OneAttemptCounts

LEMMA InitAttempt == WorkInit => AttemptInv
BY DEF WorkInit, EmbedInit, AttemptInv, OneAttemptCounts, Live, Idle

LEMMA PollAttempt ==
    ASSUME AttemptInv, NEW w \in Worker, NEW i \in 1 .. Unlimited, NEW d \in Doc, Poll(w, i, d)
    PROVE  AttemptInv'
<1> DEFINE new == <<w, i>>
<1>1. new \in Slot
    BY DEF Slot
<1>2. /\ activity[d] = "queued"
      /\ activity' = [activity EXCEPT ![d] = "started"]
      /\ exec' = [exec EXCEPT ![new] = Attempt("live", d, 0, 0)]
    BY DEF Poll
<1> HIDE DEF new
<1>3. Attempt("live", d, 0, 0) \in Attempts /\ Attempt("live", d, 0, 0).doc = d
    BY DEF Attempt, Attempts
<1>4. /\ exec' \in [Slot -> {Idle} \cup Attempts]
      /\ exec'[new].doc = d
      /\ \A s \in Slot \ {new} : exec'[s] = exec[s]
    BY <1>1, <1>2, <1>3 DEF AttemptInv
<1>5. /\ activity' = [x \in Doc |-> activity'[x]]
      /\ activity'[d] = "started"
      /\ \A x \in Doc \ {d} : activity'[x] = activity[x]
    BY <1>2 DEF AttemptInv
<1>6. \A s \in Slot \ {new} : Live(s)' =>
            Live(s) /\ exec[s].doc \in Doc \ {d} /\ activity[exec[s].doc] = "started"
    <2>1. ASSUME NEW s \in Slot \ {new}, Live(s)' PROVE Live(s)
        BY <1>4, <2>1 DEF Live
    <2>2. ASSUME NEW s \in Slot, Live(s)
          PROVE  exec[s].doc \in Doc /\ activity[exec[s].doc] = "started"
        <3>1. exec[s] \in {Idle} \cup Attempts /\ exec[s].state = "live"
            BY <2>2 DEF AttemptInv, Live
        <3>2. exec[s] \in Attempts
            BY <3>1, AttemptStates
        <3>3. exec[s].doc \in Doc
            BY <3>2 DEF Attempts
        <3>4. QED
            BY <2>2, <3>3 DEF AttemptInv, OneAttemptCounts
    <2>3. QED
        BY <1>2, <2>1, <2>2
<1>7. OneAttemptCounts'
    BY <1>4, <1>5, <1>6 DEF AttemptInv, OneAttemptCounts
<1>8. QED
    BY <1>4, <1>5, <1>7 DEF AttemptInv

LEMMA EmbedChunkAttempt ==
    ASSUME AttemptInv, NEW s \in Slot, EmbedChunk(s)
    PROVE  AttemptInv'
<1> DEFINE last == exec[s].done + 1 = Chunks[exec[s].doc]
<1>1. CASE Live(s) /\ ~last
    <2>1. activity' = activity /\ exec' = [exec EXCEPT ![s].done = @ + 1]
        BY <1>1 DEF EmbedChunk
    <2>2. exec[s] \in Attempts
        BY <1>1, AttemptStates DEF AttemptInv, Live
    <2>3. /\ [exec[s] EXCEPT !.done = @ + 1] \in Attempts
          /\ [exec[s] EXCEPT !.done = @ + 1].doc = exec[s].doc
        BY <2>2, AttemptUpdates
    <2>4. /\ exec' \in [Slot -> {Idle} \cup Attempts]
          /\ \A r \in Slot : Live(r)' => Live(r) /\ exec'[r].doc = exec[r].doc
        BY <1>1, <2>1, <2>3 DEF AttemptInv, Live
    <2>5. QED
        BY <2>1, <2>4, SameAttempts
<1>2. CASE Live(s) /\ last
    <2>1. /\ exec' = [exec EXCEPT ![s] = Idle]
          /\ activity' = [activity EXCEPT ![exec[s].doc] = "done"]
        BY <1>2 DEF EmbedChunk
    <2>2. exec[s].doc \in Doc
        BY <1>2, AttemptStates DEF AttemptInv, Live, Attempts
    <2>3. /\ exec' \in [Slot -> {Idle} \cup Attempts]
          /\ activity' = [x \in Doc |-> activity'[x]]
          /\ \A x \in Doc \ {exec[s].doc} : activity'[x] = activity[x]
        BY <2>1, <2>2 DEF AttemptInv
    <2>4. \A r \in Slot : Live(r)' => r # s /\ Live(r) /\ exec'[r] = exec[r]
        BY <2>1 DEF AttemptInv, Live, Idle
    <2>5. \A r \in Slot : Live(r)' => exec[r].doc \in Doc \ {exec[s].doc}
        BY <1>2, <2>4, AttemptStates DEF AttemptInv, OneAttemptCounts, Live, Attempts
    <2>6. OneAttemptCounts'
        BY <2>3, <2>4, <2>5 DEF AttemptInv, OneAttemptCounts
    <2>7. QED
        BY <2>3, <2>6 DEF AttemptInv
<1>3. CASE ~Live(s)
    <2>1. activity' = activity /\ exec' = [exec EXCEPT ![s] = Idle]
        BY <1>3 DEF EmbedChunk
    <2>2. /\ exec' \in [Slot -> {Idle} \cup Attempts]
          /\ \A r \in Slot : Live(r)' => Live(r) /\ exec'[r].doc = exec[r].doc
        BY <2>1 DEF AttemptInv, Live, Idle
    <2>3. QED
        BY <2>1, <2>2, SameAttempts
<1>4. QED
    BY <1>1, <1>2, <1>3

LEMMA MissHeartbeatAttempt ==
    ASSUME AttemptInv, NEW d \in Doc, MissHeartbeat(d)
    PROVE  AttemptInv'
<1>1. /\ activity' = [activity EXCEPT ![d] = "queued"]
      /\ exec' = [s \in Slot |-> IF Live(s) /\ exec[s].doc = d
                                 THEN [exec[s] EXCEPT !.state = "given up"] ELSE exec[s]]
    BY DEF MissHeartbeat
<1>2. ASSUME NEW s \in Slot, Live(s)
      PROVE  /\ [exec[s] EXCEPT !.state = "given up"] \in Attempts
             /\ [exec[s] EXCEPT !.state = "given up"].state = "given up"
             /\ exec[s].doc \in Doc
    <2>1. exec[s] \in Attempts
        BY <1>2, AttemptStates DEF AttemptInv, Live
    <2>2. QED
        BY <2>1 DEF Attempts
<1>3. exec' \in [Slot -> {Idle} \cup Attempts]
    BY <1>1, <1>2 DEF AttemptInv
<1>4. \A s \in Slot : Live(s)' =>
            Live(s) /\ exec'[s] = exec[s] /\ exec[s].doc \in Doc \ {d}
    BY <1>1, <1>2 DEF Live
<1>5. /\ activity' = [x \in Doc |-> activity'[x]]
      /\ \A x \in Doc \ {d} : activity'[x] = activity[x]
    BY <1>1 DEF AttemptInv
<1>6. OneAttemptCounts'
    BY <1>4, <1>5 DEF AttemptInv, OneAttemptCounts
<1>7. QED
    BY <1>3, <1>5, <1>6 DEF AttemptInv

LEMMA TimePassesAttempt ==
    ASSUME AttemptInv, TimePasses
    PROVE  AttemptInv'
<1>1. /\ activity' = activity
      /\ exec' = [s \in Slot |-> IF Busy(s) THEN [exec[s] EXCEPT !.age = @ + 1] ELSE Idle]
    BY DEF TimePasses
<1>2. ASSUME NEW s \in Slot, Busy(s)
      PROVE  /\ [exec[s] EXCEPT !.age = @ + 1] \in Attempts
             /\ [exec[s] EXCEPT !.age = @ + 1].doc = exec[s].doc
             /\ [exec[s] EXCEPT !.age = @ + 1].state = exec[s].state
    <2>1. exec[s] \in Attempts
        BY <1>2 DEF AttemptInv, Busy
    <2>2. QED
        BY <2>1, AttemptUpdates
<1>3. exec' \in [Slot -> {Idle} \cup Attempts]
    BY <1>1, <1>2 DEF AttemptInv
<1>4. \A s \in Slot : Live(s)' => Live(s) /\ exec'[s].doc = exec[s].doc
    BY <1>1, <1>2 DEF Live, Busy, Idle
<1>5. QED
    BY <1>1, <1>3, <1>4, SameAttempts

LEMMA NextAttempt == AttemptInv /\ [WorkNext]_workVars => AttemptInv'
<1> SUFFICES ASSUME AttemptInv, [WorkNext]_workVars PROVE AttemptInv'
    OBVIOUS
<1>1. ASSUME UNCHANGED <<activity, exec>> PROVE AttemptInv'
    BY <1>1 DEF AttemptInv, OneAttemptCounts, Live
<1>2. CASE WorkStep
    <2>1. ASSUME NEW s \in Slot, TimeOut(s) PROVE AttemptInv'
        <3>1. Drop({s}) /\ Retried({s}) /\ {s} \in SUBSET Slot
            BY <2>1 DEF TimeOut
        <3>2. QED
            BY <3>1, Freeing
    <2>2. QED
        BY <1>2, <2>1, PollAttempt, EmbedChunkAttempt, MissHeartbeatAttempt DEF WorkStep
<1>3. CASE Tick \/ Stall
    BY <1>3, TimePassesAttempt DEF Tick, Stall
<1>4. ASSUME NEW s \in Slot, EmbedFails(s) PROVE AttemptInv'
    <2>1. Drop({s}) /\ Retried({s}) /\ {s} \in SUBSET Slot
        BY <1>4 DEF EmbedFails
    <2>2. QED
        BY <2>1, Freeing
<1>5. ASSUME NEW w \in Worker, Start(w) PROVE AttemptInv'
    BY <1>1, <1>5 DEF Start, embedVars
<1>6. ASSUME NEW w \in Worker, CrashWorker(w) PROVE AttemptInv'
    <2>1. /\ Drop({w} \X (1 .. Unlimited)) /\ UNCHANGED activity
          /\ {w} \X (1 .. Unlimited) \in SUBSET Slot
        BY <1>6 DEF CrashWorker, Slot
    <2>2. QED
        BY <2>1, Freeing
<1>7. CASE UNCHANGED workVars
    BY <1>1, <1>7 DEF workVars, embedVars
<1>8. QED
    BY <1>2, <1>3, <1>4, <1>5, <1>6, <1>7 DEF WorkNext

(***************************************************************************)
(* Ollama's queue.                                                         *)
(***************************************************************************)
\* The busy slots, and no others, wait in a linear order.
QueueInv ==
    /\ ahead \in [Slot -> SUBSET Slot]
    /\ \A s \in Slot : ahead[s] \subseteq {r \in Slot \ {s} : Busy(r)}
    /\ \A s \in Slot : ~Busy(s) => ahead[s] = {}
    /\ \A r, s \in Slot : Busy(r) /\ Busy(s) /\ r # s => r \in ahead[s] \/ s \in ahead[r]
    /\ \A s \in Slot : \A r \in ahead[s] : ahead[r] \subseteq ahead[s]

LEMMA SlotsAreFinite == IsFiniteSet(Slot)
<1>1. IsFiniteSet(1 .. Unlimited)
    BY Times, FS_Interval
<1>2. QED
    BY <1>1, WorkersAreFinite, FS_Product DEF Slot

\* If requests wait, one of them is served: the order has a first element.
LEMMA FirstIsServed ==
    ASSUME QueueInv, Working
    PROVE  \E s \in Slot : Served(s)
<1> DEFINE F == {ahead[s] : s \in {s \in Slot : Busy(s)}}
           R == StrictSubsetOrdering(Slot)
<1>1. IsWellFoundedOn(R, SUBSET Slot)
    <2>1. FiniteSubsetsOf(Slot) = SUBSET Slot
        BY SlotsAreFinite, FS_FiniteSubsetsOfFinite
    <2>2. QED
        BY <2>1, FS_StrictSubsetOrderingWellFounded
<1>2. F \subseteq SUBSET Slot /\ F # {}
    BY DEF QueueInv, Working
<1>3. PICK x \in F : \A y \in F : <<y, x>> \notin R
    <2> HIDE DEF F, R
    <2>1. QED
        BY <1>1, <1>2, WFMin
<1>4. PICK s \in Slot : Busy(s) /\ x = ahead[s]
    BY <1>3
<1>5. ASSUME NEW r \in ahead[s] PROVE FALSE
    <2>1. r \in Slot /\ Busy(r) /\ r \notin ahead[r] /\ ahead[r] \subseteq ahead[s]
        BY <1>4, <1>5 DEF QueueInv
    <2>2. ahead[r] \in F /\ <<ahead[r], x>> \in R
        BY <1>2, <1>4, <1>5, <2>1 DEF StrictSubsetOrdering
    <2>3. QED
        BY <1>3, <2>2
<1>6. QED
    BY <1>4, <1>5 DEF Served

\* A request that is made comes last.
LEMMA AskingQueues ==
    ASSUME QueueInv, NEW s \in Slot, Asks(s), Busy(s)',
           \A r \in Slot \ {s} : Busy(r)' <=> Busy(r)
    PROVE  QueueInv'
<1>1. /\ ahead' \in [Slot -> SUBSET Slot]
      /\ ahead'[s] = {q \in Slot \ {s} : Busy(q)}
      /\ \A r \in Slot \ {s} : ahead'[r] = ahead[r] \ {s}
    BY DEF Asks, QueueInv
<1>2. \A r \in Slot : ahead'[r] \subseteq {q \in Slot \ {r} : Busy(q)'}
    BY <1>1 DEF QueueInv
<1>3. \A r \in Slot : ~Busy(r)' => ahead'[r] = {}
    BY <1>1 DEF QueueInv
<1>4. \A q, r \in Slot : Busy(q)' /\ Busy(r)' /\ q # r => q \in ahead'[r] \/ r \in ahead'[q]
    BY <1>1 DEF QueueInv
<1>5. \A r \in Slot : \A q \in ahead'[r] : ahead'[q] \subseteq ahead'[r]
    BY <1>1 DEF QueueInv
<1>6. QED
    BY <1>1, <1>2, <1>3, <1>4, <1>5 DEF QueueInv

\* Slots that become idle leave the others in their order.
LEMMA LeavingQueues ==
    ASSUME QueueInv, NEW S \in SUBSET Slot, Leave(S),
           \A s \in Slot : Busy(s)' <=> Busy(s) /\ s \notin S
    PROVE  QueueInv'
<1>1. /\ ahead' \in [Slot -> SUBSET Slot]
      /\ \A s \in S : ahead'[s] = {}
      /\ \A s \in Slot \ S : ahead'[s] = ahead[s] \ S
    BY DEF Leave, QueueInv
<1>2. \A s \in Slot : ahead'[s] \subseteq {r \in Slot \ {s} : Busy(r)'}
    BY <1>1 DEF QueueInv
<1>3. \A s \in Slot : ~Busy(s)' => ahead'[s] = {}
    BY <1>1 DEF QueueInv
<1>4. \A r, s \in Slot : Busy(r)' /\ Busy(s)' /\ r # s => r \in ahead'[s] \/ s \in ahead'[r]
    BY <1>1 DEF QueueInv
<1>5. \A s \in Slot : \A r \in ahead'[s] : ahead'[r] \subseteq ahead'[s]
    BY <1>1 DEF QueueInv
<1>6. QED
    BY <1>1, <1>2, <1>3, <1>4, <1>5 DEF QueueInv

(***************************************************************************)
(* What the steps change.                                                  *)
(***************************************************************************)
LEMMA AttemptsAreBusy ==
    ASSUME NEW e \in Attempts
    PROVE  e # Idle
<1>1. e.state \in {"live", "given up"} /\ Idle.state = "idle"
    BY DEF Attempts, Idle
<1>2. QED
    BY <1>1

Freed(S) ==
    /\ Drop(S)
    /\ UNCHANGED activity \/ Retried(S)
    /\ UNCHANGED <<sinceBeat, stalls>>

\* What can happen to the attempts; nothing changes the configuration.
LEMMA StepCases ==
    ASSUME [WorkNext]_workVars
    PROVE  /\ config' = config
           /\ \/ UNCHANGED embedVars
              \/ \E w \in Worker, i \in 1 .. Unlimited, d \in Doc : Poll(w, i, d)
              \/ \E s \in Slot : EmbedChunk(s)
              \/ \E d \in Doc : MissHeartbeat(d)
              \/ \E S \in SUBSET Slot : Freed(S)
              \/ Tick
              \/ Stall
<1>1. CASE WorkStep
    BY <1>1 DEF WorkStep, Poll, EmbedChunk, MissHeartbeat, TimeOut, Freed, startupVars
<1>2. CASE Tick \/ Stall
    BY <1>2 DEF Tick, Stall, TimePasses, startupVars
<1>3. CASE \E s \in Slot : EmbedFails(s)
    BY <1>3 DEF EmbedFails, Freed
<1>4. CASE \E w \in Worker : Start(w)
    BY <1>4 DEF Start, StartupStep, Launch, ReadVersion, ApplyMigration, DescribeSchedule,
                CreateSchedule
<1>5. CASE \E w \in Worker : CrashWorker(w)
    <2>1. PICK w \in Worker : CrashWorker(w)
        BY <1>5
    <2>2. {w} \X (1 .. Unlimited) \in SUBSET Slot
        BY DEF Slot
    <2>3. QED
        BY <2>1, <2>2 DEF CrashWorker, Crash, Freed
<1>6. CASE UNCHANGED workVars
    BY <1>6 DEF workVars, startupVars
<1>7. QED
    BY <1>1, <1>2, <1>3, <1>4, <1>5, <1>6 DEF WorkNext

LEMMA PollEffect ==
    ASSUME AttemptInv, NEW w \in Worker, NEW i \in 1 .. Unlimited, NEW d \in Doc, Poll(w, i, d)
    PROVE  /\ <<w, i>> \in Slot
           /\ exec'[<<w, i>>] = Attempt("live", d, 0, 0)
           /\ Busy(<<w, i>>)' /\ Live(<<w, i>>)'
           /\ \A s \in Slot \ {<<w, i>>} : exec'[s] = exec[s]
<1>1. <<w, i>> \in Slot
    BY DEF Slot
<1>2. Attempt("live", d, 0, 0) # Idle /\ Attempt("live", d, 0, 0).state = "live"
    <2>1. Attempt("live", d, 0, 0) \in Attempts
        BY DEF Attempt, Attempts
    <2>2. QED
        BY <2>1, AttemptsAreBusy DEF Attempt
<1>3. QED
    BY <1>1, <1>2 DEF Poll, AttemptInv, Busy, Live

\* A live attempt with chunks left asks again; any other answer frees the slot.
LEMMA EmbedChunkEffect ==
    ASSUME AttemptInv, NEW s \in Slot, EmbedChunk(s)
    PROVE  /\ \A r \in Slot \ {s} : exec'[r] = exec[r]
           /\ \/ /\ Live(s) /\ exec[s] \in Attempts
                 /\ exec[s].done + 1 # Chunks[exec[s].doc]
                 /\ exec'[s] = [exec[s] EXCEPT !.done = @ + 1]
                 /\ Live(s)' /\ Busy(s)' /\ exec'[s].doc = exec[s].doc
                 /\ Asks(s)
              \/ exec'[s] = Idle /\ Leave({s})
<1>1. CASE Live(s) /\ exec[s].done + 1 # Chunks[exec[s].doc]
    <2>1. exec[s] \in Attempts
        BY <1>1, AttemptStates DEF AttemptInv, Live
    <2>2. /\ [exec[s] EXCEPT !.done = @ + 1] \in Attempts
          /\ [exec[s] EXCEPT !.done = @ + 1].state = exec[s].state
          /\ [exec[s] EXCEPT !.done = @ + 1].doc = exec[s].doc
        BY <2>1, AttemptUpdates DEF Attempts
    <2>3. /\ exec' = [exec EXCEPT ![s].done = @ + 1]
          /\ Asks(s)
        BY <1>1 DEF EmbedChunk
    <2>4. exec'[s] = [exec[s] EXCEPT !.done = @ + 1] /\ \A r \in Slot \ {s} : exec'[r] = exec[r]
        BY <2>3 DEF AttemptInv
    <2>5. QED
        BY <1>1, <2>1, <2>2, <2>3, <2>4, AttemptsAreBusy DEF Live, Busy
<1>2. CASE ~(Live(s) /\ exec[s].done + 1 # Chunks[exec[s].doc])
    BY <1>2 DEF EmbedChunk, AttemptInv
<1>3. QED
    BY <1>1, <1>2

LEMMA MissHeartbeatEffect ==
    ASSUME AttemptInv, NEW d \in Doc, MissHeartbeat(d), NEW s \in Slot
    PROVE  /\ Busy(s)' <=> Busy(s)
           /\ \/ exec'[s] = exec[s]
              \/ /\ exec[s] \in Attempts
                 /\ exec'[s] = [exec[s] EXCEPT !.state = "given up"]
           /\ Live(s)' => exec'[s] = exec[s]
<1>1. exec'[s] = IF Live(s) /\ exec[s].doc = d
                 THEN [exec[s] EXCEPT !.state = "given up"] ELSE exec[s]
    BY DEF MissHeartbeat
<1>2. CASE Live(s) /\ exec[s].doc = d
    <2>1. exec[s] \in Attempts
        BY <1>2, AttemptStates DEF AttemptInv, Live
    <2>2. /\ [exec[s] EXCEPT !.state = "given up"] \in Attempts
          /\ [exec[s] EXCEPT !.state = "given up"].state = "given up"
        BY <2>1 DEF Attempts
    <2>3. QED
        BY <1>1, <1>2, <2>1, <2>2, AttemptsAreBusy DEF Busy, Live
<1>3. CASE ~(Live(s) /\ exec[s].doc = d)
    BY <1>1, <1>3 DEF Busy, Live
<1>4. QED
    BY <1>2, <1>3

LEMMA TimePassesEffect ==
    ASSUME AttemptInv, TimePasses, NEW s \in Slot
    PROVE  /\ Busy(s)' <=> Busy(s)
           /\ Live(s)' => Live(s)
           /\ Busy(s) => /\ exec[s] \in Attempts
                         /\ exec'[s] = [exec[s] EXCEPT !.age = @ + 1]
                         /\ exec'[s].doc = exec[s].doc
<1>1. exec'[s] = IF Busy(s) THEN [exec[s] EXCEPT !.age = @ + 1] ELSE Idle
    BY DEF TimePasses
<1>2. CASE Busy(s)
    <2>1. exec[s] \in Attempts
        BY <1>2 DEF AttemptInv, Busy
    <2>2. /\ [exec[s] EXCEPT !.age = @ + 1] \in Attempts
          /\ [exec[s] EXCEPT !.age = @ + 1].doc = exec[s].doc
          /\ [exec[s] EXCEPT !.age = @ + 1].state = exec[s].state
        BY <2>1, AttemptUpdates
    <2>3. QED
        BY <1>1, <1>2, <2>1, <2>2, AttemptsAreBusy DEF Busy, Live
<1>3. CASE ~Busy(s)
    BY <1>1, <1>3 DEF Busy, Live
<1>4. QED
    BY <1>2, <1>3

LEMMA InitQueue == WorkInit => QueueInv
BY DEF WorkInit, EmbedInit, QueueInv, Busy

LEMMA NextQueue == AttemptInv /\ QueueInv /\ [WorkNext]_workVars => QueueInv'
<1> SUFFICES ASSUME AttemptInv, QueueInv, [WorkNext]_workVars PROVE QueueInv'
    OBVIOUS
<1>1. ASSUME ahead' = ahead, \A s \in Slot : Busy(s)' <=> Busy(s) PROVE QueueInv'
    BY <1>1 DEF QueueInv
<1>2. CASE UNCHANGED embedVars
    BY <1>1, <1>2 DEF embedVars, Busy
<1>3. ASSUME NEW w \in Worker, NEW i \in 1 .. Unlimited, NEW d \in Doc, Poll(w, i, d)
      PROVE  QueueInv'
    <2> DEFINE new == <<w, i>>
    <2>1. /\ new \in Slot /\ Busy(new)' /\ Asks(new)
          /\ \A s \in Slot \ {new} : exec'[s] = exec[s]
        BY <1>3, PollEffect DEF Poll
    <2> HIDE DEF new
    <2>2. \A s \in Slot \ {new} : Busy(s)' <=> Busy(s)
        BY <2>1 DEF Busy
    <2>3. QED
        BY <2>1, <2>2, AskingQueues
<1>4. ASSUME NEW s \in Slot, EmbedChunk(s) PROVE QueueInv'
    <2>1. \A r \in Slot \ {s} : Busy(r)' <=> Busy(r)
        BY <1>4, EmbedChunkEffect DEF Busy
    <2>2. CASE Busy(s)' /\ Asks(s)
        BY <2>1, <2>2, AskingQueues
    <2>3. CASE exec'[s] = Idle /\ Leave({s})
        <3>1. \A r \in Slot : Busy(r)' <=> Busy(r) /\ r \notin {s}
            BY <2>1, <2>3 DEF Busy
        <3>2. QED
            BY <2>3, <3>1, LeavingQueues
    <2>4. QED
        BY <1>4, <2>2, <2>3, EmbedChunkEffect
<1>5. ASSUME NEW d \in Doc, MissHeartbeat(d) PROVE QueueInv'
    BY <1>1, <1>5, MissHeartbeatEffect DEF MissHeartbeat
<1>6. ASSUME NEW S \in SUBSET Slot, Freed(S) PROVE QueueInv'
    <2>1. Leave(S) /\ \A s \in Slot : Busy(s)' <=> Busy(s) /\ s \notin S
        BY <1>6 DEF Freed, Drop, Busy
    <2>2. QED
        BY <2>1, LeavingQueues
<1>7. CASE Tick \/ Stall
    BY <1>1, <1>7, TimePassesEffect DEF Tick, Stall, TimePasses
<1>8. QED
    BY StepCases, <1>2, <1>3, <1>4, <1>5, <1>6, <1>7

(***************************************************************************)
(* Types and times.                                                        *)
(***************************************************************************)
LEMMA InitStartupTypes == StartupInit => StartupTypeOK
<1> SUFFICES ASSUME StartupInit PROVE StartupTypeOK
    OBVIOUS
<1>1. schedule \in BOOLEAN
    BY Zenon DEF StartupInit
<1>2. version \in 0 .. LastMigration /\ schema = version
    BY OldDatabases DEF StartupInit, LastMigration
<1>3. QED
    BY <1>1, <1>2, MaxFaultsIsNat DEF StartupInit, StartupTypeOK, LastMigration

LEMMA FaultCounted ==
    ASSUME faults \in 0 .. MaxFaults, Fault \/ UNCHANGED faults
    PROVE  faults' \in 0 .. MaxFaults
BY MaxFaultsIsNat DEF Fault

\* What a worker reads is a version the tables have, and what it applies is the
\* next one.
LEMMA NextStartupTypes ==
    ASSUME MigrationInv, MigrationInv', StartupTypeOK, NEW w \in Worker, StartupStep(w) \/ Crash(w)
    PROVE  StartupTypeOK'
<1>1. phase' \in [Worker -> {"down", "migrate", "apply", "schedule", "create", "serving"}]
    BY DEF StartupTypeOK, StartupStep, Launch, ReadVersion, ApplyMigration, DescribeSchedule,
           CreateSchedule, Crash, Enter
<1>2. seen' \in [Worker -> 0 .. LastMigration]
    BY DEF StartupTypeOK, StartupStep, Launch, ReadVersion, ApplyMigration, DescribeSchedule,
           CreateSchedule, Crash
<1>3. schedule' \in BOOLEAN
    BY DEF StartupTypeOK, StartupStep, Launch, ReadVersion, ApplyMigration, DescribeSchedule,
           CreateSchedule, Crash
<1>4. faults' \in 0 .. MaxFaults
    BY FaultCounted DEF StartupTypeOK, StartupStep, Launch, ReadVersion, ApplyMigration,
           DescribeSchedule, CreateSchedule, Crash
<1>5. QED
    BY <1>1, <1>2, <1>3, <1>4 DEF StartupTypeOK, MigrationInv

\* What is in a slot, and how long it has been there.
SlotTypes ==
    \A s \in Slot : Busy(s) =>
        /\ exec[s].done \in 0 .. Chunks[exec[s].doc] - 1
        /\ exec[s].age \in 0 .. StartToClose

TimeTypes ==
    /\ activity \in [Doc -> {"queued", "started", "done"}]
    /\ sinceBeat \in [Doc -> 0 .. HeartbeatTimeout]
    /\ progress \in 0 .. EmbedTime
    /\ stalls \in 0 .. MaxStalls

LEMMA InitTimes == WorkInit => SlotTypes /\ TimeTypes
BY Times DEF WorkInit, EmbedInit, SlotTypes, TimeTypes, Busy

\* Time waits for what is due, so no clock runs past its deadline.
LEMMA ClocksKeepTypes ==
    ASSUME AttemptInv, QueueInv, SlotTypes, TimeTypes, TimePasses
    PROVE  /\ SlotTypes'
           /\ activity' \in [Doc -> {"queued", "started", "done"}]
           /\ sinceBeat' \in [Doc -> 0 .. HeartbeatTimeout]
           /\ Working => progress + 1 \in 0 .. EmbedTime
<1>1. /\ \A d \in Doc : ~HeartbeatMissed(d)
      /\ \A s \in Slot : ~Answered(s) /\ ~TooOld(s)
    BY DEF TimePasses, Urgent
<1>2. ASSUME NEW s \in Slot, Busy(s)'
      PROVE  /\ exec'[s].done \in 0 .. Chunks[exec'[s].doc] - 1
             /\ exec'[s].age \in 0 .. StartToClose
    <2>1. /\ Busy(s) /\ exec[s] \in Attempts
          /\ exec'[s] = [exec[s] EXCEPT !.age = @ + 1]
        BY <1>2, TimePassesEffect
    <2>2. exec'[s].done = exec[s].done /\ exec'[s].doc = exec[s].doc
        BY <2>1 DEF Attempts
    <2>3. exec'[s].age = exec[s].age + 1
        BY <2>1 DEF Attempts
    <2>4. exec[s].age \in 0 .. StartToClose /\ exec[s].age # StartToClose
        BY <1>1, <2>1 DEF SlotTypes, TooOld
    <2>5. exec[s].age + 1 \in 0 .. StartToClose
        BY <2>4, Times
    <2>6. QED
        BY <2>1, <2>2, <2>3, <2>5 DEF SlotTypes
<1>3. sinceBeat' \in [Doc -> 0 .. HeartbeatTimeout]
    BY <1>1, Times DEF TimePasses, HeartbeatMissed, TimeTypes
<1>4. Working => progress + 1 \in 0 .. EmbedTime
    <2>1. Working => progress # EmbedTime
        BY <1>1, FirstIsServed DEF Answered
    <2>2. QED
        BY <2>1, Times DEF TimeTypes
<1>5. QED
    BY <1>2, <1>3, <1>4 DEF SlotTypes, TimeTypes, TimePasses

LEMMA NextTimes ==
    ASSUME AttemptInv, QueueInv, SlotTypes, TimeTypes, [WorkNext]_workVars
    PROVE  SlotTypes' /\ TimeTypes'
<1>1. CASE UNCHANGED embedVars
    BY <1>1 DEF embedVars, SlotTypes, TimeTypes, Busy
<1>2. ASSUME NEW w \in Worker, NEW i \in 1 .. Unlimited, NEW d \in Doc, Poll(w, i, d)
      PROVE  SlotTypes' /\ TimeTypes'
    <2> DEFINE new == <<w, i>>
    <2>1. /\ exec'[new] = Attempt("live", d, 0, 0)
          /\ \A s \in Slot \ {new} : exec'[s] = exec[s]
        BY <1>2, PollEffect
    <2> HIDE DEF new
    <2>2. exec'[new].done = 0 /\ exec'[new].age = 0 /\ exec'[new].doc = d
        BY <2>1 DEF Attempt
    <2>3. 0 \in 0 .. Chunks[d] - 1 /\ 0 \in 0 .. StartToClose
        BY Times
    <2>4. SlotTypes'
        BY <2>1, <2>2, <2>3 DEF SlotTypes, Busy
    <2>5. QED
        BY <1>2, <2>4, Times DEF TimeTypes, Poll
<1>3. ASSUME NEW s \in Slot, EmbedChunk(s) PROVE SlotTypes' /\ TimeTypes'
    <2>1. \A r \in Slot \ {s} : exec'[r] = exec[r]
        BY <1>3, EmbedChunkEffect
    <2>2. Busy(s)' => /\ exec'[s].done \in 0 .. Chunks[exec'[s].doc] - 1
                      /\ exec'[s].age \in 0 .. StartToClose
        <3>1. CASE exec'[s] = Idle
            BY <3>1 DEF Busy
        <3>2. CASE /\ Live(s) /\ exec[s] \in Attempts
                   /\ exec[s].done + 1 # Chunks[exec[s].doc]
                   /\ exec'[s] = [exec[s] EXCEPT !.done = @ + 1]
            <4>1. Busy(s) /\ exec[s].doc \in Doc
                BY <3>2, AttemptsAreBusy DEF Busy, Attempts
            <4>2. /\ exec'[s].done = exec[s].done + 1
                  /\ exec'[s].doc = exec[s].doc /\ exec'[s].age = exec[s].age
                BY <3>2 DEF Attempts
            <4>3. exec[s].done + 1 \in 0 .. Chunks[exec[s].doc] - 1
                BY <3>2, <4>1, Times DEF SlotTypes
            <4>4. QED
                BY <4>1, <4>2, <4>3 DEF SlotTypes
        <3>3. QED
            BY <1>3, <3>1, <3>2, EmbedChunkEffect
    <2>3. SlotTypes'
        BY <2>1, <2>2 DEF SlotTypes, Busy
    <2>4. activity' \in [Doc -> {"queued", "started", "done"}]
        BY <1>3 DEF TimeTypes, EmbedChunk
    <2>5. sinceBeat' \in [Doc -> 0 .. HeartbeatTimeout]
        <3>1. sinceBeat' = IF Live(s) THEN [sinceBeat EXCEPT ![exec[s].doc] = 0] ELSE sinceBeat
            BY <1>3 DEF EmbedChunk
        <3>2. 0 \in 0 .. HeartbeatTimeout
            BY Times
        <3>3. sinceBeat \in [Doc -> 0 .. HeartbeatTimeout]
            BY DEF TimeTypes
        <3>4. CASE Live(s)
            BY <3>1, <3>2, <3>3, <3>4
        <3>5. CASE ~Live(s)
            BY <3>1, <3>3, <3>5
        <3>6. QED
            BY <3>4, <3>5
    <2>6. QED
        BY <1>3, <2>3, <2>4, <2>5, Times DEF TimeTypes, EmbedChunk
<1>4. ASSUME NEW d \in Doc, MissHeartbeat(d) PROVE SlotTypes' /\ TimeTypes'
    <2>1. ASSUME NEW s \in Slot
          PROVE  /\ Busy(s)' => Busy(s)
                 /\ Busy(s)' => /\ exec'[s].done = exec[s].done
                                /\ exec'[s].age = exec[s].age
                                /\ exec'[s].doc = exec[s].doc
        BY <1>4, MissHeartbeatEffect DEF Attempts
    <2>2. SlotTypes'
        BY <2>1 DEF SlotTypes
    <2>3. QED
        BY <1>4, <2>2 DEF TimeTypes, MissHeartbeat
<1>5. ASSUME NEW S \in SUBSET Slot, Freed(S)
      PROVE  SlotTypes' /\ TimeTypes'
    <2>1. \A s \in Slot : Busy(s)' => Busy(s) /\ exec'[s] = exec[s]
        BY <1>5 DEF Freed, Drop, Busy
    <2>2. activity' \in [Doc -> {"queued", "started", "done"}]
        BY <1>5 DEF TimeTypes, Freed, Retried
    <2>3. progress' \in 0 .. EmbedTime
        BY <1>5, Times DEF TimeTypes, Freed, Drop
    <2>4. QED
        BY <1>5, <2>1, <2>2, <2>3 DEF SlotTypes, TimeTypes, Freed
<1>6. CASE Tick
    BY <1>6, ClocksKeepTypes, Times DEF TimeTypes, Tick
<1>7. CASE Stall
    BY <1>7, ClocksKeepTypes, Times DEF TimeTypes, Stall
<1>8. QED
    BY StepCases, <1>1, <1>2, <1>3, <1>4, <1>5, <1>6, <1>7

LEMMA NextStartup ==
    ASSUME MigrationInv, StartupTypeOK, [WorkNext]_workVars
    PROVE  StartupTypeOK'
<1>1. CASE UNCHANGED startupVars
    BY <1>1 DEF startupVars, dbVars, StartupTypeOK
<1>2. CASE WorkStep
    BY <1>1, <1>2 DEF WorkStep, Poll, EmbedChunk, MissHeartbeat, TimeOut
<1>3. CASE Tick \/ Stall
    BY <1>1, <1>3 DEF Tick, Stall, TimePasses
<1>4. ASSUME NEW s \in Slot, EmbedFails(s) PROVE StartupTypeOK'
    <2>1. faults' \in 0 .. MaxFaults
        BY <1>4, FaultCounted DEF EmbedFails, StartupTypeOK
    <2>2. QED
        BY <1>4, <2>1 DEF EmbedFails, StartupTypeOK, dbVars
<1>5. ASSUME NEW w \in Worker, Start(w) \/ CrashWorker(w) PROVE StartupTypeOK'
    <2>1. MigrationInv'
        BY <1>5, NextMigrationInv DEF WorkNext
    <2>2. QED
        BY <1>5, <2>1, NextStartupTypes DEF Start, CrashWorker
<1>6. CASE UNCHANGED workVars
    BY <1>1, <1>6 DEF workVars
<1>7. QED
    BY <1>2, <1>3, <1>4, <1>5, <1>6 DEF WorkNext

TypeInv ==
    /\ MigrationInv
    /\ StartupTypeOK
    /\ AttemptInv
    /\ QueueInv
    /\ SlotTypes
    /\ TimeTypes

LEMMA InitTypes == WorkInit => TypeInv
BY InitMigration, InitStartupTypes, InitAttempt, InitQueue, InitTimes DEF WorkInit, TypeInv

LEMMA NextTypes == TypeInv /\ [WorkNext]_workVars => TypeInv'
BY NextMigrationInv, NextStartup, NextAttempt, NextQueue, NextTimes DEF TypeInv

LEMMA TypesAreCorrect == TypeInv => EmbedTypeOK
<1> SUFFICES ASSUME TypeInv PROVE EmbedTypeOK
    OBVIOUS
<1>1. \A s \in Slot : Busy(s) => exec[s].state \in {"live", "given up"} /\ exec[s].doc \in Doc
    BY DEF TypeInv, AttemptInv, Busy, Attempts
<1>2. QED
    BY <1>1 DEF TypeInv, EmbedTypeOK, QueueInv, SlotTypes, TimeTypes

\* Every variable keeps its type, and no clock runs past its deadline.
THEOREM EmbedTypes == WorkSpec => []EmbedTypeOK
BY InitTypes, NextTypes, TypesAreCorrect, PTL DEF WorkSpec

(***************************************************************************)
(* Serving.                                                                *)
(***************************************************************************)
\* Migrations are never undone, and a worker goes on only when it has read the
\* last version, which the tables have.
LEMMA StartKeepsServing ==
    ASSUME TypeInv, ServingMeansMigrated, NEW w \in Worker, StartupStep(w) \/ Crash(w)
    PROVE  ServingMeansMigrated'
<1>1. /\ phase \in [Worker -> {"down", "migrate", "apply", "schedule", "create", "serving"}]
      /\ version <= schema /\ version \in 0 .. LastMigration /\ schema \in 0 .. LastMigration
    BY DEF TypeInv, StartupTypeOK, MigrationInv
<1>2. ASSUME NEW p, Enter(w, p), schema = LastMigration => schema' = LastMigration,
             p \in {"schedule", "create", "serving"} => schema' = LastMigration
      PROVE  ServingMeansMigrated'
    <2>1. \A v \in Worker : phase'[v] = IF v = w THEN p ELSE phase[v]
        BY <1>1, <1>2 DEF Enter
    <2>2. QED
        BY <1>2, <2>1 DEF ServingMeansMigrated
<1>3. CASE Launch(w)
    BY <1>2, <1>3 DEF Launch, dbVars
<1>4. CASE ReadVersion(w)
    <2>1. Enter(w, IF version = LastMigration THEN "schedule" ELSE "apply") /\ schema' = schema
        BY <1>4 DEF ReadVersion, dbVars
    <2>2. version = LastMigration => schema = LastMigration
        BY <1>1 DEF LastMigration
    <2>3. QED
        BY <1>2, <2>1, <2>2
<1>5. CASE ApplyMigration(w)
    <2>1. schema = LastMigration => schema' = LastMigration
        BY <1>5 DEF ApplyMigration, CanApply, LastMigration, dbVars
    <2>2. Enter(w, "migrate") \/ Enter(w, "down")
        BY <1>5 DEF ApplyMigration
    <2>3. QED
        BY <1>2, <2>1, <2>2
<1>6. CASE DescribeSchedule(w)
    <2>1. schema = LastMigration /\ schema' = schema
        BY <1>6 DEF DescribeSchedule, ServingMeansMigrated, dbVars
    <2>2. Enter(w, "serving") \/ Enter(w, "down") \/ Enter(w, "create")
        BY <1>6 DEF DescribeSchedule
    <2>3. QED
        BY <1>2, <2>1, <2>2
<1>7. CASE CreateSchedule(w)
    <2>1. schema = LastMigration /\ schema' = schema
        BY <1>7 DEF CreateSchedule, ServingMeansMigrated, dbVars
    <2>2. Enter(w, "serving") \/ Enter(w, "down")
        BY <1>7 DEF CreateSchedule
    <2>3. QED
        BY <1>2, <2>1, <2>2
<1>8. CASE Crash(w)
    BY <1>2, <1>8 DEF Crash, dbVars
<1>9. QED
    BY <1>3, <1>4, <1>5, <1>6, <1>7, <1>8 DEF StartupStep

LEMMA NextServing ==
    ASSUME TypeInv, ServingMeansMigrated, [WorkNext]_workVars
    PROVE  ServingMeansMigrated'
<1>1. CASE UNCHANGED <<phase, schema>>
    BY <1>1 DEF ServingMeansMigrated
<1>2. CASE WorkStep
    BY <1>1, <1>2 DEF WorkStep, Poll, EmbedChunk, MissHeartbeat, TimeOut, startupVars, dbVars
<1>3. CASE Tick \/ Stall
    BY <1>1, <1>3 DEF Tick, Stall, TimePasses, startupVars, dbVars
<1>4. ASSUME NEW s \in Slot, EmbedFails(s) PROVE ServingMeansMigrated'
    BY <1>1, <1>4 DEF EmbedFails, dbVars
<1>5. ASSUME NEW w \in Worker, Start(w) \/ CrashWorker(w) PROVE ServingMeansMigrated'
    BY <1>5, StartKeepsServing DEF Start, CrashWorker
<1>6. CASE UNCHANGED workVars
    BY <1>1, <1>6 DEF workVars, startupVars, dbVars
<1>7. QED
    BY <1>2, <1>3, <1>4, <1>5, <1>6 DEF WorkNext

\* However many workers race through the migrations, lose transactions, record
\* old versions again and crash, none of them polls for activities before the
\* tables have had every migration.
THEOREM NoneServesTooEarly == WorkSpec => []ServingMeansMigrated
<1>1. WorkInit => ServingMeansMigrated
    BY DEF WorkInit, StartupInit, ServingMeansMigrated
<1>2. TypeInv /\ ServingMeansMigrated /\ [WorkNext]_workVars => ServingMeansMigrated'
    BY NextServing
<1>3. QED
    BY InitTypes, NextTypes, <1>1, <1>2, PTL DEF WorkSpec

(***************************************************************************)
(* The wait for Ollama.                                                    *)
(***************************************************************************)
Capped == config # Malformed /\ config.concurrency > 0

\* The slots a capped worker uses, and the longest round of their requests.
Allowed == Worker \X (1 .. config.concurrency)
LongestRound == Cardinality(Allowed) * EmbedTime

\* The time until the slot's request is answered, from the start of the first.
Turn(s) == (Cardinality(ahead[s]) + 1) * EmbedTime

CapInv ==
    Capped =>
        /\ config.concurrency \in Nat
        /\ \A s \in Slot : Busy(s) => s \in Allowed

\* Time since the last heartbeat and time until the answer make up at most one
\* round, but for what was spent on the first request and lost to stalls.
WaitInv ==
    Capped =>
        \A s \in Slot : Live(s) =>
            sinceBeat[exec[s].doc] + Turn(s) <= LongestRound + stalls + progress

\* Neither the file nor the environment gives a cap that is no number.
LEMMA LoadedConcurrency ==
    ASSUME NEW file \in ConfigFiles, NEW env \in Environments, Load(file, env) # Malformed
    PROVE  Load(file, env).concurrency \in Int
<1>1. /\ file # Malformed
      /\ ~("concurrency" \in DOMAIN env /\ env["concurrency"] = Malformed)
      /\ Load(file, env) =
            [x \in DOMAIN Defaults |->
                IF x \in DOMAIN env THEN env[x]
                ELSE IF x \in DOMAIN file THEN file[x] ELSE Defaults[x]]
    BY DEF Load
<1>2. "concurrency" \in DOMAIN file => file["concurrency"] \in Int
    BY <1>1, ConcurrencyIsInt
<1>3. "concurrency" \in DOMAIN env => env["concurrency"] \in Int
    BY <1>1, ConcurrencyIsInt
<1>4. "concurrency" \in DOMAIN Defaults /\ Defaults["concurrency"] \in Int
    BY DEF Defaults
<1>5. QED
    BY <1>1, <1>2, <1>3, <1>4

LEMMA TurnShrinks ==
    ASSUME NEW T, IsFiniteSet(T), NEW S \in SUBSET T
    PROVE  /\ Cardinality(S) \in Nat /\ Cardinality(T) \in Nat
           /\ (Cardinality(S) + 1) * EmbedTime <= (Cardinality(T) + 1) * EmbedTime
<1>1. /\ Cardinality(S) \in Nat /\ Cardinality(T) \in Nat
      /\ Cardinality(S) <= Cardinality(T)
    BY FS_Subset, FS_CardinalityType
<1>2. EmbedTime \in Nat
    BY Times
<1>3. \A m, n, e \in Nat : m <= n => (m + 1) * e <= (n + 1) * e
    OBVIOUS
<1>4. QED
    BY <1>1, <1>2, <1>3

LEMMA TurnShrinksByOne ==
    ASSUME NEW T, IsFiniteSet(T), NEW x \in T, NEW S \in SUBSET (T \ {x})
    PROVE  (Cardinality(S) + 1) * EmbedTime + EmbedTime <= (Cardinality(T) + 1) * EmbedTime
<1>1. /\ Cardinality(T \ {x}) = Cardinality(T) - 1
      /\ IsFiniteSet(T \ {x})
    BY FS_RemoveElement
<1>2. (Cardinality(S) + 1) * EmbedTime <= (Cardinality(T \ {x}) + 1) * EmbedTime
    BY <1>1, TurnShrinks
<1>3. Cardinality(T) \in Nat /\ EmbedTime \in Nat /\ Cardinality(S) \in Nat
    BY <1>1, TurnShrinks, FS_CardinalityType, Times
<1>4. \A n, e \in Nat : (n - 1 + 1) * e + e = (n + 1) * e
    OBVIOUS
<1>5. QED
    BY <1>1, <1>2, <1>3, <1>4

LEMMA Rounds ==
    ASSUME CapInv, Capped
    PROVE  /\ IsFiniteSet(Allowed)
           /\ Cardinality(Allowed) = config.concurrency * Cardinality(Worker)
           /\ Cardinality(Worker) \in Nat /\ config.concurrency \in Nat
           /\ LongestRound \in Nat
<1>1. /\ config.concurrency \in Nat
      /\ IsFiniteSet(1 .. config.concurrency)
      /\ Cardinality(1 .. config.concurrency) = config.concurrency
    <2>1. config.concurrency \in Nat /\ config.concurrency > 0
        BY DEF CapInv, Capped
    <2>2. \A n \in Nat : n > 0 => IsFiniteSet(1 .. n) /\ Cardinality(1 .. n) = n
        BY FS_Interval
    <2>3. QED
        BY <2>1, <2>2
<1>2. /\ IsFiniteSet(Allowed)
      /\ Cardinality(Allowed) = Cardinality(Worker) * config.concurrency
    BY <1>1, WorkersAreFinite, FS_Product DEF Allowed
<1>3. Cardinality(Worker) \in Nat
    BY WorkersAreFinite, FS_CardinalityType
<1>4. QED
    BY <1>1, <1>2, <1>3, Times DEF LongestRound

TurnsFit ==
    /\ LongestRound \in Nat
    /\ \A s \in Slot : Busy(s) => Turn(s) \in Nat /\ Turn(s) <= LongestRound

\* A busy slot and those before it all are slots the cap allows.
LEMMA QueueFits == QueueInv /\ CapInv /\ Capped => TurnsFit
<1> SUFFICES ASSUME QueueInv, CapInv, Capped, NEW s \in Slot, Busy(s)
             PROVE  Turn(s) \in Nat /\ Turn(s) <= LongestRound
    BY Rounds DEF TurnsFit
<1>1. ahead[s] \subseteq Allowed \ {s} /\ s \in Allowed
    BY DEF QueueInv, CapInv
<1>2. Turn(s) + EmbedTime <= (Cardinality(Allowed) + 1) * EmbedTime
    BY <1>1, Rounds, TurnShrinksByOne DEF Turn
<1>3. Cardinality(ahead[s]) \in Nat /\ Cardinality(Allowed) \in Nat /\ EmbedTime \in Nat
    BY <1>1, Rounds, TurnShrinks, Times
<1>4. Turn(s) \in Nat
    BY <1>3 DEF Turn
<1>5. (Cardinality(Allowed) + 1) * EmbedTime = LongestRound + EmbedTime
    BY <1>3 DEF LongestRound
<1>6. QED
    BY <1>2, <1>3, <1>4, <1>5, Rounds

LEMMA InitWait == WorkInit => CapInv /\ WaitInv
<1> SUFFICES ASSUME WorkInit PROVE CapInv /\ WaitInv
    OBVIOUS
<1>1. \A s \in Slot : ~Busy(s) /\ ~Live(s)
    BY DEF WorkInit, EmbedInit, Busy, Live, Idle
<1>2. Capped => config.concurrency \in Nat
    BY LoadedConcurrency DEF WorkInit, StartupInit, Capped
<1>3. QED
    BY <1>1, <1>2 DEF CapInv, WaitInv

LEMMA NextCap ==
    ASSUME AttemptInv, CapInv, [WorkNext]_workVars
    PROVE  CapInv' /\ (Capped' <=> Capped) /\ LongestRound' = LongestRound /\ Allowed' = Allowed
<1>1. (Capped' <=> Capped) /\ LongestRound' = LongestRound /\ Allowed' = Allowed
    BY StepCases DEF Capped, LongestRound, Allowed
<1>2. ASSUME Capped PROVE \A s \in Slot : Busy(s)' => s \in Allowed
    <2>1. CASE UNCHANGED embedVars
        BY <1>2, <2>1 DEF embedVars, CapInv, Busy
    <2>2. ASSUME NEW w \in Worker, NEW i \in 1 .. Unlimited, NEW d \in Doc, Poll(w, i, d)
          PROVE  \A s \in Slot : Busy(s)' => s \in Allowed
        <3>1. <<w, i>> \in Allowed
            <4>1. Cap = config.concurrency /\ config.concurrency \in Nat
                BY <1>2 DEF Cap, Capped, CapInv
            <4>2. i \in 1 .. config.concurrency
                BY <2>2, <4>1, Times DEF Poll
            <4>3. QED
                BY <4>2 DEF Allowed
        <3>2. QED
            BY <1>2, <2>2, <3>1, PollEffect DEF CapInv, Busy
    <2>3. ASSUME NEW s \in Slot, EmbedChunk(s) PROVE \A r \in Slot : Busy(r)' => r \in Allowed
        BY <1>2, <2>3, EmbedChunkEffect, AttemptsAreBusy DEF CapInv, Busy
    <2>4. ASSUME NEW d \in Doc, MissHeartbeat(d) PROVE \A s \in Slot : Busy(s)' => s \in Allowed
        BY <1>2, <2>4, MissHeartbeatEffect DEF CapInv
    <2>5. ASSUME NEW S \in SUBSET Slot, Freed(S) PROVE \A s \in Slot : Busy(s)' => s \in Allowed
        BY <1>2, <2>5 DEF Freed, Drop, CapInv, Busy
    <2>6. CASE Tick \/ Stall
        BY <1>2, <2>6, TimePassesEffect DEF Tick, Stall, CapInv
    <2>7. QED
        BY StepCases, <2>1, <2>2, <2>3, <2>4, <2>5, <2>6
<1>3. CapInv'
    BY <1>1, <1>2, StepCases DEF CapInv
<1>4. QED
    BY <1>1, <1>3

LEMMA LiveIsBusy ==
    ASSUME AttemptInv, NEW s \in Slot, Live(s)
    PROVE  /\ Busy(s) /\ exec[s] \in Attempts /\ exec[s].doc \in Doc
           /\ activity[exec[s].doc] = "started"
           /\ \A r \in Slot : Live(r) /\ exec[r].doc = exec[s].doc => r = s
<1>1. exec[s] \in Attempts
    BY AttemptStates DEF AttemptInv, Live
<1>2. QED
    BY <1>1, AttemptsAreBusy DEF AttemptInv, OneAttemptCounts, Busy, Attempts

\* A slot that keeps its attempt keeps its wait if others only leave the queue
\* before it: when the first one does, the next one's turn begins.
LEMMA WaitKept ==
    ASSUME AttemptInv, QueueInv, TimeTypes, CapInv, WaitInv, Capped, NEW s \in Slot, Live(s),
           sinceBeat'[exec[s].doc] = sinceBeat[exec[s].doc], stalls' = stalls,
           ahead'[s] \subseteq ahead[s],
           \/ progress' = progress
           \/ /\ progress' = 0
              /\ \E r \in Slot \ {s} : Served(r) /\ r \notin ahead'[s]
    PROVE  sinceBeat'[exec[s].doc] + Turn(s)' <= LongestRound + stalls' + progress'
<1> DEFINE beat == sinceBeat[exec[s].doc]
<1>1. /\ Busy(s) /\ beat \in Nat /\ stalls \in Nat
      /\ progress \in Nat /\ progress <= EmbedTime /\ EmbedTime \in Nat
    BY LiveIsBusy, Times DEF TimeTypes
<1>2. IsFiniteSet(ahead[s])
    BY SlotsAreFinite, FS_Subset DEF QueueInv
<1>3. /\ Turn(s)' <= Turn(s)
      /\ Turn(s)' \in Nat /\ Turn(s) \in Nat
    BY <1>1, <1>2, TurnShrinks DEF Turn
<1>4. beat + Turn(s) <= LongestRound + stalls + progress /\ LongestRound \in Nat
    BY Rounds DEF WaitInv
<1>5. CASE progress' = progress
    BY <1>1, <1>3, <1>4, <1>5
<1>6. CASE progress' = 0 /\ \E r \in Slot \ {s} : Served(r) /\ r \notin ahead'[s]
    <2>1. PICK r \in Slot \ {s} : Busy(r) /\ ahead[r] = {} /\ r \notin ahead'[s]
        BY <1>6 DEF Served
    <2>2. r \in ahead[s]
        BY <1>1, <2>1 DEF QueueInv
    <2>3. Turn(s)' + EmbedTime <= Turn(s)
        BY <1>2, <2>1, <2>2, TurnShrinksByOne DEF Turn
    <2>4. QED
        BY <1>1, <1>3, <1>4, <1>6, <2>3
<1>7. QED
    BY <1>5, <1>6

\* A slot whose attempt starts or has just heartbeat waits a round at most.
LEMMA FreshWait ==
    ASSUME QueueInv', CapInv', Capped', TimeTypes', NEW s \in Slot, Busy(s)',
           sinceBeat'[exec'[s].doc] = 0
    PROVE  sinceBeat'[exec'[s].doc] + Turn(s)' <= (LongestRound + stalls + progress)'
<1>1. TurnsFit'
    BY QueueFits, PTL
<1>2. (LongestRound \in Nat /\ Turn(s) \in Nat /\ Turn(s) <= LongestRound)'
    BY <1>1 DEF TurnsFit
<1>3. (stalls \in Nat /\ progress \in Nat)'
    BY Times DEF TimeTypes
<1>4. QED
    BY <1>2, <1>3

LEMMA PollWait ==
    ASSUME TypeInv, TypeInv', CapInv, CapInv', WaitInv, Capped, Capped',
           LongestRound' = LongestRound,
           NEW w \in Worker, NEW i \in 1 .. Unlimited, NEW d \in Doc, Poll(w, i, d)
    PROVE  WaitInv'
<1> DEFINE new == <<w, i>>
<1>1. /\ new \in Slot /\ Busy(new)' /\ exec'[new] = Attempt("live", d, 0, 0)
      /\ \A s \in Slot \ {new} : exec'[s] = exec[s]
    BY PollEffect DEF TypeInv
<1>2. /\ activity[d] = "queued" /\ sinceBeat' = [sinceBeat EXCEPT ![d] = 0]
      /\ Asks(new) /\ UNCHANGED <<progress, stalls>>
    BY DEF Poll
<1> HIDE DEF new
<1>3. sinceBeat'[exec'[new].doc] = 0
    BY <1>1, <1>2 DEF Attempt, TypeInv, TimeTypes
<1>4. sinceBeat'[exec'[new].doc] + Turn(new)' <= (LongestRound + stalls + progress)'
    BY <1>1, <1>3, FreshWait DEF TypeInv
<1>5. ASSUME NEW s \in Slot \ {new}, Live(s)'
      PROVE  sinceBeat'[exec'[s].doc] + Turn(s)' <= (LongestRound + stalls + progress)'
    <2>1. Live(s) /\ exec'[s] = exec[s]
        BY <1>1, <1>5 DEF Live
    <2>2. exec[s].doc \in Doc \ {d}
        BY <1>2, <2>1, LiveIsBusy DEF TypeInv
    <2>3. sinceBeat'[exec[s].doc] = sinceBeat[exec[s].doc]
        BY <1>2, <2>2 DEF TypeInv, TimeTypes
    <2>4. ahead'[s] \subseteq ahead[s]
        BY <1>2 DEF Asks
    <2>5. sinceBeat'[exec[s].doc] + Turn(s)' <= LongestRound + stalls' + progress'
        BY <1>2, <2>1, <2>3, <2>4, WaitKept DEF TypeInv
    <2>6. QED
        BY <2>1, <2>5
<1>6. QED
    BY <1>4, <1>5 DEF WaitInv

LEMMA EmbedChunkWait ==
    ASSUME TypeInv, TypeInv', CapInv, CapInv', WaitInv, Capped, Capped',
           LongestRound' = LongestRound, NEW s \in Slot, EmbedChunk(s)
    PROVE  WaitInv'
<1>1. /\ Served(s) /\ progress' = 0 /\ stalls' = stalls
      /\ Asks(s) \/ Leave({s})
    BY DEF EmbedChunk, Answered
<1>2. \A r \in Slot \ {s} : exec'[r] = exec[r] /\ ahead'[r] = ahead[r] \ {s}
    BY <1>1, EmbedChunkEffect DEF TypeInv, Asks, Leave
<1>3. ASSUME NEW r \in Slot \ {s}, Live(r)'
      PROVE  sinceBeat'[exec'[r].doc] + Turn(r)' <= (LongestRound + stalls + progress)'
    <2>1. Live(r) /\ exec'[r] = exec[r]
        BY <1>2, <1>3 DEF Live
    <2>2. Live(s) => exec[s].doc # exec[r].doc
        BY <2>1, LiveIsBusy DEF TypeInv
    <2>3. sinceBeat'[exec[r].doc] = sinceBeat[exec[r].doc]
        BY <2>2 DEF EmbedChunk, TypeInv, TimeTypes
    <2>4. sinceBeat'[exec[r].doc] + Turn(r)' <= LongestRound + stalls' + progress'
        BY <1>1, <1>2, <2>1, <2>3, WaitKept DEF TypeInv
    <2>5. QED
        BY <2>1, <2>4
<1>4. ASSUME Live(s)'
      PROVE  sinceBeat'[exec'[s].doc] + Turn(s)' <= (LongestRound + stalls + progress)'
    <2>1. Live(s) /\ Busy(s)' /\ exec'[s].doc = exec[s].doc
        <3>1. exec'[s] # Idle
            BY <1>4 DEF Live, Idle
        <3>2. QED
            BY <3>1, EmbedChunkEffect DEF TypeInv
    <2>2. sinceBeat'[exec'[s].doc] = 0
        BY <2>1, LiveIsBusy DEF EmbedChunk, TypeInv, TimeTypes
    <2>3. QED
        BY <2>1, <2>2, FreshWait DEF TypeInv
<1>5. QED
    BY <1>3, <1>4 DEF WaitInv

\* When the slots are freed that were first, the next one's turn begins.
LEMMA FreedWait ==
    ASSUME TypeInv, CapInv, WaitInv, Capped, LongestRound' = LongestRound,
           NEW S \in SUBSET Slot, Freed(S)
    PROVE  WaitInv'
<1> SUFFICES ASSUME NEW s \in Slot, Live(s)'
             PROVE  sinceBeat'[exec'[s].doc] + Turn(s)' <= (LongestRound + stalls + progress)'
    BY DEF WaitInv
<1>1. Live(s) /\ exec'[s] = exec[s] /\ s \notin S
    BY DEF Freed, Drop, Live, Idle
<1>2. /\ ahead'[s] = ahead[s] \ S /\ UNCHANGED <<sinceBeat, stalls>>
      /\ progress' = IF \E r \in S : Served(r) THEN 0 ELSE progress
    BY <1>1 DEF Freed, Drop, Leave
<1>3. \/ progress' = progress
      \/ /\ progress' = 0
         /\ \E r \in Slot \ {s} : Served(r) /\ r \notin ahead'[s]
    BY <1>1, <1>2
<1>4. sinceBeat'[exec[s].doc] + Turn(s)' <= LongestRound + stalls' + progress'
    BY <1>1, <1>2, <1>3, WaitKept DEF TypeInv
<1>5. QED
    BY <1>1, <1>4

\* A tick is spent on the first request or lost to a stall.
LEMMA ClockWait ==
    ASSUME TypeInv, WaitInv, Capped, CapInv, LongestRound' = LongestRound, Tick \/ Stall
    PROVE  WaitInv'
<1> SUFFICES ASSUME NEW s \in Slot, Live(s)'
             PROVE  sinceBeat'[exec'[s].doc] + Turn(s)' <= (LongestRound + stalls + progress)'
    BY DEF WaitInv
<1> DEFINE d == exec[s].doc
<1>1. TimePasses
    BY DEF Tick, Stall
<1>2. Live(s)
    BY <1>1, TimePassesEffect DEF TypeInv
<1>3. Busy(s) /\ d \in Doc /\ activity[d] = "started"
    BY <1>2, LiveIsBusy DEF TypeInv
<1>4. exec'[s].doc = d
    BY <1>1, <1>3, TimePassesEffect DEF TypeInv
<1>5. sinceBeat'[d] = sinceBeat[d] + 1 /\ Turn(s)' = Turn(s)
    BY <1>1, <1>3 DEF TimePasses, Turn
<1>6. progress' + stalls' = progress + stalls + 1
    BY <1>3, Times DEF Tick, Stall, Working, TypeInv, TimeTypes
<1>7. sinceBeat[d] + Turn(s) <= LongestRound + stalls + progress
    BY <1>2 DEF WaitInv
<1>8. /\ sinceBeat[d] \in Nat /\ Turn(s) \in Nat /\ LongestRound \in Nat
      /\ progress \in Nat /\ stalls \in Nat /\ progress' \in Int /\ stalls' \in Int
    BY <1>3, QueueFits, Times DEF TurnsFit, TypeInv, TimeTypes, Tick, Stall
<1>9. QED
    BY <1>4, <1>5, <1>6, <1>7, <1>8

LEMMA NextWait ==
    TypeInv /\ CapInv /\ WaitInv /\ [WorkNext]_workVars => CapInv' /\ WaitInv'
<1> SUFFICES ASSUME TypeInv, CapInv, WaitInv, [WorkNext]_workVars
             PROVE  CapInv' /\ WaitInv'
    OBVIOUS
<1>1. TypeInv' /\ CapInv' /\ (Capped' <=> Capped) /\ LongestRound' = LongestRound
    BY NextTypes, NextCap DEF TypeInv
<1>2. CASE ~Capped
    BY <1>1, <1>2 DEF WaitInv
<1>3. CASE Capped
    <2>1. CASE UNCHANGED embedVars
        BY <1>1, <2>1 DEF embedVars, WaitInv, Live, Turn
    <2>2. ASSUME NEW w \in Worker, NEW i \in 1 .. Unlimited, NEW d \in Doc, Poll(w, i, d)
          PROVE  WaitInv'
        BY <1>1, <1>3, <2>2, PollWait
    <2>3. ASSUME NEW s \in Slot, EmbedChunk(s) PROVE WaitInv'
        BY <1>1, <1>3, <2>3, EmbedChunkWait
    <2>4. ASSUME NEW d \in Doc, MissHeartbeat(d) PROVE WaitInv'
        BY <1>1, <1>3, <2>4, MissHeartbeatEffect DEF WaitInv, TypeInv, MissHeartbeat, Live, Turn
    <2>5. ASSUME NEW S \in SUBSET Slot, Freed(S) PROVE WaitInv'
        BY <1>1, <1>3, <2>5, FreedWait
    <2>6. CASE Tick \/ Stall
        BY <1>1, <1>3, <2>6, ClockWait
    <2>7. QED
        BY <1>1, StepCases, <2>1, <2>2, <2>3, <2>4, <2>5, <2>6
<1>4. QED
    BY <1>1, <1>2, <1>3

LEMMA WaitsAreBounded == TypeInv /\ CapInv /\ WaitInv => BeatsInTime
<1> SUFFICES ASSUME TypeInv, CapInv, WaitInv, Capped, NEW s \in Slot, Live(s)
             PROVE  sinceBeat[exec[s].doc] <=
                        config.concurrency * Cardinality(Worker) * EmbedTime + stalls
    BY DEF BeatsInTime, Capped
<1>1. Busy(s) /\ exec[s].doc \in Doc
    BY LiveIsBusy DEF TypeInv
<1>2. /\ sinceBeat[exec[s].doc] \in Nat /\ stalls \in Nat
      /\ progress \in Nat /\ progress <= EmbedTime
    BY <1>1, Times DEF TypeInv, TimeTypes
<1>3. Cardinality(ahead[s]) \in Nat /\ EmbedTime \in Nat
    BY SlotsAreFinite, FS_Subset, FS_CardinalityType, Times DEF TypeInv, QueueInv
<1>4. Turn(s) \in Nat /\ EmbedTime <= Turn(s)
    <2>1. \A n, e \in Nat : (n + 1) * e \in Nat /\ e <= (n + 1) * e
        OBVIOUS
    <2>2. QED
        BY <1>3, <2>1 DEF Turn
<1>5. sinceBeat[exec[s].doc] + Turn(s) <= LongestRound + stalls + progress
    BY DEF WaitInv
<1>6. LongestRound \in Nat
    BY Rounds
<1>7. sinceBeat[exec[s].doc] <= LongestRound + stalls
    BY <1>2, <1>3, <1>4, <1>5, <1>6
<1>8. LongestRound = config.concurrency * Cardinality(Worker) * EmbedTime
    BY Rounds DEF LongestRound
<1>9. QED
    BY <1>7, <1>8

\* However many workers, documents and given-up attempts there are, a running
\* attempt is never longer without a heartbeat than the cap allows.
THEOREM TheCapBoundsTheWait == WorkSpec => []BeatsInTime
<1> DEFINE Inv == TypeInv /\ CapInv /\ WaitInv
<1>1. WorkInit => Inv
    BY InitTypes, InitWait
<1>2. Inv /\ [WorkNext]_workVars => Inv'
    BY NextTypes, NextWait
<1>3. Inv => BeatsInTime
    BY WaitsAreBounded
<1>4. QED
    BY <1>1, <1>2, <1>3, PTL DEF WorkSpec

=============================================================================
