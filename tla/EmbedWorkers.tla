---------------------------- MODULE EmbedWorkers ----------------------------
(***************************************************************************)
(* EmbedAndUpsert in time: several workers poll the task queue, embed the  *)
(* chunks of their documents one by one with the one Ollama, heartbeat     *)
(* after each, and are given up by Temporal when they are too slow.        *)
(*                                                                         *)
(* Ollama (external) serves one request after another.  Temporal           *)
(* (external) starts an attempt over when no heartbeat came for            *)
(* HeartbeatTimeout or it ran for StartToClose; the SDK cancels a running  *)
(* attempt at that age, while one that missed a heartbeat is not told      *)
(* before its next one.  Time is a Tick; everything that can be done at a  *)
(* moment is done before time goes on.                                     *)
(***************************************************************************)
EXTENDS WorkerStartup

CONSTANTS
    Doc,                \* documents whose EmbedAndUpsert is scheduled
    Chunks,             \* Doc -> number of chunks
    EmbedTime,          \* ticks Ollama takes for a chunk
    HeartbeatTimeout,   \* 30 s
    StartToClose,       \* 5 min
    Unlimited,          \* activities at once without a cap (SDK default)
    MaxStalls           \* bound: ticks in which Ollama does not get on

ASSUME Times ==
    /\ EmbedTime \in Nat \ {0} /\ HeartbeatTimeout \in Nat \ {0}
    /\ StartToClose \in Nat \ {0} /\ Unlimited \in Nat \ {0} /\ MaxStalls \in Nat
    /\ Chunks \in [Doc -> Nat \ {0}]

VARIABLES
    activity,       \* Temporal: Doc -> "queued", "started" or "done"
    sinceBeat,      \* Temporal: Doc -> ticks since its start or last heartbeat
    exec,           \* Slot -> the attempt that runs there, or Idle
    ahead,          \* Ollama: Slot -> the slots whose requests it serves before
    progress,       \* Ollama: ticks spent on the first request
    stalls          \* ticks lost so far
embedVars == <<activity, sinceBeat, exec, ahead, progress, stalls>>
workVars == <<startupVars, embedVars>>

\* A worker executes each activity in a slot of its own.
Slot == Worker \X (1 .. Unlimited)
Idle == [state |-> "idle"]
Attempt(s, d, n, a) == [state |-> s, doc |-> d, done |-> n, age |-> a]
Busy(s) == exec[s] # Idle
Live(s) == exec[s].state = "live"

\* Mutant: the worker is built without the cap.
NoCap == IF config = Malformed THEN 0 ELSE Unlimited

\* MaxConcurrentActivityExecutionSize; the SDK takes 0 for no cap.
Cap ==
    IF config = Malformed THEN 0
    ELSE IF config.concurrency = 0 THEN Unlimited ELSE config.concurrency

EmbedInit ==
    /\ activity = [d \in Doc |-> "queued"]
    /\ sinceBeat = [d \in Doc |-> 0]
    /\ exec = [s \in Slot |-> Idle]
    /\ ahead = [s \in Slot |-> {}]
    /\ progress = 0
    /\ stalls = 0

EmbedTypeOK ==
    /\ StartupTypeOK
    /\ activity \in [Doc -> {"queued", "started", "done"}]
    /\ sinceBeat \in [Doc -> 0 .. HeartbeatTimeout]
    /\ \A s \in Slot : Busy(s) =>
            /\ exec[s].state \in {"live", "given up"}
            /\ exec[s].doc \in Doc
            /\ exec[s].done \in 0 .. Chunks[exec[s].doc] - 1
            /\ exec[s].age \in 0 .. StartToClose
    /\ ahead \in [Slot -> SUBSET Slot]
    /\ progress \in 0 .. EmbedTime
    /\ stalls \in 0 .. MaxStalls

\* Ollama's queue: the busy slots wait, each for those that asked before it.
Asks(s) ==
    ahead' = [r \in Slot |-> IF r = s THEN {q \in Slot \ {s} : Busy(q)} ELSE ahead[r] \ {s}]

Leave(S) == ahead' = [s \in Slot |-> IF s \in S THEN {} ELSE ahead[s] \ S]

\* A free slot takes a task from the queue and asks Ollama for its first chunk.
Poll(w, i, d) ==
    /\ phase[w] = "serving"
    /\ i <= Cap
    /\ ~Busy(<<w, i>>)
    /\ activity[d] = "queued"
    /\ activity' = [activity EXCEPT ![d] = "started"]
    /\ sinceBeat' = [sinceBeat EXCEPT ![d] = 0]
    /\ exec' = [exec EXCEPT ![<<w, i>>] = Attempt("live", d, 0, 0)]
    /\ Asks(<<w, i>>)
    /\ UNCHANGED <<progress, stalls, startupVars>>

Working == \E s \in Slot : Busy(s)
Served(s) == Busy(s) /\ ahead[s] = {}
Answered(s) == Served(s) /\ progress = EmbedTime

\* Mutant: no heartbeat is recorded.
EmbedChunkSilently(s) ==
    LET e == exec[s]
        last == e.done + 1 = Chunks[e.doc]
    IN  /\ Answered(s)
        /\ progress' = 0
        /\ IF Live(s) /\ ~last
           THEN /\ exec' = [exec EXCEPT ![s].done = @ + 1]
                /\ Asks(s)
           ELSE /\ exec' = [exec EXCEPT ![s] = Idle]
                /\ Leave({s})
        /\ activity' = IF Live(s) /\ last THEN [activity EXCEPT ![e.doc] = "done"] ELSE activity
        /\ UNCHANGED <<sinceBeat, stalls, startupVars>>

\* Embed returns and the heartbeat is recorded.  An attempt that was given up
\* learns so and ends; the last chunk of the others ends with the upsert.
EmbedChunk(s) ==
    LET e == exec[s]
        last == e.done + 1 = Chunks[e.doc]
    IN  /\ Answered(s)
        /\ progress' = 0
        /\ IF Live(s) /\ ~last
           THEN /\ exec' = [exec EXCEPT ![s].done = @ + 1]
                /\ Asks(s)
           ELSE /\ exec' = [exec EXCEPT ![s] = Idle]
                /\ Leave({s})
        /\ sinceBeat' = IF Live(s) THEN [sinceBeat EXCEPT ![e.doc] = 0] ELSE sinceBeat
        /\ activity' = IF Live(s) /\ last THEN [activity EXCEPT ![e.doc] = "done"] ELSE activity
        /\ UNCHANGED <<stalls, startupVars>>

\* The slots S are freed and their requests dropped; a live attempt that ended
\* there with an error is retried.
Drop(S) ==
    /\ exec' = [s \in Slot |-> IF s \in S THEN Idle ELSE exec[s]]
    /\ Leave(S)
    /\ progress' = IF \E s \in S : Served(s) THEN 0 ELSE progress

Retried(S) ==
    activity' = [d \in Doc |->
        IF \E s \in S : Live(s) /\ exec[s].doc = d THEN "queued" ELSE activity[d]]

\* Embed returns an error: no connection, a status, an empty embedding.
EmbedFails(s) ==
    /\ Served(s)
    /\ Fault
    /\ Drop({s})
    /\ Retried({s})
    /\ UNCHANGED <<config, phase, seen, dbVars, oldRows, schedule, sinceBeat, stalls>>

\* Mutant: the timeout is noticed a tick late.
HeartbeatMissedLate(d) == activity[d] = "started" /\ sinceBeat[d] > HeartbeatTimeout

\* No heartbeat came in time: of a slow attempt, or of one that is gone.
HeartbeatMissed(d) == activity[d] = "started" /\ sinceBeat[d] = HeartbeatTimeout

\* The server gives an attempt up, if it still runs without telling it.
MissHeartbeat(d) ==
    /\ HeartbeatMissed(d)
    /\ activity' = [activity EXCEPT ![d] = "queued"]
    /\ exec' = [s \in Slot |-> IF Live(s) /\ exec[s].doc = d
                               THEN [exec[s] EXCEPT !.state = "given up"] ELSE exec[s]]
    /\ UNCHANGED <<sinceBeat, ahead, progress, stalls, startupVars>>

TooOld(s) == Busy(s) /\ exec[s].age = StartToClose

\* The deadline of the attempt's context: its request is cancelled with it.
TimeOut(s) ==
    /\ TooOld(s)
    /\ Drop({s})
    /\ Retried({s})
    /\ UNCHANGED <<sinceBeat, stalls, startupVars>>

\* A dying worker takes its attempts along; the server learns nothing.
CrashWorker(w) ==
    /\ Crash(w)
    /\ Drop({w} \X (1 .. Unlimited))
    /\ UNCHANGED <<activity, sinceBeat, stalls>>

\* Time goes on when nothing is left to do now.
Urgent ==
    \/ \E d \in Doc : HeartbeatMissed(d)
    \/ \E s \in Slot : Answered(s) \/ TooOld(s)
    \/ \E w \in Worker, i \in 1 .. Unlimited :
          /\ phase[w] = "serving" /\ i <= Cap /\ ~Busy(<<w, i>>)
          /\ \E d \in Doc : activity[d] = "queued"

TimePasses ==
    /\ ~Urgent
    /\ sinceBeat' = [d \in Doc |-> IF activity[d] = "started" THEN sinceBeat[d] + 1
                                                              ELSE sinceBeat[d]]
    /\ exec' = [s \in Slot |-> IF Busy(s) THEN [exec[s] EXCEPT !.age = @ + 1] ELSE Idle]
    /\ UNCHANGED <<activity, ahead, startupVars>>

Tick ==
    /\ TimePasses
    /\ progress' = IF Working THEN progress + 1 ELSE 0
    /\ UNCHANGED stalls

\* A tick in which Ollama does not get on.
Stall ==
    /\ TimePasses
    /\ Working
    /\ stalls < MaxStalls
    /\ stalls' = stalls + 1
    /\ UNCHANGED progress

Start(w) == StartupStep(w) /\ UNCHANGED embedVars

WorkStep ==
    \/ \E d \in Doc : MissHeartbeat(d)
    \/ \E s \in Slot : EmbedChunk(s) \/ TimeOut(s)
    \/ \E w \in Worker, i \in 1 .. Unlimited, d \in Doc : Poll(w, i, d)

WorkInit == StartupInit /\ EmbedInit

WorkNext ==
    \/ WorkStep
    \/ Tick
    \/ Stall
    \/ \E s \in Slot : EmbedFails(s)
    \/ \E w \in Worker : Start(w) \/ CrashWorker(w)

\* Time goes on, what is due is done, and a worker that is down is launched
\* again and goes on with its startup.
WorkFairness ==
    /\ WF_workVars(Tick)
    /\ WF_workVars(WorkStep)
    /\ \A w \in Worker : WF_workVars(Start(w))

WorkSpec == WorkInit /\ [][WorkNext]_workVars
FairWorkSpec == WorkSpec /\ WorkFairness

(***************************************************************************)
(* Properties.                                                             *)
(***************************************************************************)
\* The cap "bounds how many activities run at once": with one, the requests
\* before one's own are bounded, and so is the time between two heartbeats of
\* a running attempt, whatever crashes, retries and attempts that were given
\* up but do not know it yet.
BeatsInTime ==
    config # Malformed /\ config.concurrency > 0 =>
        \A s \in Slot : Live(s) =>
            sinceBeat[exec[s].doc] <=
                config.concurrency * Cardinality(Worker) * EmbedTime + stalls

\* "durability is the whole point": every document is embedded in the end,
\* unless no worker can start.
DocumentsAreEmbedded ==
    <>(\A d \in Doc : activity[d] = "done") \/ ~Startable \/ <>[](Tied \/ Rewound)
=============================================================================
