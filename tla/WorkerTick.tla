------------------------------ MODULE WorkerTick ------------------------------
(***************************************************************************)
(* Ticks of the job worker in one isolate (job-worker/handler.ts): claim a *)
(* handful of jobs, hand back the inline submits there is no room for, run *)
(* the rest side by side, drain the notifications.  Ticks overlap and      *)
(* share one counter of inline submits; other isolates claim jobs too.     *)
(*                                                                         *)
(* What a run does is JobDispatch's; here it ends, somehow, at some time.  *)
(* Left out: the scheduler's secret, and what is logged.                   *)
(***************************************************************************)
EXTENDS Naturals, FiniteSets

CONSTANTS
    Jobs,      \* 1..n, in the order they fall due
    Inline,    \* those of families whose adapters answer inline
    Ticks,     \* ticks this isolate serves at once
    Nobody, Elsewhere,
    JobLimit,  \* jobs a tick claims
    MaxInlineSubmits,
    MaxFailures   \* calls that fail, and deaths of the isolate

(* What is asked of them.                                                  *)
ConstantsFit ==
    /\ IsFiniteSet(Jobs) /\ Jobs \subseteq Nat
    /\ IsFiniteSet(Ticks)
    /\ MaxInlineSubmits \in Nat

VARIABLES
    jobs,            \* state, and whose lease is live
    ticks,           \* per tick: where it is in runTick
    runs,            \* per tick: the jobs whose runOne has not returned
    inlineInFlight,
    failures

workerVars == <<jobs, ticks, runs, inlineInFlight, failures>>

(* todo: the jobs claimed, still to be admitted or handed back.            *)
NoTick == [at |-> "idle", todo |-> {}, admitted |-> {}, slotted |-> {}]

Init ==
    /\ jobs \in [Jobs -> [state : {"ready", "submitted"}, lease : {Nobody}]]
    /\ ticks = [t \in Ticks |-> NoTick]
    /\ runs = [t \in Ticks |-> {}]
    /\ inlineInFlight = 0 /\ failures = 0

Failure == failures < MaxFailures /\ failures' = failures + 1

At(t, step) == ticks[t].at = step
Goes(t, state) == ticks' = [ticks EXCEPT ![t] = state]

Due == {j \in Jobs : jobs[j].lease = Nobody /\ jobs[j].state # "done"}
Batch == {j \in Due : Cardinality({i \in Due : i < j}) < JobLimit}

Leased(j, holder) == [jobs EXCEPT ![j].lease = holder]

(* fn_claim_jobs, then the generations.  The second read may fail: the     *)
(* jobs stay leased and the tick is over.                                  *)
claimJobs(t) ==
    /\ At(t, "idle") /\ Due # {}
    /\ jobs' = [j \in Jobs |-> IF j \in Batch THEN [jobs[j] EXCEPT !.lease = t] ELSE jobs[j]]
    /\ \/ /\ Goes(t, [NoTick EXCEPT !.at = "admit", !.todo = Batch])
          /\ UNCHANGED failures
       \/ Failure /\ UNCHANGED ticks
    /\ UNCHANGED <<runs, inlineInFlight>>

isInlineSubmit(j) == j \in Inline /\ jobs[j].state = "ready"

(* Mutant of Room: the cap is counted per tick.                            *)
RoomInTick(t) == Cardinality(ticks[t].slotted) < MaxInlineSubmits

Room(t) == inlineInFlight < MaxInlineSubmits

(* Jobs are admitted in the order they were claimed.                       *)
IsNext(t, j) == j \in ticks[t].todo /\ \A i \in ticks[t].todo : j <= i

(* deferExcessInline: its loop waits only where it hands a job back.       *)
Admit(t, j) ==
    LET me == ticks[t] IN
    /\ At(t, "admit") /\ IsNext(t, j)
    /\ \/ /\ ~isInlineSubmit(j)
          /\ Goes(t, [me EXCEPT !.todo = @ \ {j}, !.admitted = @ \cup {j}])
          /\ UNCHANGED inlineInFlight
       \/ /\ isInlineSubmit(j) /\ Room(t)
          /\ inlineInFlight' = inlineInFlight + 1
          /\ Goes(t, [me EXCEPT !.todo = @ \ {j}, !.admitted = @ \cup {j},
                                !.slotted = @ \cup {j}])
       \/ /\ isInlineSubmit(j) /\ ~Room(t)
          /\ Goes(t, [me EXCEPT !.at = "defer"])
          /\ UNCHANGED inlineInFlight
    /\ UNCHANGED <<jobs, runs, failures>>

Defer(t, j) ==
    /\ At(t, "defer") /\ IsNext(t, j)
    /\ Goes(t, [ticks[t] EXCEPT !.at = "admit", !.todo = @ \ {j}])
    /\ \/ jobs' = (IF jobs[j].lease = t THEN Leased(j, Nobody) ELSE jobs) /\ UNCHANGED failures
       \/ Failure /\ UNCHANGED jobs
    /\ UNCHANGED <<runs, inlineInFlight>>

(* Promise.all: every admitted job starts, and the heartbeats with them.   *)
StartRuns(t) ==
    /\ At(t, "admit") /\ ticks[t].todo = {}
    /\ Goes(t, [ticks[t] EXCEPT !.at = "run"])
    /\ runs' = [runs EXCEPT ![t] = ticks[t].admitted]
    /\ UNCHANGED <<jobs, inlineInFlight, failures>>

(* Mutant of SlotsBack: only a run that returns gives its slot back.       *)
SlotsBackOnReturn(t, j, threw) == IF j \in ticks[t].slotted /\ ~threw THEN 1 ELSE 0

SlotsBack(t, j, threw) == IF j \in ticks[t].slotted THEN 1 ELSE 0

(* runJob returns, throws, or is aborted at the budget; a run that lost    *)
(* its lease can write nothing.                                            *)
RunEnds(t, j, state, threw) ==
    /\ j \in runs[t]
    /\ IF jobs[j].lease = t
         THEN jobs' = [jobs EXCEPT ![j] = [state |-> state, lease |-> IF threw THEN t ELSE Nobody]]
         ELSE UNCHANGED jobs
    /\ runs' = [runs EXCEPT ![t] = @ \ {j}]
    /\ inlineInFlight' = inlineInFlight - SlotsBack(t, j, threw)
    /\ Goes(t, [ticks[t] EXCEPT !.slotted = @ \ {j}])
    /\ IF threw THEN Failure ELSE UNCHANGED failures

(* drainNotifications, whose failures end here too.                        *)
Drain(t) ==
    /\ At(t, "run") /\ runs[t] = {}
    /\ Goes(t, NoTick)
    /\ UNCHANGED <<jobs, runs, inlineInFlight, failures>>

(* A lease lapses where no heartbeat renews it, or where one goes missing. *)
LeaseLapses(j) ==
    /\ jobs[j].lease # Nobody
    /\ jobs' = Leased(j, Nobody)
    /\ IF \E t \in Ticks : j \in runs[t] /\ jobs[j].lease = t THEN Failure
       ELSE UNCHANGED failures
    /\ UNCHANGED <<ticks, runs, inlineInFlight>>

(* Another isolate claims a job, and leaves it as it likes.                *)
ClaimedElsewhere(j) ==
    /\ j \in Due /\ jobs' = Leased(j, Elsewhere)
    /\ UNCHANGED <<ticks, runs, inlineInFlight, failures>>

ReleasedElsewhere(j, state) ==
    /\ jobs[j].lease = Elsewhere
    /\ jobs' = [jobs EXCEPT ![j] = [state |-> state, lease |-> Nobody]]
    /\ UNCHANGED <<ticks, runs, inlineInFlight, failures>>

(* The platform ends the isolate; the next one counts from nothing.        *)
IsolateDies ==
    /\ Failure
    /\ ticks' = [t \in Ticks |-> NoTick] /\ runs' = [t \in Ticks |-> {}]
    /\ inlineInFlight' = 0
    /\ UNCHANGED jobs

Next ==
    \/ \E t \in Ticks :
         \/ claimJobs(t) \/ StartRuns(t) \/ Drain(t)
         \/ \E j \in Jobs : Admit(t, j) \/ Defer(t, j)
         \/ \E j \in Jobs, state \in {"ready", "submitted", "done"}, threw \in BOOLEAN :
               RunEnds(t, j, state, threw)
    \/ \E j \in Jobs : LeaseLapses(j) \/ ClaimedElsewhere(j)
    \/ \E j \in Jobs, state \in {"ready", "submitted", "done"} : ReleasedElsewhere(j, state)
    \/ IsolateDies

Spec == Init /\ [][Next]_workerVars

-----------------------------------------------------------------------------
Slotted == {p \in Ticks \X Jobs : p[2] \in ticks[p[1]].slotted}

(* Over all the ticks an isolate is serving, no more inline submits hold a *)
(* whole image than the cap allows, and every slot taken is still some     *)
(* run's to give back: a run that throws, a deferral that fails and a lost *)
(* lease neither leak a slot nor free one twice.                           *)
SlotsAreHeld ==
    /\ inlineInFlight = Cardinality(Slotted)
    /\ inlineInFlight <= MaxInlineSubmits
=============================================================================
