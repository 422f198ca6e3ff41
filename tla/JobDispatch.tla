----------------------------- MODULE JobDispatch -----------------------------
(***************************************************************************)
(* One generation job from its reservation to its settlement: the jobs row *)
(* and its lease, the worker runs that claim it, the provider they talk    *)
(* to, the object they store, the cancel route, the cron sweeps and the    *)
(* operator (_shared/jobs/dispatch.ts, lease.ts, store.ts, settlement.ts,  *)
(* job-worker/, api/services/jobs.ts, migrations 0020, 0026 and 0029).     *)
(*                                                                         *)
(* Jobs share nothing but the worker's capacity, so one row is enough.     *)
(* Every claim starts a run under a fresh lease token, and everything a    *)
(* run does is named by it: its provider request, and the key of the       *)
(* object it writes (mediaKey).  A step is one call that leaves the        *)
(* isolate, with the code that runs on its answer up to the next call.     *)
(* A call to the database may go unanswered, whether or not it arrived.    *)
(*                                                                         *)
(* Time is abstracted: a lease lapses when it likes, a job is runnable     *)
(* whenever it is not leased (next_run_at), and thumbnails, progress and   *)
(* alerts, which decide nothing, are left out.                             *)
(*                                                                         *)
(* A definition under "Mutant of" is that definition with a bug put in;    *)
(* it stands for no code, and shows that a property can fail.              *)
(***************************************************************************)
EXTENDS Naturals, Sequences

CONSTANTS
    Tokens,             \* lease tokens, one per worker run at a time
    NoToken,            \* the null lease
    NoRef,              \* no provider reference
    InlineRef,          \* the reference of an inline answer, 'inline'
    AnswersInline,      \* the family's adapter answers on the submit connection
    Lookup,             \* the provider can be asked about our dispatch key
    Charged,            \* the buckets the generation was charged from
    MaxInlineSubmits,   \* attempts an inline job gets at an erring provider
    MaxStoreAttempts,   \* attempts a result gets at being stored
    FaultBudget,        \* faults the environment has left at the start
    FaultCost           \* 1, or 0 for an environment whose faults never end

ASSUME DispatchAssumption ==
    /\ NoToken \notin Tokens
    /\ {NoRef, InlineRef} \cap Tokens = {}
    /\ NoRef # InlineRef
    /\ AnswersInline \in BOOLEAN
    /\ Lookup \in BOOLEAN
    /\ MaxInlineSubmits \in Nat \ {0}
    /\ MaxStoreAttempts \in Nat \ {0}
    /\ FaultBudget \in Nat
    /\ FaultCost \in {0, 1}

VARIABLES
    row,                \* the jobs row
    gen,                \* the generations row
    refunded,           \* buckets with a refund row in ledger_entries
    outbox,             \* events of the generation's notification_outbox rows
    run,                \* what the worker run holding each token is doing
    route,              \* the cancel route's request
    prov,               \* what became of each run's request at the provider
    obj,                \* what became of each run's media object
    settledBy,          \* history: who settled the generation
    faults              \* how many more faults the environment has

vars == <<row, gen, refunded, outbox, run, route, prov, obj, settledBy, faults>>

-----------------------------------------------------------------------------
(* The rows, and what a run carries between its steps.                     *)

States == {"ready", "submitting", "submitted", "reconciling", "done"}
Refs == Tokens \cup {NoRef, InlineRef}

(* Every reason a settlement is given (jobs.error).                        *)
Reasons == {"cancelled", "payload_unavailable", "rejected", "answered_error",
            "no_answer", "provider_failed", "denied", "store_failed",
            "inline_submit_interrupted"}

FailureCodes == {"cancelled", "timeout", "provider_error", "generation_failed"}

(* settleFailed's callers name a failure code for four of the reasons;     *)
(* fn_settle_job writes generation_failed for the rest.                    *)
CodeOf(why) ==
    CASE why = "cancelled"                                    -> "cancelled"
      [] why = "answered_error"                               -> "provider_error"
      [] why \in {"no_answer", "inline_submit_interrupted"}   -> "timeout"
      [] OTHER                                                -> "generation_failed"

(* past: INLINE_OWNER_GONE_AFTER_S have gone by since progress_at.         *)
(* save: whether save_lease_token is null, this lease's or an older one's. *)
Rows == [state : States, token : Tokens \cup {NoToken}, live : BOOLEAN,
         ref : Refs, cancel : BOOLEAN, past : BOOLEAN,
         submits : 0 .. MaxInlineSubmits, polls : 0 .. MaxStoreAttempts,
         attempts : 0 .. MaxStoreAttempts,
         save : {"free", "held", "stale"}, error : Reasons \cup {"none"}]

Calls == {"over", "begin", "payload", "send", "answer", "record", "count",
          "cancel", "check", "tally", "lookup", "claimsave", "store",
          "keep", "drop", "retry", "unclaim", "giveup", "status", "handover",
          "release", "fail"}

Runs == [pc : Calls, state : States, ref : Refs, cancel : BOOLEAN,
         submits : 0 .. MaxInlineSubmits, polls : 0 .. MaxStoreAttempts,
         to : States, found : Refs, why : Reasons \cup {"none"}]

Over == [pc |-> "over", state |-> "ready", ref |-> NoRef, cancel |-> FALSE,
         submits |-> 0, polls |-> 0, to |-> "ready", found |-> NoRef,
         why |-> "none"]

TypeOK ==
    /\ row \in Rows
    /\ gen \in [status : {"pending", "done", "failed"},
                media : Tokens \cup {NoToken},
                code : FailureCodes \cup {"none"}]
    /\ refunded \in SUBSET Charged
    /\ outbox \in Seq({"generation_done", "generation_failed"})
    /\ run \in [Tokens -> Runs]
    /\ route \in [pc : {"idle", "mark", "settle"}, untouched : BOOLEAN]
    /\ prov \in [Tokens -> {"none", "sent", "running", "succeeded", "failed", "stopped"}]
    /\ obj \in [Tokens -> {"absent", "staged", "stored", "queued"}]
    /\ settledBy \in {"nobody", "worker", "route"}
    /\ faults \in 0 .. FaultBudget

(* fn_reserve_generation inserts the generation, pending, and its job,     *)
(* ready, in the transaction that charges for it.                          *)
Init ==
    /\ row = [state |-> "ready", token |-> NoToken, live |-> FALSE,
              ref |-> NoRef, cancel |-> FALSE, past |-> FALSE, submits |-> 0,
              polls |-> 0, attempts |-> 0, save |-> "free", error |-> "none"]
    /\ gen = [status |-> "pending", media |-> NoToken, code |-> "none"]
    /\ refunded = {}
    /\ outbox = <<>>
    /\ run = [t \in Tokens |-> Over]
    /\ route = [pc |-> "idle", untouched |-> FALSE]
    /\ prov = [t \in Tokens |-> "none"]
    /\ obj = [t \in Tokens |-> "absent"]
    /\ settledBy = "nobody"
    /\ faults = FaultBudget

-----------------------------------------------------------------------------
(* Building blocks.                                                        *)

Fault == faults # 0 /\ faults' = faults - FaultCost

UpTo(max, n) == IF n < max THEN n ELSE max      \* counters saturate

At(t, call) == run[t].pc = call
Become(t, r) == run' = [run EXCEPT ![t] = r]
Goto(t, call) == [run[t] EXCEPT !.pc = call]

(* The next call is releaseJob, back to a state, with a reference or none. *)
Release(t, state) == [run[t] EXCEPT !.pc = "release", !.to = state]

(* The next call is settleFailed, after which the run is over.             *)
Fail(t, why) == [run[t] EXCEPT !.pc = "fail", !.why = why]

(* The trigger of fn_track_job_progress, on every update of the row.       *)
Write(new) ==
    LET progressed ==
            \/ /\ new.state # row.state
               /\ ~({new.state, row.state} \subseteq {"submitting", "reconciling"})
            \/ new.ref # row.ref
    IN row' = [new EXCEPT !.past = new.past /\ ~progressed]

(* The where clause of every fenced update.                                *)
Holds(t) == row.token = t /\ row.live

(* A fenced update as the run sees it: it learns whether it applied, or    *)
(* gets an error that does not tell (callBoolean).                         *)
Call(t, applies, new, yes, no, error) ==
    \/ /\ Write(IF applies THEN new ELSE row)
       /\ Become(t, IF applies THEN yes ELSE no)
       /\ UNCHANGED faults
    \/ /\ Fault
       /\ \E arrived \in BOOLEAN : Write(IF arrived /\ applies THEN new ELSE row)
       /\ Become(t, error)

(* Mutant of Catch: a submit that threw is taken never to have arrived.    *)
CatchAsUnsent(t) == Release(t, "ready")

(* The catch block of submitJob around everything after the payload, for   *)
(* an error that carries no provider status (afterFailedSubmit).           *)
Catch(t) ==
    IF AnswersInline THEN Fail(t, "no_answer") ELSE Release(t, "reconciling")

-----------------------------------------------------------------------------
(* fn_settle_job                                                           *)

(* Mutants of MaySettle: a lapsed lease settles; a settled job does.       *)
MaySettleLapsed(caller) == gen.status = "pending" /\ row.token = caller
MaySettleAgain(caller) == caller # NoToken => row.token = caller /\ row.live

MaySettle(caller) ==
    /\ gen.status = "pending"
    /\ row.token = caller
    /\ caller # NoToken => row.live

SettleDone(t) ==
    /\ gen' = [status |-> "done", media |-> t, code |-> "none"]
    /\ Write([row EXCEPT !.state = "done", !.token = NoToken, !.live = FALSE])
    /\ outbox' = Append(outbox, "generation_done")
    /\ settledBy' = "worker"
    /\ UNCHANGED refunded

SettleFailed(why, who) ==
    /\ gen' = [gen EXCEPT !.status = "failed", !.code = CodeOf(why)]
    /\ Write([row EXCEPT !.state = "done", !.token = NoToken, !.live = FALSE,
                         !.error = why])
    /\ refunded' = refunded \cup Charged
    /\ outbox' = IF why = "cancelled" THEN outbox
                                      ELSE Append(outbox, "generation_failed")
    /\ settledBy' = who

Unsettled == UNCHANGED <<row, gen, refunded, outbox, settledBy>>

TryFailed(caller, why, who) ==
    IF MaySettle(caller) THEN SettleFailed(why, who) ELSE Unsettled

-----------------------------------------------------------------------------
(* Claiming, and what a run makes of the row it was given (runJob).        *)

(* gen_random_uuid(): a token that names no run, request or object that    *)
(* still matters, so that runs may follow one another without end.         *)
Fresh(t) == At(t, "over") /\ row.ref # t /\ gen.media # t /\ prov[t] = "none"

(* Mutant of Abandoned: the owner's window is not waited for.              *)
AbandonedAtOnce(r) ==
    [r EXCEPT !.pc = "fail",
              !.why = IF r.cancel THEN "cancelled" ELSE "inline_submit_interrupted"]

Abandoned(r) ==
    IF ~row.past THEN [r EXCEPT !.pc = "release", !.to = "reconciling"]
    ELSE [r EXCEPT !.pc = "fail",
                   !.why = IF r.cancel THEN "cancelled" ELSE "inline_submit_interrupted"]

Poll(r) ==
    CASE r.ref = NoRef     -> [r EXCEPT !.pc = "release", !.to = "reconciling"]
      [] r.ref = InlineRef -> Abandoned(r)
      [] OTHER             -> [r EXCEPT !.pc = "count"]

Reconcile(r) ==
    IF r.ref = InlineRef \/ AnswersInline THEN Abandoned(r)
    ELSE IF r.ref # NoRef THEN Poll(r)
    ELSE [r EXCEPT !.pc = "tally"]

Begin(r) ==
    CASE r.state = "ready" /\ r.cancel -> [r EXCEPT !.pc = "fail", !.why = "cancelled"]
      [] r.state = "submitted" -> Poll(r)
      [] r.state \in {"submitting", "reconciling"} -> Reconcile(r)
      [] OTHER -> [r EXCEPT !.pc = "begin"]

Claimed ==
    [Over EXCEPT !.state = row.state, !.ref = row.ref, !.cancel = row.cancel,
                 !.submits = row.submits, !.polls = row.polls]

(* Mutant of Claim: a lapsed lease is not claimable until a sweep clears it. *)
ClaimUnleased(t) ==
    /\ Fresh(t)
    /\ row.state # "done" /\ row.token = NoToken
    /\ row' = [row EXCEPT !.token = t, !.live = TRUE,
                          !.save = IF row.save = "free" THEN "free" ELSE "stale"]
    /\ Become(t, Begin(Claimed))
    /\ obj' = [obj EXCEPT ![t] = "absent"]
    /\ UNCHANGED <<gen, refunded, outbox, route, prov, settledBy, faults>>

(* fn_claim_jobs, then runJob up to its first call; the third disjunct is  *)
(* deferExcessInline, which hands a job it has no inline slot for back.    *)
Claim(t) ==
    /\ Fresh(t)
    /\ row.state # "done"
    /\ row.token = NoToken \/ ~row.live
    /\ row' = [row EXCEPT !.token = t, !.live = TRUE,
                          !.save = IF row.save = "free" THEN "free" ELSE "stale"]
    /\ \/ Become(t, Begin(Claimed)) /\ UNCHANGED faults
       \/ /\ AnswersInline /\ row.state = "ready" /\ ~row.cancel
          /\ Become(t, [Claimed EXCEPT !.pc = "release", !.to = "ready"])
          /\ Fault
    /\ obj' = [obj EXCEPT ![t] = "absent"]
    /\ UNCHANGED <<gen, refunded, outbox, route, prov, settledBy>>

Settled == <<gen, refunded, outbox, settledBy>>

-----------------------------------------------------------------------------
(* submitJob                                                               *)

(* fn_begin_submit: no updated row means no remote call.                   *)
BeginSubmit(t) ==
    /\ At(t, "begin")
    /\ Call(t, Holds(t) /\ row.state = "ready",
            [row EXCEPT !.state = "submitting",
                        !.submits = UpTo(MaxInlineSubmits, row.submits + 1)],
            Goto(t, "payload"), Over, Over)
    /\ UNCHANGED <<Settled, route, prov, obj>>

ResolvePayload(t) ==
    /\ At(t, "payload")
    /\ Become(t, Goto(t, "send")) \/ Become(t, Fail(t, "payload_unavailable"))
    /\ UNCHANGED <<row, Settled, route, prov, obj, faults>>

Send(t) ==
    /\ At(t, "send")
    /\ prov' = [prov EXCEPT ![t] = "sent"]
    /\ Become(t, Goto(t, "answer"))
    /\ UNCHANGED <<row, Settled, route, obj, faults>>

(* The provider took the request: an async one answers with a reference,   *)
(* an inline one with the image.                                           *)
Accepted(t) ==
    /\ At(t, "answer")
    /\ prov[t] \in IF AnswersInline THEN {"succeeded"}
                   ELSE {"running", "succeeded", "failed"}
    /\ Become(t, Goto(t, "record"))
    /\ UNCHANGED <<row, Settled, route, prov, obj, faults>>

(* A terminal rejection: the provider never started (rejectedOutright).    *)
Rejected(t) ==
    /\ At(t, "answer")
    /\ prov[t] \in IF AnswersInline THEN {"sent", "running", "failed"} ELSE {"sent"}
    /\ prov' = [prov EXCEPT ![t] = "none"]
    /\ Become(t, Fail(t, "rejected"))
    /\ UNCHANGED <<row, Settled, route, obj, faults>>

(* Mutant of AnsweredError: the attempts are never counted.                *)
AnsweredErrorForEver(t) ==
    /\ At(t, "answer")
    /\ AnswersInline
    /\ prov[t] \in {"sent", "running", "failed"}
    /\ prov' = [prov EXCEPT ![t] = "none"]
    /\ Become(t, Release(t, "ready"))
    /\ UNCHANGED <<row, Settled, route, obj, faults>>

(* An inline provider answered with a retryable status: it made nothing.   *)
AnsweredError(t) ==
    /\ At(t, "answer")
    /\ AnswersInline
    /\ prov[t] \in {"sent", "running", "failed"}
    /\ prov' = [prov EXCEPT ![t] = "none"]
    /\ Become(t, IF run[t].submits + 1 < MaxInlineSubmits
                 THEN Release(t, "ready") ELSE Fail(t, "answered_error"))
    /\ UNCHANGED <<row, Settled, route, obj, faults>>

(* A dropped connection, the tick's deadline or, for an async provider, a  *)
(* retryable status: the request may have been taken.                      *)
NoAnswer(t) ==
    /\ At(t, "answer")
    /\ Fault
    /\ Become(t, Catch(t))
    /\ UNCHANGED <<row, Settled, route, prov, obj>>

(* fn_record_provider_ref; an inline result goes on to be stored.          *)
RecordRef(t) ==
    LET ref == IF AnswersInline THEN InlineRef ELSE t IN
    /\ At(t, "record")
    /\ Call(t, Holds(t), [row EXCEPT !.ref = ref],
            IF AnswersInline THEN Goto(t, "store")
            ELSE [run[t] EXCEPT !.pc = "handover", !.to = "submitted", !.found = t],
            Over, Catch(t))
    /\ UNCHANGED <<Settled, route, prov, obj>>

-----------------------------------------------------------------------------
(* releaseJob and settleFailed                                             *)

Released(t) ==
    [row EXCEPT !.state = run[t].to, !.token = NoToken, !.live = FALSE,
                !.ref = IF run[t].found = NoRef THEN row.ref ELSE run[t].found]

(* handover: a release inside submitJob's try block, whose error is caught. *)
ReleaseJob(t) ==
    /\ \/ At(t, "release") /\ Call(t, Holds(t), Released(t), Over, Over, Over)
       \/ /\ At(t, "handover")
          /\ Call(t, Holds(t), Released(t), Over, Over,
                  [Catch(t) EXCEPT !.found = NoRef])
    /\ UNCHANGED <<Settled, route, prov, obj>>

(* The settlement that ends a run: applied, refused, or unanswered.        *)
FailJob(t) ==
    /\ At(t, "fail")
    /\ \/ TryFailed(t, run[t].why, "worker") /\ UNCHANGED faults
       \/ Unsettled /\ Fault
    /\ Become(t, Over)
    /\ UNCHANGED <<route, prov, obj>>

-----------------------------------------------------------------------------
(* pollJob                                                                 *)

CountPoll(t) ==
    /\ At(t, "count")
    /\ Call(t, Holds(t), [row EXCEPT !.polls = UpTo(MaxStoreAttempts, row.polls + 1)],
            Goto(t, IF run[t].cancel THEN "cancel" ELSE "check"), Over, Over)
    /\ UNCHANGED <<Settled, route, prov, obj>>

(* Mutant of CancelWithProvider: asking to stop counts as having stopped.  *)
CancelOnAnyAnswer(t) ==
    LET r == run[t].ref IN
    /\ At(t, "cancel")
    /\ \/ prov[r] = "running" /\ prov' = [prov EXCEPT ![r] = "stopped"]
       \/ UNCHANGED prov
    /\ Become(t, Fail(t, "cancelled"))
    /\ UNCHANGED <<row, Settled, route, obj, faults>>

(* Only a provider that confirmed it stopped earns a refund.               *)
CancelWithProvider(t) ==
    LET r == run[t].ref IN
    /\ At(t, "cancel")
    /\ \/ /\ prov[r] = "running"
          /\ prov' = [prov EXCEPT ![r] = "stopped"]
          /\ \/ Become(t, Fail(t, "cancelled")) /\ UNCHANGED faults
             \/ Become(t, Goto(t, "check")) /\ Fault
       \/ Become(t, Goto(t, "check")) /\ UNCHANGED <<prov, faults>>
    /\ UNCHANGED <<row, Settled, route, obj>>

CheckRunning(t) ==
    /\ At(t, "check")
    /\ prov[run[t].ref] = "running"
    /\ Become(t, Release(t, "submitted"))
    /\ UNCHANGED <<row, Settled, route, prov, obj, faults>>

CheckUnavailable(t) ==
    /\ At(t, "check")
    /\ Fault
    /\ Become(t, Release(t, "submitted"))
    /\ UNCHANGED <<row, Settled, route, prov, obj>>

CheckFailed(t) ==
    /\ At(t, "check")
    /\ \/ prov[run[t].ref] = "failed" /\ Become(t, Fail(t, "provider_failed"))
       \/ prov[run[t].ref] = "stopped" /\ Become(t, Fail(t, "cancelled"))
    /\ UNCHANGED <<row, Settled, route, prov, obj, faults>>

(* A 4xx that says nothing about the request, such as a revoked key: the   *)
(* adapters and classifyProviderError make a terminal failure of it too.   *)
CheckDenied(t) ==
    /\ At(t, "check")
    /\ Fault
    /\ Become(t, Fail(t, "denied"))
    /\ UNCHANGED <<row, Settled, route, prov, obj>>

CheckSucceeded(t) ==
    /\ At(t, "check")
    /\ prov[run[t].ref] = "succeeded"
    /\ Become(t, Goto(t, "claimsave"))
    /\ UNCHANGED <<row, Settled, route, prov, obj, faults>>

-----------------------------------------------------------------------------
(* reconcileJob                                                            *)

(* Proof that no request of ours reached the provider, and none still can. *)
NeverSent ==
    \A t \in Tokens : prov[t] = "none" /\ run[t].pc \notin {"payload", "send"}

(* fn_count_reconciliation; its count decides only when to alert.          *)
TallyReconciliation(t) ==
    /\ At(t, "tally")
    /\ Call(t, Holds(t) /\ row.state \in {"submitting", "reconciling"}, row,
            Goto(t, "lookup"), Over, Over)
    /\ UNCHANGED <<Settled, route, prov, obj>>

Reconciled(t) ==
    /\ At(t, "lookup")
    /\ \/ Become(t, Release(t, "reconciling"))
       \/ Lookup /\ NeverSent /\ Become(t, Release(t, "ready"))
       \/ /\ Lookup
          /\ \E r \in Tokens :
               /\ prov[r] \in {"running", "succeeded", "failed", "stopped"}
               /\ Become(t, [Release(t, "submitted") EXCEPT !.found = r])
    /\ UNCHANGED <<row, Settled, route, prov, obj, faults>>

-----------------------------------------------------------------------------
(* finishJob and finishOrRetry                                             *)

(* Mutant of ClaimSave: a claim left by a dead run still holds.            *)
ClaimSaveOnce(t) ==
    /\ At(t, "claimsave")
    /\ Call(t, Holds(t) /\ row.state # "done" /\ row.save = "free",
            [row EXCEPT !.save = "held"],
            Goto(t, "store"), Goto(t, "status"), Goto(t, "status"))
    /\ UNCHANGED <<Settled, route, prov, obj>>

(* fn_claim_job_save.                                                      *)
ClaimSave(t) ==
    /\ At(t, "claimsave")
    /\ Call(t, Holds(t) /\ row.state # "done" /\ row.save # "held",
            [row EXCEPT !.save = "held"],
            Goto(t, "store"), Goto(t, "status"), Goto(t, "status"))
    /\ UNCHANGED <<Settled, route, prov, obj>>

(* Mutant of StoreObject: the result is kept though the write failed.      *)
StoreObjectBlindly(t) ==
    /\ At(t, "store")
    /\ \/ obj' = [obj EXCEPT ![t] = "stored"] /\ UNCHANGED faults
       \/ /\ Fault
          /\ \E left \in {"absent", "staged", "stored"} : obj' = [obj EXCEPT ![t] = left]
    /\ Become(t, Goto(t, "keep"))
    /\ UNCHANGED <<row, Settled, route, prov>>

(* putObject registers the object, then writes it.                         *)
StoreObject(t) ==
    /\ At(t, "store")
    /\ \/ /\ obj' = [obj EXCEPT ![t] = "stored"]
          /\ Become(t, Goto(t, "keep"))
          /\ UNCHANGED faults
       \/ /\ Fault
          /\ \E left \in {"absent", "staged", "stored"} : obj' = [obj EXCEPT ![t] = left]
          /\ Become(t,
               IF AnswersInline THEN [Goto(t, "giveup") EXCEPT !.why = "store_failed"]
               ELSE IF run[t].polls + 1 >= MaxStoreAttempts
               THEN [Goto(t, "giveup") EXCEPT !.why = "store_failed"]
               ELSE Goto(t, "retry"))
    /\ UNCHANGED <<row, Settled, route, prov>>

(* budgetFor could not read the generation: nothing is settled on a guess. *)
UnknownBudget(t) ==
    /\ At(t, "store")
    /\ Fault
    /\ Become(t, Goto(t, IF AnswersInline THEN "status" ELSE "unclaim"))
    /\ UNCHANGED <<row, Settled, route, prov, obj>>

(* settleStored: won, lost, or unknown, which is not the same as lost.     *)
KeepResult(t) ==
    /\ At(t, "keep")
    /\ \/ /\ MaySettle(t)
          /\ SettleDone(t)
          /\ \/ Become(t, Goto(t, "status")) /\ UNCHANGED faults
             \/ Become(t, Goto(t, IF AnswersInline THEN "status" ELSE "unclaim")) /\ Fault
       \/ ~MaySettle(t) /\ Unsettled /\ Become(t, Goto(t, "drop")) /\ UNCHANGED faults
       \/ /\ Unsettled /\ Fault
          /\ Become(t, Goto(t, IF AnswersInline THEN "status" ELSE "unclaim"))
    /\ UNCHANGED <<route, prov, obj>>

(* dropLostObject: only a read that proves the row points elsewhere.       *)
DropLostObject(t) ==
    /\ At(t, "drop")
    /\ \/ /\ obj' = [obj EXCEPT ![t] = IF gen.media = t THEN "stored" ELSE "queued"]
          /\ UNCHANGED faults
       \/ Fault /\ UNCHANGED obj
    /\ Become(t, Goto(t, "status"))
    /\ UNCHANGED <<row, Settled, route, prov>>

(* releaseClaim, with the attempts of retryOrFail or without.              *)
ReleaseClaim(t) ==
    /\ run[t].pc \in {"retry", "unclaim"}
    /\ Call(t, Holds(t),
            [row EXCEPT !.save = "free",
                        !.attempts = IF At(t, "unclaim") THEN @
                                     ELSE UpTo(MaxStoreAttempts, run[t].polls + 1)],
            Goto(t, "status"), Goto(t, "status"), Over)
    /\ UNCHANGED <<Settled, route, prov, obj>>

(* failJob inside the finisher, which returns to finishOrRetry.            *)
GiveUp(t) ==
    /\ At(t, "giveup")
    /\ \/ /\ TryFailed(t, "store_failed", "worker")
          /\ Become(t, Goto(t, "status"))
          /\ UNCHANGED faults
       \/ /\ TryFailed(t, "store_failed", "worker") \/ Unsettled
          /\ Fault
          /\ Become(t, IF AnswersInline THEN Catch(t) ELSE Over)
    /\ UNCHANGED <<route, prov, obj>>

(* Mutant of ReadStatus: the finisher is assumed to have settled.          *)
AssumeSettled(t) ==
    /\ At(t, "status")
    /\ Become(t, [Goto(t, IF AnswersInline THEN "handover" ELSE "release") EXCEPT
                    !.to = "done"])
    /\ UNCHANGED <<row, Settled, route, prov, obj, faults>>

(* finishOrRetry reads the finisher's decision rather than assuming it.    *)
ReadStatus(t) ==
    LET call == IF AnswersInline THEN "handover" ELSE "release" IN
    /\ At(t, "status")
    /\ \/ /\ Become(t, [Goto(t, call) EXCEPT
                          !.to = IF gen.status = "pending" THEN "submitted" ELSE "done"])
          /\ UNCHANGED faults
       \/ Fault /\ Become(t, Over)
    /\ UNCHANGED <<row, Settled, route, prov, obj>>

-----------------------------------------------------------------------------
(* The cancel route                                                        *)

(* cancelGeneration reads the generation, then its job.                    *)
RouteRead ==
    /\ route.pc = "idle"
    /\ gen.status = "pending" /\ row.error = "none"
    /\ route' = [pc |-> "mark",
                 untouched |-> row.state = "ready" /\ row.token = NoToken /\ row.ref = NoRef]
    /\ UNCHANGED <<row, Settled, run, prov, obj, faults>>

(* The durable request, whatever became of the row since it was read; then *)
(* work that looked untouched is settled by the route itself.              *)
RouteMark ==
    /\ route.pc = "mark"
    /\ row' = [row EXCEPT !.cancel = TRUE]
    /\ route' = IF route.untouched THEN [route EXCEPT !.pc = "settle"]
                                   ELSE [pc |-> "idle", untouched |-> FALSE]
    /\ UNCHANGED <<Settled, run, prov, obj, faults>>

RouteSettle ==
    /\ route.pc = "settle"
    /\ TryFailed(NoToken, "cancelled", "route")
    /\ route' = [pc |-> "idle", untouched |-> FALSE]
    /\ UNCHANGED <<run, prov, obj, faults>>

(* A write that failed, or an isolate that died.                           *)
RouteDies ==
    /\ route.pc # "idle"
    /\ Fault
    /\ route' = [pc |-> "idle", untouched |-> FALSE]
    /\ UNCHANGED <<row, Settled, run, prov, obj>>

-----------------------------------------------------------------------------
(* The sweeps and the operator                                             *)

(* Mutant of ExpireLease: a lapsed job starts over.                        *)
RequeueLapsed ==
    /\ row.token # NoToken /\ ~row.live
    /\ Write([row EXCEPT !.token = NoToken, !.state = "ready"])
    /\ UNCHANGED <<Settled, run, route, prov, obj, faults>>

(* fn_expire_leases clears a lapsed lease, and only the lease.             *)
ExpireLease ==
    /\ row.token # NoToken /\ ~row.live
    /\ row' = [row EXCEPT !.token = NoToken]
    /\ UNCHANGED <<Settled, run, route, prov, obj, faults>>

(* The reconcile_stale_jobs cron.                                          *)
ReconcileStale ==
    /\ gen.status = "pending"
    /\ row.state \in {"submitting", "submitted"}
    /\ row.token = NoToken
    /\ Write([row EXCEPT !.state = "reconciling"])
    /\ UNCHANGED <<Settled, run, route, prov, obj, faults>>

(* fn_resolve_uncertain_job, given evidence that is true.                  *)
Resolve(state, ref) ==
    /\ row.state \in {"submitting", "reconciling"}
    /\ ~row.live
    /\ Write([row EXCEPT !.state = state, !.ref = ref, !.token = NoToken,
                         !.save = "free"])
    /\ UNCHANGED <<Settled, run, route, prov, obj, faults>>

ResolveReference ==
    /\ ~AnswersInline
    /\ \E r \in Tokens :
         /\ prov[r] \in {"running", "succeeded", "failed", "stopped"}
         /\ Resolve("submitted", r)

ResolveNotSubmitted ==
    row.ref = NoRef /\ NeverSent /\ Resolve("ready", NoRef)

-----------------------------------------------------------------------------
(* The environment                                                         *)

(* An isolate dies, or its run is never started (claimJobs threw).         *)
Crash(t) ==
    /\ ~At(t, "over")
    /\ Fault
    /\ Become(t, Over)
    /\ UNCHANGED <<row, Settled, route, prov, obj>>

(* A lease lapses once nobody renews it, or in spite of its heartbeat.     *)
Lapse ==
    /\ row.live
    /\ row' = [row EXCEPT !.live = FALSE]
    /\ IF At(row.token, "over") THEN UNCHANGED faults ELSE Fault
    /\ UNCHANGED <<Settled, run, route, prov, obj>>

(* INLINE_OWNER_GONE_AFTER_S exceeds the longest life of an isolate: when  *)
(* it has gone by, a run that submitted is over.                           *)
WindowPasses ==
    /\ AnswersInline /\ ~row.past
    /\ \A t \in Tokens : At(t, "over") \/ run[t].state # "ready"
    /\ row' = [row EXCEPT !.past = TRUE]
    /\ UNCHANGED <<Settled, run, route, prov, obj, faults>>

(* The provider: a request in flight arrives or is lost; a render ends.    *)
Provider(t) ==
    /\ \/ prov[t] = "sent" /\ prov' = [prov EXCEPT ![t] = "running"] /\ UNCHANGED faults
       \/ /\ prov[t] = "sent" /\ Fault
          /\ ~At(t, "answer")
          /\ prov' = [prov EXCEPT ![t] = "none"]
       \/ /\ prov[t] = "running"
          /\ \E end \in {"succeeded", "failed"} : prov' = [prov EXCEPT ![t] = end]
          /\ UNCHANGED faults
    /\ UNCHANGED <<row, Settled, run, route, obj>>

-----------------------------------------------------------------------------

Submitting(t) ==
    \/ BeginSubmit(t) \/ ResolvePayload(t) \/ Send(t)
    \/ Accepted(t) \/ Rejected(t) \/ AnsweredError(t) \/ NoAnswer(t)
    \/ RecordRef(t)

Polling(t) ==
    \/ CountPoll(t) \/ CancelWithProvider(t)
    \/ CheckRunning(t) \/ CheckUnavailable(t) \/ CheckFailed(t)
    \/ CheckDenied(t) \/ CheckSucceeded(t)
    \/ TallyReconciliation(t) \/ Reconciled(t)

Finishing(t) ==
    \/ ClaimSave(t) \/ StoreObject(t) \/ UnknownBudget(t) \/ KeepResult(t)
    \/ DropLostObject(t) \/ ReleaseClaim(t) \/ GiveUp(t) \/ ReadStatus(t)

Ending(t) == ReleaseJob(t) \/ FailJob(t)

RunStep(t) == Submitting(t) \/ Polling(t) \/ Finishing(t) \/ Ending(t)

Route == RouteRead \/ RouteMark \/ RouteSettle \/ RouteDies
Sweep == ExpireLease \/ ReconcileStale
Operator == ResolveReference \/ ResolveNotSubmitted

Next ==
    \/ \E t \in Tokens : Claim(t) \/ RunStep(t) \/ Crash(t) \/ Provider(t)
    \/ Route \/ Sweep \/ Operator
    \/ Lapse \/ WindowPasses

Spec == Init /\ [][Next]_vars

(* The cron drives the worker and a run's calls return; a lease nobody     *)
(* renews lapses; the provider finishes what it took.                      *)
Fairness ==
    /\ WF_vars(\E t \in Tokens : Claim(t))
    /\ \A t \in Tokens : WF_vars(RunStep(t)) /\ WF_vars(Provider(t))
    /\ WF_vars(Lapse /\ At(row.token, "over"))
    /\ WF_vars(WindowPasses)

FairSpec == Spec /\ Fairness

-----------------------------------------------------------------------------
(* Safety                                                                  *)

(* The provider may be rendering, or has rendered, this run's request.     *)
Rendering(t) == prov[t] \in {"sent", "running", "succeeded"}

(* A generation is never rendered, and so never billed to us, twice,       *)
(* whatever runs crashed or lost their lease around the submit.            *)
AtMostOneRender ==
    \A s, t \in Tokens : Rendering(s) /\ Rendering(t) => s = t

(* A job goes back to ready only when no request of an earlier run is at   *)
(* the provider or can still get there: ready is what resubmits.           *)
ReadyMeansUnsent == row.state = "ready" => NeverSent

(* The worker refunds an async job only once nothing runs at the provider, *)
(* except on a poll that was denied (see PollRefundsOnlyStoppedWork).      *)
WorkerRefundsOnlyStoppedWork ==
    ~AnswersInline /\ settledBy = "worker" /\ gen.status = "failed"
        /\ row.error # "denied"
        => \A t \in Tokens : prov[t] \notin {"sent", "running"}

(* A done generation names an object that was stored and that no losing    *)
(* run handed to the cleanup worker.                                       *)
DoneHasObject ==
    gen.status = "done" => gen.media \in Tokens /\ obj[gen.media] = "stored"

(* The job is finished exactly when its generation is: a job done too soon *)
(* leaves a paid generation pending for ever, one done too late runs on.   *)
JobEndsWithGeneration == row.state = "done" <=> gen.status # "pending"

(* An abandoned inline job is refunded only when no run can still bring    *)
(* the image home (settleAbandonedInline).                                 *)
AbandonedHasNoOwner ==
    row.error = "inline_submit_interrupted" =>
        \A t \in Tokens : run[t].pc \notin {"answer", "record", "store", "keep"}

(* A run that lost its lease changes neither the rows nor the ledger.      *)
StaleRunsAreMute ==
    [][\A t \in Tokens :
         run[t].pc # "over" /\ run'[t] # run[t] /\ ~(row.token = t /\ row.live)
            => UNCHANGED <<row, gen, refunded, outbox>>]_vars

(* The job implements the promise of Settlement.                           *)
Promise == INSTANCE Settlement WITH status <- gen.status, code <- gen.code
PromiseKept == Promise!Spec

-----------------------------------------------------------------------------
(* What the code says of itself, and does not do                           *)

(* api/services/jobs.ts: work that never left the building has nothing     *)
(* running and nothing billing us, so the route may refund it itself.      *)
RouteRefundsOnlyUnsentWork ==
    ~AnswersInline /\ settledBy = "route"
        => \A t \in Tokens : prov[t] \notin {"sent", "running"}

(* dispatch.ts: only a provider that answered that the request is not a    *)
(* thing makes a failed poll terminal.                                     *)
PollRefundsOnlyStoppedWork ==
    row.error = "denied" => \A t \in Tokens : prov[t] # "running"

(* store.ts: a store is retried MaxStoreAttempts times before the job is   *)
(* failed, so the attempts before the last are on the row.                 *)
StoreIsRetried ==
    ~AnswersInline /\ row.error = "store_failed"
        => row.attempts >= MaxStoreAttempts - 1

-----------------------------------------------------------------------------
(* Liveness                                                                *)

(* A job whose provider reference was recorded is settled, with no help.   *)
KnownReferenceSettles == row.ref \in Tokens ~> gen.status # "pending"

(* An inline generation is settled in the end, with no help.               *)
EveryGenerationEnds == <>(gen.status # "pending")

(* Any generation is, given an operator who keeps answering the jobs_stuck *)
(* alerts between the worker's leases.                                     *)
AttendedGenerationEnds == SF_vars(Operator) => EveryGenerationEnds
=============================================================================
