-------------------------- MODULE JobDispatchProofs --------------------------
(***************************************************************************)
(* Theorems about JobDispatch, for any set of tokens and any limits.       *)
(*                                                                         *)
(* First the types, the promise and the renders of one job.  Then what a   *)
(* job leaves behind: the object of a done generation, the provider's work *)
(* of a refunded one, and nothing at all of a run that lost its lease.     *)
(* For these three lemmas say what any step does to a run (RunMoves), to   *)
(* the row (RowMoves) and to the ledger (Settles).                         *)
(***************************************************************************)
EXTENDS JobDispatch, TLAPS

-----------------------------------------------------------------------------
(* Types                                                                   *)

(* What a run does next is again a run.                                    *)
LEMMA NextCalls ==
    ASSUME TypeOK, NEW t \in Tokens
    PROVE  /\ Over \in Runs
           /\ run[t] \in Runs
           /\ \A call \in Calls : Goto(t, call) \in Runs
           /\ \A state \in States : Release(t, state) \in Runs
           /\ \A why \in Reasons : Fail(t, why) \in Runs
           /\ Catch(t) \in Runs
<1>1. Over \in Runs
  <2>1. NoRef \in Refs /\ 0 \in 0 .. MaxInlineSubmits /\ 0 \in 0 .. MaxStoreAttempts
    BY DispatchAssumption DEF Refs
  <2> QED
    BY <2>1 DEF Over, Runs, Calls, States
<1>2. run[t] \in Runs
  BY DEF TypeOK
<1>3. \A call \in Calls : Goto(t, call) \in Runs
  BY <1>2 DEF Goto, Runs
<1>4. \A state \in States : Release(t, state) \in Runs
  BY <1>2 DEF Release, Runs, Calls
<1>5. \A why \in Reasons : Fail(t, why) \in Runs
  BY <1>2 DEF Fail, Runs, Calls
<1>6. Catch(t) \in Runs
  BY <1>4, <1>5 DEF Catch, States, Reasons
<1> QED
  BY <1>1, <1>2, <1>3, <1>4, <1>5, <1>6

LEMMA BecomeType ==
    ASSUME TypeOK, NEW t \in Tokens, NEW r \in Runs, Become(t, r)
    PROVE  run' \in [Tokens -> Runs]
  BY DEF TypeOK, Become

LEMMA Saturates ==
    ASSUME NEW max \in Nat, NEW n \in 0 .. max
    PROVE  UpTo(max, n + 1) \in 0 .. max
  BY DEF UpTo

LEMMA WriteType ==
    ASSUME NEW new \in Rows, Write(new)
    PROVE  row' \in Rows
  BY DEF Write, Rows

LEMMA FaultType ==
    ASSUME TypeOK, Fault
    PROVE  faults' \in 0 .. FaultBudget
  BY DispatchAssumption DEF TypeOK, Fault

LEMMA CallType ==
    ASSUME TypeOK, NEW t \in Tokens, NEW applies \in BOOLEAN, NEW new,
           applies => new \in Rows,
           NEW yes \in Runs, NEW no \in Runs, NEW error \in Runs,
           Call(t, applies, new, yes, no, error)
    PROVE  row' \in Rows /\ run' \in [Tokens -> Runs] /\ faults' \in 0 .. FaultBudget
<1>1. row \in Rows /\ faults \in 0 .. FaultBudget
  BY DEF TypeOK
<1>2. \A b \in BOOLEAN : (IF b /\ applies THEN new ELSE row) \in Rows
  BY <1>1
<1>3. (IF applies THEN new ELSE row) \in Rows
  BY <1>1
<1>4. row' \in Rows
  BY <1>2, <1>3, WriteType DEF Call
<1>5. run' \in [Tokens -> Runs]
  BY BecomeType DEF Call
<1>6. faults' \in 0 .. FaultBudget
  BY <1>1, FaultType DEF Call
<1> QED
  BY <1>4, <1>5, <1>6

LEMMA InitType == Init => TypeOK
<1> SUFFICES ASSUME Init PROVE TypeOK
  OBVIOUS
<1>1. row \in Rows
  BY DispatchAssumption DEF Init, Rows, States, Refs
<1>2. gen \in [status : {"pending", "done", "failed"}, media : Tokens \cup {NoToken},
              code : FailureCodes \cup {"none"}]
  BY DEF Init
<1>3. Over \in Runs
  <2>1. NoRef \in Refs /\ 0 \in 0 .. MaxInlineSubmits /\ 0 \in 0 .. MaxStoreAttempts
    BY DispatchAssumption DEF Refs
  <2> QED
    BY <2>1 DEF Over, Runs, Calls, States
<1>4. faults \in 0 .. FaultBudget
  BY DispatchAssumption DEF Init
<1> QED
  BY <1>1, <1>2, <1>3, <1>4 DEF Init, TypeOK

(* The rows and the ledger a settlement leaves.                            *)
LEMMA SettleType ==
    ASSUME TypeOK,
           (\E t \in Tokens : SettleDone(t))
             \/ (\E why \in Reasons \cup {"none"}, who \in {"worker", "route"} :
             SettleFailed(why, who))
             \/ Unsettled
    PROVE  /\ row' \in Rows
           /\ gen' \in [status : {"pending", "done", "failed"},
                        media : Tokens \cup {NoToken},
                        code : FailureCodes \cup {"none"}]
           /\ refunded' \in SUBSET Charged
           /\ outbox' \in Seq({"generation_done", "generation_failed"})
           /\ settledBy' \in {"nobody", "worker", "route"}
<1>1. CASE \E t \in Tokens : SettleDone(t)
  <2> PICK t \in Tokens : SettleDone(t)
    BY <1>1
  <2>1. [row EXCEPT !.state = "done", !.token = NoToken, !.live = FALSE] \in Rows
    BY DEF TypeOK, Rows, States
  <2>2. row' \in Rows
    BY <2>1, WriteType DEF SettleDone
  <2>3. outbox' \in Seq({"generation_done", "generation_failed"})
    BY DEF SettleDone, TypeOK
  <2> QED
    BY <2>2, <2>3 DEF SettleDone, TypeOK
<1>2. CASE \E why \in Reasons \cup {"none"}, who \in {"worker", "route"} :
             SettleFailed(why, who)
  <2> PICK why \in Reasons \cup {"none"}, who \in {"worker", "route"} :
            SettleFailed(why, who)
    BY <1>2
  <2>1. [row EXCEPT !.state = "done", !.token = NoToken, !.live = FALSE,
                    !.error = why] \in Rows
    BY DEF TypeOK, Rows, States
  <2>2. row' \in Rows
    BY <2>1, WriteType DEF SettleFailed
  <2>3. CodeOf(why) \in FailureCodes
    BY DEF CodeOf, FailureCodes
  <2>4. gen' \in [status : {"pending", "done", "failed"},
                 media : Tokens \cup {NoToken}, code : FailureCodes \cup {"none"}]
    BY <2>3 DEF SettleFailed, TypeOK
  <2>5. outbox' \in Seq({"generation_done", "generation_failed"})
    <3>1. /\ outbox \in Seq({"generation_done", "generation_failed"})
          /\ Append(outbox, "generation_failed")
                \in Seq({"generation_done", "generation_failed"})
      BY DEF TypeOK
    <3> QED
      BY <3>1 DEF SettleFailed
  <2>6. refunded' \in SUBSET Charged /\ settledBy' \in {"nobody", "worker", "route"}
    BY DEF SettleFailed, TypeOK
  <2> QED
    BY <2>2, <2>4, <2>5, <2>6
<1>3. CASE Unsettled
  BY <1>3 DEF Unsettled, TypeOK
<1> QED
  BY <1>1, <1>2, <1>3

LEMMA BeginType ==
    ASSUME NEW r \in Runs
    PROVE  Begin(r) \in Runs
<1>1. \A call \in Calls, state \in States, why \in Reasons :
        /\ [r EXCEPT !.pc = call] \in Runs
        /\ [r EXCEPT !.pc = call, !.to = state] \in Runs
        /\ [r EXCEPT !.pc = call, !.why = why] \in Runs
  BY DEF Runs
<1>2. {"fail", "begin", "tally", "count", "release"} \subseteq Calls
      /\ "reconciling" \in States
      /\ {"cancelled", "inline_submit_interrupted"} \subseteq Reasons
  BY DEF Calls, States, Reasons
<1>3. Abandoned(r) \in Runs
  <2>1. CASE r.cancel
    BY <1>1, <1>2, <2>1 DEF Abandoned
  <2>2. CASE ~r.cancel
    BY <1>1, <1>2, <2>2 DEF Abandoned
  <2> QED
    BY <2>1, <2>2
<1>4. Poll(r) \in Runs
  BY <1>1, <1>2, <1>3 DEF Poll
<1>5. Reconcile(r) \in Runs
  BY <1>1, <1>2, <1>3, <1>4 DEF Reconcile
<1> QED
  BY <1>1, <1>2, <1>4, <1>5 DEF Begin

LEMMA ClaimType ==
    ASSUME TypeOK, NEW t \in Tokens, Claim(t)
    PROVE  TypeOK'
<1>1. row' \in Rows
  BY DEF Claim, TypeOK, Rows
<1>2. Claimed \in Runs
  BY NextCalls DEF Claimed, TypeOK, Rows, Runs
<1>3. Begin(Claimed) \in Runs
  BY <1>2, BeginType
<1>4. [Claimed EXCEPT !.pc = "release", !.to = "ready"] \in Runs
  BY <1>2 DEF Runs, Calls, States
<1>5. run' \in [Tokens -> Runs]
  BY <1>3, <1>4, BecomeType DEF Claim
<1>6. faults' \in 0 .. FaultBudget
  BY FaultType DEF Claim, TypeOK
<1> QED
  BY <1>1, <1>5, <1>6 DEF Claim, TypeOK

(* Lemmas for the four kinds of step a run takes.                          *)
LEMMA SubmittingType ==
    ASSUME TypeOK, NEW t \in Tokens, Submitting(t)
    PROVE  TypeOK'
<1> USE NextCalls
<1>1. CASE BeginSubmit(t)
  <2>1. [row EXCEPT !.state = "submitting",
                    !.submits = UpTo(MaxInlineSubmits, row.submits + 1)] \in Rows
    <3>1. row \in Rows /\ row.submits \in 0 .. MaxInlineSubmits
      BY DEF TypeOK, Rows
    <3>2. UpTo(MaxInlineSubmits, row.submits + 1) \in 0 .. MaxInlineSubmits
      BY <3>1, Saturates, DispatchAssumption
    <3> QED
      BY <3>1, <3>2 DEF Rows, States
  <2>2. Goto(t, "payload") \in Runs
    BY DEF Calls
  <2>3. row' \in Rows /\ run' \in [Tokens -> Runs] /\ faults' \in 0 .. FaultBudget
    BY <1>1, <2>1, <2>2, CallType DEF BeginSubmit, Holds
  <2> QED
    BY <1>1, <2>3 DEF BeginSubmit, Settled, TypeOK
<1>2. CASE ResolvePayload(t)
  <2>1. run' \in [Tokens -> Runs]
    BY <1>2, BecomeType DEF ResolvePayload, Calls, Reasons
  <2> QED
    BY <1>2, <2>1 DEF ResolvePayload, Settled, TypeOK
<1>3. CASE Send(t)
  <2>1. run' \in [Tokens -> Runs]
    BY <1>3, BecomeType DEF Send, Calls
  <2> QED
    BY <1>3, <2>1 DEF Send, Settled, TypeOK
<1>4. CASE Accepted(t)
  <2>1. run' \in [Tokens -> Runs]
    BY <1>4, BecomeType DEF Accepted, Calls
  <2> QED
    BY <1>4, <2>1 DEF Accepted, Settled, TypeOK
<1>5. CASE Rejected(t)
  <2>1. run' \in [Tokens -> Runs]
    BY <1>5, BecomeType DEF Rejected, Reasons
  <2> QED
    BY <1>5, <2>1 DEF Rejected, Settled, TypeOK
<1>6. CASE AnsweredError(t)
  <2>1. run' \in [Tokens -> Runs]
    BY <1>6, BecomeType DEF AnsweredError, Reasons, States
  <2> QED
    BY <1>6, <2>1 DEF AnsweredError, Settled, TypeOK
<1>7. CASE NoAnswer(t)
  <2>1. run' \in [Tokens -> Runs] /\ faults' \in 0 .. FaultBudget
    BY <1>7, BecomeType, FaultType DEF NoAnswer
  <2> QED
    BY <1>7, <2>1 DEF NoAnswer, Settled, TypeOK
<1>8. CASE RecordRef(t)
  <2> DEFINE ref == IF AnswersInline THEN InlineRef ELSE t
             yes == IF AnswersInline THEN Goto(t, "store")
                    ELSE [run[t] EXCEPT !.pc = "handover", !.to = "submitted", !.found = t]
  <2>1. [row EXCEPT !.ref = ref] \in Rows
    BY DEF TypeOK, Rows, Refs
  <2>2. yes \in Runs
    <3>1. Goto(t, "store") \in Runs
      BY DEF Calls
    <3>2. [run[t] EXCEPT !.pc = "handover", !.to = "submitted", !.found = t] \in Runs
      <4>1. "handover" \in Calls /\ "submitted" \in States /\ t \in Refs
        BY DEF Calls, States, Refs
      <4> QED
        BY <4>1 DEF Runs
    <3> QED
      BY <3>1, <3>2
  <2>3. row' \in Rows /\ run' \in [Tokens -> Runs] /\ faults' \in 0 .. FaultBudget
    BY <1>8, <2>1, <2>2, CallType DEF RecordRef, Holds
  <2> QED
    BY <1>8, <2>3 DEF RecordRef, Settled, TypeOK
<1> QED
  BY <1>1, <1>2, <1>3, <1>4, <1>5, <1>6, <1>7, <1>8 DEF Submitting

LEMMA PollingType ==
    ASSUME TypeOK, NEW t \in Tokens, Polling(t)
    PROVE  TypeOK'
<1> USE NextCalls
<1>1. CASE CountPoll(t)
  <2>1. [row EXCEPT !.polls = UpTo(MaxStoreAttempts, row.polls + 1)] \in Rows
    <3>1. row \in Rows /\ row.polls \in 0 .. MaxStoreAttempts
      BY DEF TypeOK, Rows
    <3>2. UpTo(MaxStoreAttempts, row.polls + 1) \in 0 .. MaxStoreAttempts
      BY <3>1, Saturates, DispatchAssumption
    <3> QED
      BY <3>1, <3>2 DEF Rows
  <2>2. Goto(t, IF run[t].cancel THEN "cancel" ELSE "check") \in Runs
    BY DEF Calls
  <2>3. row' \in Rows /\ run' \in [Tokens -> Runs] /\ faults' \in 0 .. FaultBudget
    BY <1>1, <2>1, <2>2, CallType DEF CountPoll, Holds
  <2> QED
    BY <1>1, <2>3 DEF CountPoll, Settled, TypeOK
<1>2. CASE CancelWithProvider(t)
  <2>1. run' \in [Tokens -> Runs] /\ faults' \in 0 .. FaultBudget
    BY <1>2, BecomeType, FaultType DEF CancelWithProvider, Calls, Reasons, TypeOK
  <2>2. prov' \in [Tokens -> {"none", "sent", "running", "succeeded", "failed", "stopped"}]
    BY <1>2 DEF CancelWithProvider, TypeOK
  <2> QED
    BY <1>2, <2>1, <2>2 DEF CancelWithProvider, Settled, TypeOK
<1>3. CASE CheckRunning(t) \/ CheckFailed(t) \/ CheckSucceeded(t)
  <2>1. run' \in [Tokens -> Runs]
    BY <1>3, BecomeType DEF CheckRunning, CheckFailed, CheckSucceeded, Calls, States, Reasons
  <2> QED
    BY <1>3, <2>1 DEF CheckRunning, CheckFailed, CheckSucceeded, Settled, TypeOK
<1>4. CASE CheckUnavailable(t) \/ CheckDenied(t)
  <2>1. run' \in [Tokens -> Runs] /\ faults' \in 0 .. FaultBudget
    BY <1>4, BecomeType, FaultType DEF CheckUnavailable, CheckDenied, States, Reasons
  <2> QED
    BY <1>4, <2>1 DEF CheckUnavailable, CheckDenied, Settled, TypeOK
<1>5. CASE TallyReconciliation(t)
  <2>1. row \in Rows /\ Goto(t, "lookup") \in Runs
    BY DEF TypeOK, Calls
  <2>2. row' \in Rows /\ run' \in [Tokens -> Runs] /\ faults' \in 0 .. FaultBudget
    BY <1>5, <2>1, CallType DEF TallyReconciliation, Holds
  <2> QED
    BY <1>5, <2>2 DEF TallyReconciliation, Settled, TypeOK
<1>6. CASE Reconciled(t)
  <2>1. \A r \in Tokens : [Release(t, "submitted") EXCEPT !.found = r] \in Runs
    BY DEF States, Runs, Refs
  <2>2. run' \in [Tokens -> Runs]
    BY <1>6, <2>1, BecomeType DEF Reconciled, States
  <2> QED
    BY <1>6, <2>2 DEF Reconciled, Settled, TypeOK
<1> QED
  BY <1>1, <1>2, <1>3, <1>4, <1>5, <1>6 DEF Polling

LEMMA EndingType ==
    ASSUME TypeOK, NEW t \in Tokens, Ending(t)
    PROVE  TypeOK'
<1> USE NextCalls
<1>1. CASE ReleaseJob(t)
  <2>1. Released(t) \in Rows
    <3>1. row \in Rows
      BY DEF TypeOK
    <3>2. run[t].to \in States /\ run[t].found \in Refs /\ row.ref \in Refs
      BY <3>1 DEF Runs, Rows
    <3>3. (IF run[t].found = NoRef THEN row.ref ELSE run[t].found) \in Refs
      BY <3>2
    <3> QED
      BY <3>1, <3>2, <3>3 DEF Released, Rows
  <2>2. [Catch(t) EXCEPT !.found = NoRef] \in Runs
    BY DEF Runs, Refs
  <2>3. row' \in Rows /\ run' \in [Tokens -> Runs] /\ faults' \in 0 .. FaultBudget
    BY <1>1, <2>1, <2>2, CallType DEF ReleaseJob, Holds
  <2> QED
    BY <1>1, <2>3 DEF ReleaseJob, Settled, TypeOK
<1>2. CASE FailJob(t)
  <2>1. run' \in [Tokens -> Runs] /\ faults' \in 0 .. FaultBudget
    BY <1>2, BecomeType, FaultType DEF FailJob, TypeOK
  <2>2. (\E why \in Reasons \cup {"none"} : SettleFailed(why, "worker")) \/ Unsettled
    <3>1. run[t].why \in Reasons \cup {"none"}
      BY DEF Runs
    <3> QED
      BY <1>2, <3>1 DEF FailJob, TryFailed
  <2> QED
    BY <1>2, <2>1, <2>2, SettleType DEF FailJob, TypeOK
<1> QED
  BY <1>1, <1>2 DEF Ending

LEMMA FinishingType ==
    ASSUME TypeOK, NEW t \in Tokens, Finishing(t)
    PROVE  TypeOK'
<1> USE NextCalls
<1>0. \A call \in Calls, why \in Reasons : [Goto(t, call) EXCEPT !.why = why] \in Runs
  BY DEF Goto, Runs
<1>1. CASE ClaimSave(t)
  <2>1. [row EXCEPT !.save = "held"] \in Rows
    BY DEF TypeOK, Rows
  <2>2. row' \in Rows /\ run' \in [Tokens -> Runs] /\ faults' \in 0 .. FaultBudget
    BY <1>1, <2>1, CallType DEF ClaimSave, Holds, Calls
  <2> QED
    BY <1>1, <2>2 DEF ClaimSave, Settled, TypeOK
<1>2. CASE StoreObject(t)
  <2>1. run' \in [Tokens -> Runs] /\ faults' \in 0 .. FaultBudget
    BY <1>0, <1>2, BecomeType, FaultType DEF StoreObject, Calls, Reasons, TypeOK
  <2>2. obj' \in [Tokens -> {"absent", "staged", "stored", "queued"}]
    BY <1>2 DEF StoreObject, TypeOK
  <2> QED
    BY <1>2, <2>1, <2>2 DEF StoreObject, Settled, TypeOK
<1>3. CASE UnknownBudget(t)
  <2>1. run' \in [Tokens -> Runs] /\ faults' \in 0 .. FaultBudget
    BY <1>3, BecomeType, FaultType DEF UnknownBudget, Calls
  <2> QED
    BY <1>3, <2>1 DEF UnknownBudget, Settled, TypeOK
<1>4. CASE KeepResult(t)
  <2>1. run' \in [Tokens -> Runs] /\ faults' \in 0 .. FaultBudget
    BY <1>4, BecomeType, FaultType DEF KeepResult, Calls, TypeOK
  <2>2. SettleDone(t) \/ Unsettled
    BY <1>4 DEF KeepResult
  <2> QED
    BY <1>4, <2>1, <2>2, SettleType DEF KeepResult, TypeOK
<1>5. CASE DropLostObject(t)
  <2>1. run' \in [Tokens -> Runs] /\ faults' \in 0 .. FaultBudget
    BY <1>5, BecomeType, FaultType DEF DropLostObject, Calls, TypeOK
  <2>2. obj' \in [Tokens -> {"absent", "staged", "stored", "queued"}]
    BY <1>5 DEF DropLostObject, TypeOK
  <2> QED
    BY <1>5, <2>1, <2>2 DEF DropLostObject, Settled, TypeOK
<1>6. CASE ReleaseClaim(t)
  <2> DEFINE new == [row EXCEPT !.save = "free",
                                !.attempts = IF At(t, "unclaim") THEN @
                                     ELSE UpTo(MaxStoreAttempts, run[t].polls + 1)]
  <2>1. row \in Rows /\ row.attempts \in 0 .. MaxStoreAttempts
        /\ run[t].polls \in 0 .. MaxStoreAttempts
    BY DEF TypeOK, Rows, Runs
  <2>2. UpTo(MaxStoreAttempts, run[t].polls + 1) \in 0 .. MaxStoreAttempts
    BY <2>1, Saturates, DispatchAssumption
  <2>3. new \in Rows
    BY <2>1, <2>2 DEF Rows
  <2>4. row' \in Rows /\ run' \in [Tokens -> Runs] /\ faults' \in 0 .. FaultBudget
    BY <1>6, <2>3, CallType DEF ReleaseClaim, Holds, Calls
  <2> QED
    BY <1>6, <2>4 DEF ReleaseClaim, Settled, TypeOK
<1>7. CASE GiveUp(t)
  <2>1. run' \in [Tokens -> Runs] /\ faults' \in 0 .. FaultBudget
    BY <1>7, BecomeType, FaultType DEF GiveUp, Calls, TypeOK
  <2>2. SettleFailed("store_failed", "worker") \/ Unsettled
    BY <1>7 DEF GiveUp, TryFailed
  <2> QED
    BY <1>7, <2>1, <2>2, SettleType DEF GiveUp, Reasons, TypeOK
<1>8. CASE ReadStatus(t)
  <2>1. \A call \in Calls, state \in States : [Goto(t, call) EXCEPT !.to = state] \in Runs
    BY DEF Goto, Runs
  <2>2. run' \in [Tokens -> Runs] /\ faults' \in 0 .. FaultBudget
    BY <1>8, <2>1, BecomeType, FaultType DEF ReadStatus, Calls, States, TypeOK
  <2> QED
    BY <1>8, <2>2 DEF ReadStatus, Settled, TypeOK
<1> QED
  BY <1>1, <1>2, <1>3, <1>4, <1>5, <1>6, <1>7, <1>8 DEF Finishing

LEMMA RouteType ==
    ASSUME TypeOK, Route
    PROVE  TypeOK'
<1>1. CASE RouteRead
  BY <1>1 DEF RouteRead, Settled, TypeOK
<1>2. CASE RouteMark
  BY <1>2 DEF RouteMark, Settled, TypeOK, Rows
<1>3. CASE RouteSettle
  <2>1. SettleFailed("cancelled", "route") \/ Unsettled
    BY <1>3 DEF RouteSettle, TryFailed
  <2> QED
    BY <1>3, <2>1, SettleType DEF RouteSettle, Reasons, TypeOK
<1>4. CASE RouteDies
  BY <1>4, FaultType DEF RouteDies, Settled, TypeOK
<1> QED
  BY <1>1, <1>2, <1>3, <1>4 DEF Route

LEMMA OutsideType ==
    ASSUME TypeOK, Sweep \/ Operator \/ Lapse \/ WindowPasses
                     \/ \E t \in Tokens : Crash(t) \/ Provider(t)
    PROVE  TypeOK'
<1>1. CASE ExpireLease
  BY <1>1 DEF ExpireLease, Settled, TypeOK, Rows
<1>2. CASE ReconcileStale
  <2>1. [row EXCEPT !.state = "reconciling"] \in Rows
    BY DEF TypeOK, Rows, States
  <2> QED
    BY <1>2, <2>1, WriteType DEF ReconcileStale, Settled, TypeOK
<1>3. CASE Operator
  <2>1. \A state \in States, ref \in Refs :
          [row EXCEPT !.state = state, !.ref = ref, !.token = NoToken, !.save = "free"] \in Rows
    BY DEF TypeOK, Rows
  <2>2. \E state \in States, ref \in Refs : Resolve(state, ref)
    BY <1>3 DEF Operator, ResolveReference, ResolveNotSubmitted, States, Refs
  <2> QED
    BY <2>1, <2>2, WriteType DEF Resolve, Settled, TypeOK
<1>4. CASE Lapse
  BY <1>4, FaultType DEF Lapse, Settled, TypeOK, Rows
<1>5. CASE WindowPasses
  BY <1>5 DEF WindowPasses, Settled, TypeOK, Rows
<1>6. ASSUME NEW t \in Tokens, Crash(t)
      PROVE  TypeOK'
  BY <1>6, NextCalls, BecomeType, FaultType DEF Crash, Settled, TypeOK
<1>7. ASSUME NEW t \in Tokens, Provider(t)
      PROVE  TypeOK'
  <2>1. prov' \in [Tokens -> {"none", "sent", "running", "succeeded", "failed", "stopped"}]
    BY <1>7 DEF Provider, TypeOK
  <2>2. faults' \in 0 .. FaultBudget
    BY <1>7, FaultType DEF Provider, TypeOK
  <2> QED
    BY <1>7, <2>1, <2>2 DEF Provider, Settled, TypeOK
<1> QED
  BY <1>1, <1>2, <1>3, <1>4, <1>5, <1>6, <1>7 DEF Sweep

LEMMA TypeStep == TypeOK /\ [Next]_vars => TypeOK'
<1> SUFFICES ASSUME TypeOK, [Next]_vars PROVE TypeOK'
  OBVIOUS
<1>1. CASE \E t \in Tokens : Claim(t)
  BY <1>1, ClaimType
<1>2. CASE \E t \in Tokens : RunStep(t)
  BY <1>2, SubmittingType, PollingType, FinishingType, EndingType DEF RunStep
<1>3. CASE Route
  BY <1>3, RouteType
<1>4. CASE Sweep \/ Operator \/ Lapse \/ WindowPasses
             \/ \E t \in Tokens : Crash(t) \/ Provider(t)
  BY <1>4, OutsideType
<1>5. CASE UNCHANGED vars
  BY <1>5 DEF vars, TypeOK
<1> QED
  BY <1>1, <1>2, <1>3, <1>4, <1>5 DEF Next

(* Type correctness: every reachable row, run and ledger is well formed;   *)
(* in particular fn_settle_job never writes an unknown failure code.       *)
THEOREM TypeCorrect == Spec => []TypeOK
  BY InitType, TypeStep, PTL DEF Spec

-----------------------------------------------------------------------------
(* The promise of Settlement                                               *)

(* Only fn_settle_job touches the generation and its ledger, and only when *)
(* the generation is pending and the caller holds what it claims to hold.  *)
LEMMA OnlySettlement ==
    ASSUME [Next]_vars
    PROVE  \/ UNCHANGED Settled
           \/ \E t \in Tokens : MaySettle(t) /\ SettleDone(t)
           \/ \E caller \in Tokens \cup {NoToken} : \E why, who :
                 MaySettle(caller) /\ SettleFailed(why, who)
<1>1. ASSUME NEW t \in Tokens, Claim(t) \/ Submitting(t) \/ Polling(t)
                                 \/ ReleaseJob(t) \/ Crash(t) \/ Provider(t)
      PROVE  UNCHANGED Settled
  <2>1. CASE Claim(t) \/ Crash(t) \/ Provider(t)
    BY <2>1 DEF Claim, Crash, Provider, Settled
  <2>2. CASE Submitting(t)
    BY <2>2 DEF Submitting, BeginSubmit, ResolvePayload, Send, Accepted, Rejected,
               AnsweredError, NoAnswer, RecordRef
  <2>3. CASE Polling(t)
    BY <2>3 DEF Polling, CountPoll, CancelWithProvider, CheckRunning,
               CheckUnavailable, CheckFailed, CheckDenied, CheckSucceeded,
               TallyReconciliation, Reconciled
  <2>4. CASE ReleaseJob(t)
    BY <2>4 DEF ReleaseJob
  <2> QED
    BY <1>1, <2>1, <2>2, <2>3, <2>4
<1>2. ASSUME NEW t \in Tokens, FailJob(t)
      PROVE  \/ UNCHANGED Settled
             \/ \E why, who : MaySettle(t) /\ SettleFailed(why, who)
  BY <1>2 DEF FailJob, TryFailed, Unsettled, Settled
<1>3. ASSUME NEW t \in Tokens, Finishing(t)
      PROVE  \/ UNCHANGED Settled
             \/ MaySettle(t) /\ SettleDone(t)
             \/ \E why, who : MaySettle(t) /\ SettleFailed(why, who)
  <2>1. CASE KeepResult(t)
    BY <2>1 DEF KeepResult, Unsettled, Settled
  <2>2. CASE GiveUp(t)
    BY <2>2 DEF GiveUp, TryFailed, Unsettled, Settled
  <2>3. CASE ~KeepResult(t) /\ ~GiveUp(t)
    BY <1>3, <2>3 DEF Finishing, ClaimSave, StoreObject, UnknownBudget,
                      DropLostObject, ReleaseClaim, ReadStatus
  <2> QED
    BY <2>1, <2>2, <2>3
<1>4. CASE Route
  <2>1. CASE RouteSettle
    BY <2>1 DEF RouteSettle, TryFailed, Unsettled, Settled
  <2> QED
    BY <1>4, <2>1 DEF Route, RouteRead, RouteMark, RouteDies
<1>5. CASE Sweep \/ Operator \/ Lapse \/ WindowPasses
  BY <1>5 DEF Sweep, ExpireLease, ReconcileStale, Operator, ResolveReference,
              ResolveNotSubmitted, Resolve, Lapse, WindowPasses
<1>6. CASE UNCHANGED vars
  BY <1>6 DEF vars, Settled
<1> QED
  BY <1>1, <1>2, <1>3, <1>4, <1>5, <1>6 DEF Next, RunStep, Ending

(* What the refinement needs besides types: a pending generation has no    *)
(* failure code yet.                                                       *)
PendingHasNoCode == gen.status = "pending" => gen.code = "none"

LEMMA PendingCodeStep ==
    ASSUME TypeOK, PendingHasNoCode, [Next]_vars
    PROVE  PendingHasNoCode'
<1>1. CASE UNCHANGED Settled
  BY <1>1 DEF Settled, PendingHasNoCode
<1>2. CASE \E t \in Tokens : SettleDone(t)
  BY <1>2 DEF SettleDone, PendingHasNoCode
<1>3. CASE \E why, who : SettleFailed(why, who)
  BY <1>3 DEF SettleFailed, PendingHasNoCode, TypeOK
<1> QED
  BY <1>1, <1>2, <1>3, OnlySettlement

(* Every step of the job is a step of the promise or leaves it alone.      *)
LEMMA PromiseStep ==
    ASSUME TypeOK, PendingHasNoCode, [Next]_vars
    PROVE  [Promise!Next]_(Promise!vars)
<1>1. CASE UNCHANGED Settled
  BY <1>1 DEF Settled, Promise!vars
<1>2. CASE \E t \in Tokens : MaySettle(t) /\ SettleDone(t)
  <2>1. Promise!Finish
    BY <1>2 DEF MaySettle, SettleDone, PendingHasNoCode, Promise!Finish
  <2> QED
    BY <2>1 DEF Promise!Next
<1>3. CASE \E caller \in Tokens \cup {NoToken} : \E why, who :
               MaySettle(caller) /\ SettleFailed(why, who)
  <2> PICK why, who : gen.status = "pending" /\ SettleFailed(why, who)
    BY <1>3 DEF MaySettle
  <2>1. CodeOf(why) \in Promise!FailureCodes
    BY DEF CodeOf, Promise!FailureCodes
  <2>2. gen'.status = "failed" /\ gen'.code = CodeOf(why)
    BY DEF SettleFailed, TypeOK
  <2>3. refunded' = Charged
    BY DEF SettleFailed, TypeOK
  <2>4. (CodeOf(why) = "cancelled") <=> (why = "cancelled")
    BY DEF CodeOf
  <2>5. Promise!Fail(CodeOf(why))
    BY <2>2, <2>3, <2>4 DEF SettleFailed, Promise!Fail
  <2> QED
    BY <2>1, <2>5 DEF Promise!Next
<1> QED
  BY <1>1, <1>2, <1>3, OnlySettlement

(* The job implements Settlement: whatever crashes, lapsed leases, lost    *)
(* answers and concurrent cancels do, the generation is settled at most    *)
(* once, refunded in full exactly when it fails, and announced once.       *)
THEOREM KeepsPromise == Spec => PromiseKept
<1>1. Init => Promise!Init /\ PendingHasNoCode
  BY DEF Init, Promise!Init, PendingHasNoCode
<1>2. TypeOK /\ PendingHasNoCode /\ [Next]_vars => PendingHasNoCode'
  BY PendingCodeStep
<1>3. TypeOK /\ PendingHasNoCode /\ [Next]_vars => [Promise!Next]_(Promise!vars)
  BY PromiseStep
<1> QED
  BY <1>1, <1>2, <1>3, TypeCorrect, PTL DEF Spec, PromiseKept, Promise!Spec

-----------------------------------------------------------------------------
(* At most one render                                                      *)

(* A request of this run is at the provider, or on its way there.          *)
Active(t) == run[t].pc \in {"payload", "send"} \/ prov[t] # "none"

(* The run is about to put the job back to ready.                          *)
HandingBack(t) == run[t].pc \in {"release", "handover"} /\ run[t].to = "ready"

(* AtMostOneRender is not inductive: nothing in it stops a job with a      *)
(* render from going back to ready, nor a run that already chose ready     *)
(* from saying so while another submits.                                   *)
SubmitInv ==
    /\ row.state = "ready" => \A t \in Tokens : ~Active(t)
    /\ \A s, t \in Tokens : Active(s) /\ Active(t) => s = t
    /\ \A t \in Tokens : HandingBack(t) /\ Holds(t) => \A s \in Tokens : ~Active(s)

SameLease(new, old) ==
    new.state = old.state /\ new.token = old.token /\ new.live = old.live /\ new.ref = old.ref

(* A step that starts no request, and brings nobody closer to ready.       *)
Quiet ==
    /\ \A s \in Tokens : Active(s)' => Active(s)
    /\ row'.state = "ready" => row.state = "ready"
    /\ \A s \in Tokens : (HandingBack(s) /\ Holds(s))' => HandingBack(s) /\ Holds(s)

LEMMA QuietStep == SubmitInv /\ Quiet => SubmitInv'
  BY DEF SubmitInv, Quiet

LEMMA WriteSame ==
    ASSUME NEW new \in Rows, Write(new)
    PROVE  SameLease(row', new)
  BY DEF Write, Rows, SameLease

LEMMA CallSummary ==
    ASSUME TypeOK, NEW t \in Tokens, NEW applies \in BOOLEAN, NEW new,
           applies => new \in Rows, NEW yes, NEW no, NEW error,
           Call(t, applies, new, yes, no, error)
    PROVE  \/ applies /\ SameLease(row', new) /\ run' = [run EXCEPT ![t] = yes]
           \/ ~applies /\ SameLease(row', row) /\ run' = [run EXCEPT ![t] = no]
           \/ /\ run' = [run EXCEPT ![t] = error]
              /\ SameLease(row', row) \/ (applies /\ SameLease(row', new))
<1>1. row \in Rows
  BY DEF TypeOK
<1>2. Write(row) => SameLease(row', row)
  BY <1>1, WriteSame
<1>3. applies /\ Write(new) => SameLease(row', new)
  BY WriteSame
<1>4. CASE /\ Write(IF applies THEN new ELSE row)
           /\ run' = [run EXCEPT ![t] = IF applies THEN yes ELSE no]
  <2>1. CASE applies
    BY <1>3, <1>4, <2>1
  <2>2. CASE ~applies
    BY <1>2, <1>4, <2>2
  <2> QED
    BY <2>1, <2>2
<1>5. CASE /\ \E arrived \in BOOLEAN : Write(IF arrived /\ applies THEN new ELSE row)
           /\ run' = [run EXCEPT ![t] = error]
  <2> PICK arrived \in BOOLEAN : Write(IF arrived /\ applies THEN new ELSE row)
    BY <1>5
  <2>1. CASE arrived /\ applies
    BY <1>3, <1>5, <2>1
  <2>2. CASE ~(arrived /\ applies)
    BY <1>2, <1>5, <2>2
  <2> QED
    BY <2>1, <2>2
<1> QED
  BY <1>4, <1>5 DEF Call, Become

LEMMA RunQuietly ==
    ASSUME TypeOK, NEW t \in Tokens, NEW r, run' = [run EXCEPT ![t] = r],
           \A s \in Tokens : prov'[s] # "none" => Active(s),
           r.pc \in {"payload", "send"} => Active(t),
           ~(r.pc \in {"release", "handover"} /\ r.to = "ready"),
           row'.state = "ready" => row.state = "ready",
           \A s \in Tokens : row'.token = s /\ row'.live => Holds(s)
    PROVE  Quiet
<1>1. \A s \in Tokens : run'[s] = IF s = t THEN r ELSE run[s]
  BY DEF TypeOK
<1>2. \A s \in Tokens : Active(s)' => Active(s)
  BY <1>1 DEF Active
<1>3. \A s \in Tokens : (HandingBack(s) /\ Holds(s))' => HandingBack(s) /\ Holds(s)
  BY <1>1 DEF HandingBack, Holds
<1> QED
  BY <1>2, <1>3 DEF Quiet

(* Where runJob goes with the row it was given.                            *)
LEMMA BeginGoes ==
    ASSUME NEW r \in Runs, r.pc = "over"
    PROVE  /\ Begin(r).pc \in {"release", "fail", "count", "tally", "begin"}
           /\ Begin(r).pc = "release" => Begin(r).to = "reconciling"
<1>1. /\ Abandoned(r).pc \in {"release", "fail"}
      /\ Abandoned(r).pc = "release" => Abandoned(r).to = "reconciling"
  BY DEF Abandoned, Runs
<1>2. /\ Poll(r).pc \in {"release", "fail", "count"}
      /\ Poll(r).pc = "release" => Poll(r).to = "reconciling"
  BY <1>1 DEF Poll, Runs
<1>3. /\ Reconcile(r).pc \in {"release", "fail", "count", "tally"}
      /\ Reconcile(r).pc = "release" => Reconcile(r).to = "reconciling"
  BY <1>1, <1>2 DEF Reconcile, Runs
<1> QED
  BY <1>2, <1>3 DEF Begin, Runs

LEMMA ClaimSubmits ==
    ASSUME TypeOK, SubmitInv, NEW t \in Tokens, Claim(t)
    PROVE  SubmitInv'
<1>1. row'.state = row.state /\ row'.token = t /\ row \in Rows
  BY DEF Claim, TypeOK, Rows
<1>2. Claimed \in Runs /\ Claimed.pc = "over"
  BY NextCalls DEF Claimed, TypeOK, Rows, Runs, Over
<1>3. PICK r : /\ run' = [run EXCEPT ![t] = r]
               /\ r.pc \in {"release", "fail", "count", "tally", "begin"}
               /\ r.pc = "release" /\ r.to = "ready" => row.state = "ready"
  <2>1. [Claimed EXCEPT !.pc = "release", !.to = "ready"].pc = "release"
    BY <1>2 DEF Runs
  <2> QED
    BY <1>2, <2>1, BeginGoes DEF Claim, Become
<1>4. \A s \in Tokens : run'[s] = IF s = t THEN r ELSE run[s]
  BY <1>3 DEF TypeOK
<1>5. \A s \in Tokens : Active(s)' => Active(s)
  BY <1>3, <1>4 DEF Active, Claim
<1>6. \A s \in Tokens : (HandingBack(s) /\ Holds(s))' => row.state = "ready"
  BY <1>1, <1>3, <1>4 DEF HandingBack, Holds
<1> QED
  BY <1>1, <1>5, <1>6 DEF SubmitInv

LEMMA BeginSubmitSummary ==
    ASSUME TypeOK, NEW t \in Tokens, BeginSubmit(t)
    PROVE  /\ row'.token = row.token /\ row'.live = row.live
           /\ \/ row'.state = row.state
              \/ Holds(t) /\ row.state = "ready" /\ row'.state = "submitting"
           /\ \/ run' = [run EXCEPT ![t] = Over]
              \/ /\ run' = [run EXCEPT ![t] = Goto(t, "payload")]
                 /\ Holds(t) /\ row.state = "ready" /\ row'.state = "submitting"
<1> DEFINE applies == Holds(t) /\ row.state = "ready"
           new == [row EXCEPT !.state = "submitting",
                              !.submits = UpTo(MaxInlineSubmits, row.submits + 1)]
<1>1. new \in Rows
  <2>1. row \in Rows /\ row.submits \in 0 .. MaxInlineSubmits
    BY DEF TypeOK, Rows
  <2>2. UpTo(MaxInlineSubmits, row.submits + 1) \in 0 .. MaxInlineSubmits
    BY <2>1, Saturates, DispatchAssumption
  <2> QED
    BY <2>1, <2>2 DEF Rows, States
<1>2. \/ applies /\ SameLease(row', new) /\ run' = [run EXCEPT ![t] = Goto(t, "payload")]
      \/ ~applies /\ SameLease(row', row) /\ run' = [run EXCEPT ![t] = Over]
      \/ /\ run' = [run EXCEPT ![t] = Over]
         /\ SameLease(row', row) \/ (applies /\ SameLease(row', new))
  <2>1. applies \in BOOLEAN /\ Call(t, applies, new, Goto(t, "payload"), Over, Over)
    BY DEF BeginSubmit, Holds
  <2> HIDE DEF applies, new
  <2> QED
    BY <1>1, <2>1, CallSummary
<1>3. new.state = "submitting" /\ new.token = row.token /\ new.live = row.live
  BY DEF TypeOK, Rows
<1> HIDE DEF new
<1> QED
  BY <1>2, <1>3 DEF SameLease

(* The only step that starts a request: from ready, under the lease.       *)
LEMMA BeginSubmitSubmits ==
    ASSUME TypeOK, SubmitInv, NEW t \in Tokens, BeginSubmit(t)
    PROVE  SubmitInv'
<1>1. Over.pc = "over" /\ Goto(t, "payload").pc = "payload"
  BY DEF TypeOK, Over, Goto, Runs
<1>2. prov' = prov
  BY DEF BeginSubmit
<1>3. row'.token = row.token /\ row'.live = row.live
  BY BeginSubmitSummary
<1>4. CASE /\ run' = [run EXCEPT ![t] = Goto(t, "payload")]
           /\ Holds(t) /\ row.state = "ready" /\ row'.state = "submitting"
  <2>1. \A s \in Tokens : run'[s] = IF s = t THEN Goto(t, "payload") ELSE run[s]
    BY <1>4 DEF TypeOK
  <2>2. \A s \in Tokens : ~Active(s)
    BY <1>4 DEF SubmitInv
  <2>3. \A s \in Tokens : Active(s)' => s = t
    BY <1>2, <2>1, <2>2 DEF Active
  <2>4. \A s \in Tokens : ~(HandingBack(s) /\ Holds(s))'
    BY <1>1, <1>3, <1>4, <2>1 DEF HandingBack, Holds
  <2> QED
    BY <1>4, <2>3, <2>4 DEF SubmitInv
<1>5. CASE run' = [run EXCEPT ![t] = Over]
  <2>1. row'.state = "ready" => row.state = "ready"
    BY BeginSubmitSummary
  <2>2. Quiet
    BY <1>1, <1>2, <1>3, <1>5, <2>1, RunQuietly DEF Active, Holds
  <2> QED
    BY <2>2, QuietStep
<1> QED
  BY <1>4, <1>5, BeginSubmitSummary

(* An inline provider that answered made nothing: the one request is gone. *)
LEMMA AnsweredErrorSubmits ==
    ASSUME TypeOK, SubmitInv, NEW t \in Tokens, AnsweredError(t)
    PROVE  SubmitInv'
<1>1. Active(t) /\ run[t].pc = "answer"
  BY DEF AnsweredError, Active, At
<1>2. \A s \in Tokens : s # t => ~Active(s)
  BY <1>1 DEF SubmitInv
<1>3. PICK r : run' = [run EXCEPT ![t] = r] /\ r.pc \in {"release", "fail"}
  <2>1. /\ Release(t, "ready").pc = "release"
        /\ Fail(t, "answered_error").pc = "fail"
    BY DEF Release, Fail, TypeOK, Runs
  <2> QED
    BY <2>1 DEF AnsweredError, Become
<1>4. \A s \in Tokens : ~Active(s)'
  BY <1>2, <1>3 DEF Active, AnsweredError, TypeOK
<1> QED
  BY <1>4 DEF SubmitInv

(* Where the building blocks send a run.                                   *)
LEMMA GoesTo ==
    ASSUME TypeOK, NEW t \in Tokens
    PROVE  /\ Over.pc = "over"
           /\ \A call \in Calls : Goto(t, call).pc = call
           /\ \A state \in States : Release(t, state).pc = "release"
                                   /\ Release(t, state).to = state
           /\ \A why \in Reasons : Fail(t, why).pc = "fail"
           /\ Catch(t).pc \in {"release", "fail"}
           /\ Catch(t).pc = "release" => Catch(t).to = "reconciling"
  BY DEF TypeOK, Runs, Over, Goto, Release, Fail, Catch

(* The calls that need the lease and keep it as it is.                     *)
KeepsLease(t) ==
    RecordRef(t) \/ CountPoll(t) \/ TallyReconciliation(t)
        \/ ClaimSave(t) \/ ReleaseClaim(t)

LEMMA KeepsLeaseStep ==
    ASSUME TypeOK, NEW t \in Tokens, KeepsLease(t)
    PROVE  /\ row'.state = row.state /\ row'.token = row.token /\ row'.live = row.live
           /\ \E r : /\ run' = [run EXCEPT ![t] = r]
                     /\ r.pc \notin {"payload", "send"}
                     /\ r.pc \in {"release", "handover"} => r.to \notin {"ready", "done"}
<1> USE GoesTo
<1>1. CASE RecordRef(t)
  <2> DEFINE ref == IF AnswersInline THEN InlineRef ELSE t
             new == [row EXCEPT !.ref = ref]
             yes == IF AnswersInline THEN Goto(t, "store")
                    ELSE [run[t] EXCEPT !.pc = "handover", !.to = "submitted", !.found = t]
  <2>1. new \in Rows /\ new.state = row.state /\ new.token = row.token /\ new.live = row.live
    BY DEF TypeOK, Rows, Refs
  <2>2. yes.pc \in {"store", "handover"} /\ (yes.pc = "handover" => yes.to = "submitted")
    BY DEF TypeOK, Runs, Calls
  <2>3. Holds(t) \in BOOLEAN /\ Call(t, Holds(t), new, yes, Over, Catch(t))
    BY <1>1 DEF RecordRef, Holds, TypeOK, Rows
  <2> HIDE DEF new, yes
  <2>4. PICK r \in {yes, Over, Catch(t)} :
          /\ run' = [run EXCEPT ![t] = r]
          /\ SameLease(row', row) \/ SameLease(row', new)
    BY <2>1, <2>3, CallSummary
  <2>5. row'.state = row.state /\ row'.token = row.token /\ row'.live = row.live
    BY <2>1, <2>4 DEF SameLease
  <2>6. r.pc \notin {"payload", "send"} /\ (r.pc \in {"release", "handover"} => r.to \notin {"ready", "done"})
    BY <2>2, <2>4
  <2> QED
    BY <2>4, <2>5, <2>6
<1>2. CASE CountPoll(t)
  <2> DEFINE new == [row EXCEPT !.polls = UpTo(MaxStoreAttempts, row.polls + 1)]
             yes == Goto(t, IF run[t].cancel THEN "cancel" ELSE "check")
  <2>1. new \in Rows /\ new.state = row.state /\ new.token = row.token /\ new.live = row.live
    <3>1. row \in Rows /\ row.polls \in 0 .. MaxStoreAttempts
      BY DEF TypeOK, Rows
    <3>2. UpTo(MaxStoreAttempts, row.polls + 1) \in 0 .. MaxStoreAttempts
      BY <3>1, Saturates, DispatchAssumption
    <3> QED
      BY <3>1, <3>2 DEF Rows
  <2>2. yes.pc \in {"cancel", "check"}
    BY DEF Calls
  <2>3. Holds(t) \in BOOLEAN /\ Call(t, Holds(t), new, yes, Over, Over)
    BY <1>2 DEF CountPoll, Holds, TypeOK, Rows
  <2> HIDE DEF new, yes
  <2>4. PICK r \in {yes, Over} :
          /\ run' = [run EXCEPT ![t] = r]
          /\ SameLease(row', row) \/ SameLease(row', new)
    BY <2>1, <2>3, CallSummary
  <2>5. row'.state = row.state /\ row'.token = row.token /\ row'.live = row.live
    BY <2>1, <2>4 DEF SameLease
  <2> QED
    BY <2>2, <2>4, <2>5
<1>3. CASE TallyReconciliation(t)
  <2> DEFINE applies == Holds(t) /\ row.state \in {"submitting", "reconciling"}
  <2>1. applies \in BOOLEAN /\ Call(t, applies, row, Goto(t, "lookup"), Over, Over)
        /\ row \in Rows
    BY <1>3 DEF TallyReconciliation, TypeOK
  <2> HIDE DEF applies
  <2>2. PICK r \in {Goto(t, "lookup"), Over} :
          run' = [run EXCEPT ![t] = r] /\ SameLease(row', row)
    BY <2>1, CallSummary
  <2>3. r.pc \in {"lookup", "over"}
    BY DEF Calls
  <2> QED
    BY <2>2, <2>3 DEF SameLease
<1>4. CASE ClaimSave(t)
  <2> DEFINE applies == Holds(t) /\ row.state # "done" /\ row.save # "held"
             new == [row EXCEPT !.save = "held"]
  <2>1. new \in Rows /\ new.state = row.state /\ new.token = row.token /\ new.live = row.live
    BY DEF TypeOK, Rows
  <2>2. applies \in BOOLEAN
        /\ Call(t, applies, new, Goto(t, "store"), Goto(t, "status"), Goto(t, "status"))
    BY <1>4 DEF ClaimSave
  <2> HIDE DEF applies, new
  <2>3. PICK r \in {Goto(t, "store"), Goto(t, "status")} :
          /\ run' = [run EXCEPT ![t] = r]
          /\ SameLease(row', row) \/ SameLease(row', new)
    BY <2>1, <2>2, CallSummary
  <2>4. r.pc \in {"store", "status"}
    BY DEF Calls
  <2>5. row'.state = row.state /\ row'.token = row.token /\ row'.live = row.live
    BY <2>1, <2>3 DEF SameLease
  <2> QED
    BY <2>3, <2>4, <2>5
<1>5. CASE ReleaseClaim(t)
  <2> DEFINE new == [row EXCEPT !.save = "free",
                                !.attempts = IF At(t, "unclaim") THEN @
                                     ELSE UpTo(MaxStoreAttempts, run[t].polls + 1)]
  <2>1. new \in Rows /\ new.state = row.state /\ new.token = row.token /\ new.live = row.live
    <3>1. row \in Rows /\ row.attempts \in 0 .. MaxStoreAttempts
          /\ run[t].polls \in 0 .. MaxStoreAttempts
      BY DEF TypeOK, Rows, Runs
    <3>2. UpTo(MaxStoreAttempts, run[t].polls + 1) \in 0 .. MaxStoreAttempts
      BY <3>1, Saturates, DispatchAssumption
    <3> QED
      BY <3>1, <3>2 DEF Rows
  <2>2. Holds(t) \in BOOLEAN
        /\ Call(t, Holds(t), new, Goto(t, "status"), Goto(t, "status"), Over)
    BY <1>5 DEF ReleaseClaim, Holds, TypeOK, Rows
  <2> HIDE DEF new
  <2>3. PICK r \in {Goto(t, "status"), Over} :
          /\ run' = [run EXCEPT ![t] = r]
          /\ SameLease(row', row) \/ SameLease(row', new)
    BY <2>1, <2>2, CallSummary
  <2>4. r.pc \in {"status", "over"}
    BY DEF Calls
  <2>5. row'.state = row.state /\ row'.token = row.token /\ row'.live = row.live
    BY <2>1, <2>3 DEF SameLease
  <2> QED
    BY <2>3, <2>4, <2>5
<1> QED
  BY <1>1, <1>2, <1>3, <1>4, <1>5 DEF KeepsLease

LEMMA KeepsLeaseQuietly ==
    ASSUME TypeOK, NEW t \in Tokens, KeepsLease(t)
    PROVE  Quiet
<1>1. PICK r : /\ run' = [run EXCEPT ![t] = r]
               /\ r.pc \notin {"payload", "send"}
               /\ r.pc \in {"release", "handover"} => r.to \notin {"ready", "done"}
  BY KeepsLeaseStep
<1>2. row'.state = row.state /\ row'.token = row.token /\ row'.live = row.live
  BY KeepsLeaseStep
<1>3. prov' = prov
  BY DEF KeepsLease, RecordRef, CountPoll, TallyReconciliation, ClaimSave, ReleaseClaim
<1> QED
  BY <1>1, <1>2, <1>3, RunQuietly DEF Active, Holds

LEMMA SubmittingQuietly ==
    ASSUME TypeOK, NEW t \in Tokens,
           Submitting(t), ~BeginSubmit(t), ~AnsweredError(t)
    PROVE  Quiet
<1> USE GoesTo
<1>1. CASE ResolvePayload(t)
  <2>1. Active(t)
    BY <1>1 DEF ResolvePayload, At, Active
  <2>2. PICK r : run' = [run EXCEPT ![t] = r] /\ r.pc \in {"send", "fail"}
    BY <1>1 DEF ResolvePayload, Become, Calls, Reasons
  <2> QED
    BY <1>1, <2>1, <2>2, RunQuietly DEF ResolvePayload, Active, Holds
<1>2. CASE Send(t)
  <2>1. Active(t) /\ run' = [run EXCEPT ![t] = Goto(t, "answer")]
        /\ Goto(t, "answer").pc = "answer"
    BY <1>2 DEF Send, At, Active, Become, Calls
  <2>2. \A s \in Tokens : prov'[s] # "none" => Active(s)
    BY <1>2, <2>1 DEF Send, Active, TypeOK
  <2> QED
    BY <1>2, <2>1, <2>2, RunQuietly DEF Send, Holds
<1>3. CASE Accepted(t)
  <2>1. run' = [run EXCEPT ![t] = Goto(t, "record")] /\ Goto(t, "record").pc = "record"
    BY <1>3 DEF Accepted, Become, Calls
  <2> QED
    BY <1>3, <2>1, RunQuietly DEF Accepted, Active, Holds
<1>4. CASE Rejected(t)
  <2>1. run' = [run EXCEPT ![t] = Fail(t, "rejected")] /\ Fail(t, "rejected").pc = "fail"
    BY <1>4 DEF Rejected, Become, Reasons
  <2>2. \A s \in Tokens : prov'[s] # "none" => Active(s)
    BY <1>4 DEF Rejected, Active, TypeOK
  <2> QED
    BY <1>4, <2>1, <2>2, RunQuietly DEF Rejected, Holds
<1>5. CASE NoAnswer(t)
  <2>1. run' = [run EXCEPT ![t] = Catch(t)]
    BY <1>5 DEF NoAnswer, Become
  <2> QED
    BY <1>5, <2>1, RunQuietly DEF NoAnswer, Active, Holds
<1>6. CASE RecordRef(t)
  BY <1>6, KeepsLeaseQuietly DEF KeepsLease
<1> QED
  BY <1>1, <1>2, <1>3, <1>4, <1>5, <1>6 DEF Submitting

LEMMA PollingQuietly ==
    ASSUME TypeOK, NEW t \in Tokens, Polling(t), ~Reconciled(t)
    PROVE  Quiet
<1> USE GoesTo
<1>1. CASE CountPoll(t)
  BY <1>1, KeepsLeaseQuietly DEF KeepsLease
<1>2. CASE CancelWithProvider(t)
  <2>1. PICK r : run' = [run EXCEPT ![t] = r] /\ r.pc \in {"fail", "check"}
    BY <1>2 DEF CancelWithProvider, Become, Calls, Reasons
  <2>2. \A s \in Tokens : prov'[s] # "none" => Active(s)
    BY <1>2 DEF CancelWithProvider, Active, TypeOK
  <2> QED
    BY <1>2, <2>1, <2>2, RunQuietly DEF CancelWithProvider, Holds
<1>3. CASE CheckRunning(t) \/ CheckUnavailable(t) \/ CheckFailed(t)
             \/ CheckDenied(t) \/ CheckSucceeded(t)
  <2>1. PICK r : /\ run' = [run EXCEPT ![t] = r]
                 /\ r.pc \in {"fail", "claimsave", "release"}
                 /\ r.pc = "release" => r.to = "submitted"
    BY <1>3 DEF CheckRunning, CheckUnavailable, CheckFailed, CheckDenied,
                CheckSucceeded, Become, Calls, Reasons, States
  <2> QED
    BY <1>3, <2>1, RunQuietly DEF CheckRunning, CheckUnavailable, CheckFailed,
                CheckDenied, CheckSucceeded, Active, Holds
<1>4. CASE TallyReconciliation(t)
  BY <1>4, KeepsLeaseQuietly DEF KeepsLease
<1> QED
  BY <1>1, <1>2, <1>3, <1>4 DEF Polling

LEMMA ReconciledSubmits ==
    ASSUME TypeOK, SubmitInv, NEW t \in Tokens, Reconciled(t)
    PROVE  SubmitInv'
<1>1. CASE NeverSent /\ run' = [run EXCEPT ![t] = Release(t, "ready")]
  <2>1. \A s \in Tokens : ~Active(s)
    BY <1>1 DEF NeverSent, Active
  <2>2. Release(t, "ready").pc = "release"
    BY GoesTo DEF States
  <2>3. \A s \in Tokens : ~Active(s)'
    BY <1>1, <2>1, <2>2 DEF Active, Reconciled, TypeOK
  <2> QED
    BY <2>3 DEF SubmitInv
<1>2. CASE \E r : /\ run' = [run EXCEPT ![t] = r] /\ r.pc = "release"
                  /\ r.to \in {"reconciling", "submitted"}
  <2>1. Quiet
    BY <1>2, RunQuietly DEF Reconciled, Active, Holds
  <2> QED
    BY <2>1, QuietStep
<1>3. \A r \in Tokens : /\ [Release(t, "submitted") EXCEPT !.found = r].pc = "release"
                         /\ [Release(t, "submitted") EXCEPT !.found = r].to = "submitted"
  BY DEF Release, TypeOK, Runs
<1>4. Release(t, "reconciling").pc = "release" /\ Release(t, "reconciling").to = "reconciling"
  BY GoesTo DEF States
<1> QED
  BY <1>1, <1>2, <1>3, <1>4 DEF Reconciled, Become

(* A settlement ends the job and takes the lease with it.                  *)
LEMMA SettledRow ==
    ASSUME TypeOK,
           (\E t \in Tokens : SettleDone(t))
             \/ (\E why \in Reasons \cup {"none"} : \E who : SettleFailed(why, who))
    PROVE  row'.state = "done" /\ row'.token = NoToken /\ ~row'.live
<1>1. CASE \E t \in Tokens : SettleDone(t)
  <2> DEFINE new == [row EXCEPT !.state = "done", !.token = NoToken, !.live = FALSE]
  <2>1. new \in Rows /\ new.state = "done" /\ new.token = NoToken /\ ~new.live
    BY DEF TypeOK, Rows, States
  <2>2. Write(new)
    BY <1>1 DEF SettleDone
  <2> HIDE DEF new
  <2> QED
    BY <2>1, <2>2, WriteSame DEF SameLease
<1>2. CASE \E why \in Reasons \cup {"none"} : \E who : SettleFailed(why, who)
  <2> PICK why \in Reasons \cup {"none"} : \E who : SettleFailed(why, who)
    BY <1>2
  <2> PICK who : SettleFailed(why, who)
    OBVIOUS
  <2> DEFINE new == [row EXCEPT !.state = "done", !.token = NoToken, !.live = FALSE,
                                !.error = why]
  <2>1. new \in Rows /\ new.state = "done" /\ new.token = NoToken /\ ~new.live
    BY DEF TypeOK, Rows, States
  <2>2. Write(new)
    BY DEF SettleFailed
  <2> HIDE DEF new
  <2> QED
    BY <2>1, <2>2, WriteSame DEF SameLease
<1> QED
  BY <1>1, <1>2

(* What a step that may settle does to the lease.                          *)
SettlesOrNot ==
    \/ row' = row
    \/ row'.state = "done" /\ row'.token = NoToken /\ ~row'.live

LEMMA ReleaseSummary ==
    ASSUME TypeOK, NEW t \in Tokens, ReleaseJob(t)
    PROVE  \E r : /\ run' = [run EXCEPT ![t] = r]
                  /\ r.pc \notin {"payload", "send"}
                  /\ r.pc \in {"release", "handover"} => r.to = "reconciling"
                  /\ \/ SameLease(row', row)
                     \/ Holds(t) /\ row'.state = run[t].to /\ ~row'.live
                                 /\ row'.token = NoToken
<1>1. Released(t) \in Rows /\ Released(t).state = run[t].to
      /\ Released(t).token = NoToken /\ ~Released(t).live
  <2>1. row \in Rows
    BY DEF TypeOK
  <2>2. run[t].to \in States /\ run[t].found \in Refs /\ row.ref \in Refs
    BY <2>1 DEF TypeOK, Runs, Rows
  <2>3. (IF run[t].found = NoRef THEN row.ref ELSE run[t].found) \in Refs
    BY <2>2
  <2> QED
    BY <2>1, <2>2, <2>3 DEF Released, Rows
<1> DEFINE caught == [Catch(t) EXCEPT !.found = NoRef]
<1>2. PICK error \in {Over, caught} :
        Call(t, Holds(t), Released(t), Over, Over, error)
  BY DEF ReleaseJob
<1>3. /\ Over.pc = "over"
      /\ caught.pc \in {"release", "fail"}
      /\ caught.pc = "release" => caught.to = "reconciling"
  BY GoesTo, NextCalls DEF Runs
<1>4. Holds(t) \in BOOLEAN
  BY DEF Holds, TypeOK, Rows
<1> HIDE DEF caught
<1>5. PICK r \in {Over, error} :
        /\ run' = [run EXCEPT ![t] = r]
        /\ SameLease(row', row) \/ (Holds(t) /\ SameLease(row', Released(t)))
  BY <1>1, <1>2, <1>4, CallSummary
<1>6. /\ r.pc \notin {"payload", "send"}
      /\ r.pc \in {"release", "handover"} => r.to = "reconciling"
  BY <1>2, <1>3, <1>5
<1>7. \/ SameLease(row', row)
      \/ Holds(t) /\ row'.state = run[t].to /\ ~row'.live /\ row'.token = NoToken
  BY <1>1, <1>5 DEF SameLease
<1> QED
  BY <1>5, <1>6, <1>7

LEMMA EndingSubmits ==
    ASSUME TypeOK, SubmitInv, NEW t \in Tokens, Ending(t)
    PROVE  SubmitInv'
<1>1. CASE FailJob(t)
  <2>1. run[t].why \in Reasons \cup {"none"}
    BY DEF TypeOK, Runs
  <2>2. SettlesOrNot
    BY <1>1, <2>1, SettledRow DEF FailJob, TryFailed, Unsettled, SettlesOrNot
  <2>3. run' = [run EXCEPT ![t] = Over] /\ Over.pc = "over"
    BY <1>1, GoesTo DEF FailJob, Become
  <2>4. Quiet
    BY <1>1, <2>2, <2>3, RunQuietly DEF FailJob, SettlesOrNot, Active, Holds
  <2> QED
    BY <2>4, QuietStep
<1>2. CASE ReleaseJob(t)
  <2>1. PICK r : /\ run' = [run EXCEPT ![t] = r]
                 /\ r.pc \notin {"payload", "send"}
                 /\ r.pc \in {"release", "handover"} => r.to = "reconciling"
                 /\ \/ SameLease(row', row)
                    \/ Holds(t) /\ row'.state = run[t].to /\ ~row'.live
                                /\ row'.token = NoToken
    BY <1>2, ReleaseSummary
  <2>2. prov' = prov /\ (At(t, "release") \/ At(t, "handover"))
    BY <1>2 DEF ReleaseJob
  <2>3. CASE row'.state = "ready" => row.state = "ready"
    <3>1. \A s \in Tokens : row'.token = s /\ row'.live => Holds(s)
      BY <2>1 DEF SameLease, Holds
    <3>2. Quiet
      BY <2>1, <2>2, <2>3, <3>1, RunQuietly DEF Active
    <3> QED
      BY <3>2, QuietStep
  <2>4. CASE row'.state = "ready" /\ row.state # "ready"
    <3>1. Holds(t) /\ HandingBack(t)
      BY <2>1, <2>2, <2>4 DEF SameLease, HandingBack, At
    <3>2. \A s \in Tokens : ~Active(s)
      BY <3>1 DEF SubmitInv
    <3>3. \A s \in Tokens : ~Active(s)'
      BY <2>1, <2>2, <3>2 DEF Active, TypeOK
    <3> QED
      BY <3>3 DEF SubmitInv
  <2> QED
    BY <2>3, <2>4
<1> QED
  BY <1>1, <1>2 DEF Ending

LEMMA FinishingQuietly ==
    ASSUME TypeOK, NEW t \in Tokens, Finishing(t)
    PROVE  Quiet
<1> USE GoesTo
<1>1. CASE ClaimSave(t)
  BY <1>1, KeepsLeaseQuietly DEF KeepsLease
<1>2. CASE StoreObject(t) \/ UnknownBudget(t) \/ DropLostObject(t)
  <2>1. [Goto(t, "giveup") EXCEPT !.why = "store_failed"].pc = "giveup"
    BY DEF Goto, TypeOK, Runs
  <2>2. Goto(t, "keep").pc = "keep" /\ Goto(t, "retry").pc = "retry"
        /\ Goto(t, "status").pc = "status" /\ Goto(t, "unclaim").pc = "unclaim"
    BY DEF Calls
  <2>3. CASE StoreObject(t)
    <3>1. \/ run' = [run EXCEPT ![t] = Goto(t, "keep")]
          \/ run' = [run EXCEPT ![t] = [Goto(t, "giveup") EXCEPT !.why = "store_failed"]]
          \/ run' = [run EXCEPT ![t] = Goto(t, "retry")]
      BY <2>3 DEF StoreObject, Become
    <3>2. PICK r : run' = [run EXCEPT ![t] = r] /\ r.pc \in {"keep", "giveup", "retry"}
      BY <2>1, <2>2, <3>1
    <3>3. prov' = prov /\ row' = row
      BY <2>3 DEF StoreObject
    <3> QED
      BY <3>2, <3>3, RunQuietly DEF Active, Holds
  <2>4. CASE UnknownBudget(t)
    <3>1. \/ run' = [run EXCEPT ![t] = Goto(t, "status")]
          \/ run' = [run EXCEPT ![t] = Goto(t, "unclaim")]
      BY <2>4 DEF UnknownBudget, Become
    <3> QED
      BY <2>2, <2>4, <3>1, RunQuietly DEF UnknownBudget, Active, Holds
  <2>5. CASE DropLostObject(t)
    <3>1. run' = [run EXCEPT ![t] = Goto(t, "status")]
      BY <2>5 DEF DropLostObject, Become
    <3> QED
      BY <2>2, <2>5, <3>1, RunQuietly DEF DropLostObject, Active, Holds
  <2> QED
    BY <1>2, <2>3, <2>4, <2>5
<1>3. CASE KeepResult(t)
  <2>1. PICK r : run' = [run EXCEPT ![t] = r] /\ r.pc \in {"status", "unclaim", "drop"}
    BY <1>3 DEF KeepResult, Become, Calls
  <2>2. SettlesOrNot
    BY <1>3, SettledRow DEF KeepResult, Unsettled, SettlesOrNot
  <2> QED
    BY <1>3, <2>1, <2>2, RunQuietly DEF KeepResult, SettlesOrNot, Active, Holds
<1>4. CASE ReleaseClaim(t)
  BY <1>4, KeepsLeaseQuietly DEF KeepsLease
<1>5. CASE GiveUp(t)
  <2>1. PICK r : /\ run' = [run EXCEPT ![t] = r]
                 /\ r.pc \in {"status", "release", "fail", "over"}
                 /\ r.pc = "release" => r.to = "reconciling"
    BY <1>5 DEF GiveUp, Become, Calls
  <2>2. SettlesOrNot
    BY <1>5, SettledRow DEF GiveUp, TryFailed, Unsettled, SettlesOrNot, Reasons
  <2> QED
    BY <1>5, <2>1, <2>2, RunQuietly DEF GiveUp, SettlesOrNot, Active, Holds
<1>6. CASE ReadStatus(t)
  <2> DEFINE call == IF AnswersInline THEN "handover" ELSE "release"
             to == IF gen.status = "pending" THEN "submitted" ELSE "done"
             next == [Goto(t, call) EXCEPT !.to = to]
  <2>1. next.pc = call /\ next.to = to
    BY DEF Goto, TypeOK, Runs
  <2>2. run' = [run EXCEPT ![t] = next] \/ run' = [run EXCEPT ![t] = Over]
    BY <1>6 DEF ReadStatus, Become
  <2>3. call \in {"release", "handover"} /\ to # "ready"
    OBVIOUS
  <2> HIDE DEF call, to, next
  <2> QED
    BY <1>6, <2>1, <2>2, <2>3, RunQuietly DEF ReadStatus, Active, Holds
<1> QED
  BY <1>1, <1>2, <1>3, <1>4, <1>5, <1>6 DEF Finishing

LEMMA RouteQuietly ==
    ASSUME TypeOK, Route
    PROVE  Quiet
<1>1. run' = run /\ prov' = prov
  BY DEF Route, RouteRead, RouteMark, RouteSettle, RouteDies
<1>2. CASE RouteSettle
  <2>1. SettlesOrNot
    BY <1>2, SettledRow DEF RouteSettle, TryFailed, Unsettled, SettlesOrNot, Reasons
  <2> QED
    BY <1>1, <2>1 DEF Quiet, SettlesOrNot, Active, HandingBack, Holds, TypeOK
<1>3. CASE ~RouteSettle
  <2>1. row'.state = row.state /\ row'.token = row.token /\ row'.live = row.live
    BY <1>3 DEF Route, RouteRead, RouteMark, RouteDies, Settled, TypeOK, Rows
  <2> QED
    BY <1>1, <2>1 DEF Quiet, Active, HandingBack, Holds
<1> QED
  BY <1>2, <1>3

LEMMA SweepQuietly ==
    ASSUME TypeOK, Sweep
    PROVE  Quiet
<1>1. run' = run /\ prov' = prov /\ row \in Rows /\ NoToken \notin Tokens
  BY DispatchAssumption DEF Sweep, ExpireLease, ReconcileStale, TypeOK
<1>2. CASE ExpireLease
  <2>1. row'.state = row.state /\ row'.token = NoToken
    BY <1>1, <1>2 DEF ExpireLease, Rows
  <2> QED
    BY <1>1, <2>1 DEF Quiet, Active, HandingBack, Holds
<1>3. CASE ReconcileStale
  <2> DEFINE new == [row EXCEPT !.state = "reconciling"]
  <2>1. new \in Rows /\ new.state = "reconciling" /\ new.token = row.token
    BY <1>1 DEF Rows, States
  <2>2. Write(new)
    BY <1>3 DEF ReconcileStale
  <2> HIDE DEF new
  <2>3. row'.state = "reconciling" /\ row'.token = row.token /\ row.token = NoToken
    BY <1>3, <2>1, <2>2, WriteSame DEF SameLease, ReconcileStale
  <2> QED
    BY <1>1, <2>3 DEF Quiet, Active, HandingBack, Holds
<1> QED
  BY <1>2, <1>3 DEF Sweep

(* The operator says ready only of a job none of whose requests was sent.  *)
LEMMA OperatorSubmits ==
    ASSUME TypeOK, SubmitInv, Operator
    PROVE  SubmitInv'
<1>1. run' = run /\ prov' = prov /\ row \in Rows /\ NoToken \notin Tokens
  BY DispatchAssumption
     DEF Operator, ResolveReference, ResolveNotSubmitted, Resolve, TypeOK
<1>2. ASSUME NEW state \in States, NEW ref \in Refs, Resolve(state, ref)
      PROVE  row'.state = state /\ row'.token = NoToken
  <2> DEFINE new == [row EXCEPT !.state = state, !.ref = ref, !.token = NoToken,
                                !.save = "free"]
  <2>1. new \in Rows /\ new.state = state /\ new.token = NoToken
    BY <1>1 DEF Rows
  <2>2. Write(new)
    BY <1>2 DEF Resolve
  <2> HIDE DEF new
  <2> QED
    BY <2>1, <2>2, WriteSame DEF SameLease
<1>3. CASE ResolveReference
  <2>1. row'.state = "submitted" /\ row'.token = NoToken
    BY <1>2, <1>3 DEF ResolveReference, States, Refs
  <2>2. Quiet
    BY <1>1, <2>1 DEF Quiet, Active, HandingBack, Holds
  <2> QED
    BY <2>2, QuietStep
<1>4. CASE ResolveNotSubmitted
  <2>1. \A s \in Tokens : ~Active(s)'
    BY <1>1, <1>4 DEF ResolveNotSubmitted, NeverSent, Active
  <2> QED
    BY <2>1 DEF SubmitInv
<1> QED
  BY <1>3, <1>4 DEF Operator

LEMMA OutsideQuietly ==
    ASSUME TypeOK,
           Lapse \/ WindowPasses \/ \E t \in Tokens : Crash(t) \/ Provider(t)
    PROVE  Quiet
<1>1. CASE Lapse
  <2>1. run' = run /\ prov' = prov /\ row'.state = row.state /\ ~row'.live
    BY <1>1 DEF Lapse, TypeOK, Rows
  <2> QED
    BY <2>1 DEF Quiet, Active, HandingBack, Holds
<1>2. CASE WindowPasses
  <2>1. /\ run' = run /\ prov' = prov /\ row'.state = row.state
        /\ row'.token = row.token /\ row'.live = row.live
    BY <1>2 DEF WindowPasses, TypeOK, Rows
  <2> QED
    BY <2>1 DEF Quiet, Active, HandingBack, Holds
<1>3. ASSUME NEW t \in Tokens, Crash(t)
      PROVE  Quiet
  <2>1. /\ run' = [run EXCEPT ![t] = Over] /\ Over.pc = "over"
        /\ prov' = prov /\ row' = row
    BY <1>3 DEF Crash, Become, Over
  <2> QED
    BY <2>1, RunQuietly DEF Active, Holds
<1>4. ASSUME NEW t \in Tokens, Provider(t)
      PROVE  Quiet
  <2>1. run' = run /\ row' = row
    BY <1>4 DEF Provider
  <2>2. \A s \in Tokens : prov'[s] # "none" => prov[s] # "none"
    BY <1>4 DEF Provider, TypeOK
  <2> QED
    BY <2>1, <2>2 DEF Quiet, Active, HandingBack, Holds
<1> QED
  BY <1>1, <1>2, <1>3, <1>4

LEMMA SubmitStep ==
    ASSUME TypeOK, SubmitInv, [Next]_vars
    PROVE  SubmitInv'
<1>1. CASE UNCHANGED vars
  BY <1>1 DEF vars, SubmitInv, Active, HandingBack, Holds
<1>2. ASSUME NEW t \in Tokens, RunStep(t)
      PROVE  SubmitInv'
  <2>1. CASE Submitting(t)
    BY <2>1, BeginSubmitSubmits, AnsweredErrorSubmits, SubmittingQuietly, QuietStep
  <2>2. CASE Polling(t)
    BY <2>2, PollingQuietly, ReconciledSubmits, QuietStep
  <2>3. CASE Finishing(t)
    BY <2>3, FinishingQuietly, QuietStep
  <2>4. CASE Ending(t)
    BY <2>4, EndingSubmits
  <2> QED
    BY <1>2, <2>1, <2>2, <2>3, <2>4 DEF RunStep
<1>3. CASE \E t \in Tokens : Claim(t)
  BY <1>3, ClaimSubmits
<1>4. CASE Lapse \/ WindowPasses \/ \E t \in Tokens : Crash(t) \/ Provider(t)
  BY <1>4, OutsideQuietly, QuietStep
<1>5. CASE Route \/ Sweep
  BY <1>5, RouteQuietly, SweepQuietly, QuietStep
<1>6. CASE Operator
  BY <1>6, OperatorSubmits
<1> QED
  BY <1>1, <1>2, <1>3, <1>4, <1>5, <1>6 DEF Next

LEMMA SubmitInvariant == Spec => []SubmitInv
<1>1. Init => SubmitInv
  BY DEF Init, SubmitInv, Active, HandingBack, Over
<1>2. TypeOK /\ SubmitInv /\ [Next]_vars => SubmitInv'
  BY SubmitStep
<1> QED
  BY <1>1, <1>2, TypeCorrect, PTL DEF Spec

(* No crash, lapsed lease, lost answer, retry or cancellation makes the    *)
(* provider render one generation twice.                                   *)
THEOREM RendersOnce == Spec => []AtMostOneRender
<1>1. SubmitInv => AtMostOneRender
  BY DEF SubmitInv, AtMostOneRender, Rendering, Active
<1> QED
  BY <1>1, SubmitInvariant, PTL

(* A job is put back to ready, which resubmits it, only when nothing of it *)
(* is at the provider and no live run can still send it there.             *)
THEOREM ReadyIsUnsent == Spec => []ReadyMeansUnsent
<1>1. SubmitInv => ReadyMeansUnsent
  BY DEF SubmitInv, ReadyMeansUnsent, NeverSent, Active
<1> QED
  BY <1>1, SubmitInvariant, PTL

-----------------------------------------------------------------------------
(* The job ends with its generation                                        *)

(* The run is about to put the job to done.                                *)
Closing(t) == run[t].pc \in {"release", "handover"} /\ run[t].to = "done"

(* JobEndsWithGeneration needs two facts more: only a run that has read a  *)
(* settled status says done, and nobody holds the lease of a done job, so  *)
(* a run that was overtaken by a settlement can no longer reopen it.       *)
EndInv ==
    /\ JobEndsWithGeneration
    /\ row.live => row.state # "done"
    /\ \A t \in Tokens : Closing(t) => gen.status # "pending"

(* A step that neither ends nor reopens the job, nor prepares to end it.   *)
LEMMA EndsNothing ==
    ASSUME EndInv, gen' = gen,
           row'.state = "done" <=> row.state = "done",
           row'.live => row'.state # "done",
           \A s \in Tokens : Closing(s)' => Closing(s)
    PROVE  EndInv'
  BY DEF EndInv, JobEndsWithGeneration

LEMMA RunEndsNothing ==
    ASSUME TypeOK, EndInv, gen' = gen, NEW t \in Tokens, NEW r,
           run' = [run EXCEPT ![t] = r],
           r.pc \in {"release", "handover"} => r.to # "done",
           row'.state = "done" <=> row.state = "done",
           row'.live => row'.state # "done"
    PROVE  EndInv'
<1>1. \A s \in Tokens : Closing(s)' => Closing(s)
  BY DEF TypeOK, Closing
<1> QED
  BY <1>1, EndsNothing

LEMMA SettlementEnds ==
    ASSUME TypeOK,
           (\E t \in Tokens : SettleDone(t))
             \/ (\E why \in Reasons \cup {"none"} : \E who : SettleFailed(why, who))
    PROVE  EndInv'
<1>1. row'.state = "done" /\ ~row'.live
  BY SettledRow
<1>2. gen'.status # "pending"
  <2>1. CASE \E t \in Tokens : SettleDone(t)
    BY <2>1 DEF SettleDone
  <2>2. CASE \E why \in Reasons \cup {"none"} : \E who : SettleFailed(why, who)
    <3>1. \E code : gen' = [gen EXCEPT !.status = "failed", !.code = code]
      BY <2>2 DEF SettleFailed
    <3> QED
      BY <3>1 DEF TypeOK
  <2> QED
    BY <2>1, <2>2
<1> QED
  BY <1>1, <1>2 DEF EndInv, JobEndsWithGeneration

(* The steps of a run that write nothing in the database.                  *)
KeepsRow(t) ==
    \/ ResolvePayload(t) \/ Send(t) \/ Accepted(t) \/ Rejected(t)
    \/ AnsweredError(t) \/ NoAnswer(t)
    \/ CancelWithProvider(t) \/ CheckRunning(t) \/ CheckUnavailable(t)
    \/ CheckFailed(t) \/ CheckDenied(t) \/ CheckSucceeded(t) \/ Reconciled(t)
    \/ StoreObject(t) \/ UnknownBudget(t) \/ DropLostObject(t) \/ Crash(t)

LEMMA KeepsRowEnds ==
    ASSUME TypeOK, EndInv, NEW t \in Tokens, KeepsRow(t)
    PROVE  EndInv'
<1> USE GoesTo
<1>1. row' = row /\ gen' = gen
  BY DEF KeepsRow, ResolvePayload, Send, Accepted, Rejected, AnsweredError, NoAnswer,
         CancelWithProvider, CheckRunning, CheckUnavailable, CheckFailed, CheckDenied,
         CheckSucceeded, Reconciled, StoreObject, UnknownBudget, DropLostObject, Crash,
         Settled
<1>2. ASSUME NEW r, run' = [run EXCEPT ![t] = r],
             r.pc \in {"release", "handover"} => r.to # "done"
      PROVE  EndInv'
  BY <1>1, <1>2, RunEndsNothing DEF EndInv
<1>3. \A call \in Calls : Goto(t, call).pc = call
  OBVIOUS
<1>4. \A state \in {"ready", "submitted", "reconciling"} :
         Release(t, state).pc = "release" /\ Release(t, state).to = state
  BY DEF States
<1>5. \A why \in Reasons : Fail(t, why).pc = "fail"
  OBVIOUS
<1>6. CASE ResolvePayload(t) \/ Send(t) \/ Accepted(t) \/ CheckSucceeded(t)
  BY <1>2, <1>3, <1>5, <1>6
     DEF ResolvePayload, Send, Accepted, CheckSucceeded, Become, Calls, Reasons
<1>7. CASE Rejected(t) \/ CheckFailed(t) \/ CheckDenied(t)
  BY <1>2, <1>5, <1>7 DEF Rejected, CheckFailed, CheckDenied, Become, Reasons
<1>8. CASE AnsweredError(t)
  <2>1. \/ run' = [run EXCEPT ![t] = Release(t, "ready")]
        \/ run' = [run EXCEPT ![t] = Fail(t, "answered_error")]
    BY <1>8 DEF AnsweredError, Become
  <2> QED
    BY <1>2, <1>4, <1>5, <2>1 DEF Reasons
<1>9. CASE NoAnswer(t)
  <2>1. run' = [run EXCEPT ![t] = Catch(t)]
    BY <1>9 DEF NoAnswer, Become
  <2> QED
    BY <1>2, <2>1
<1>10. CASE CancelWithProvider(t) \/ CheckRunning(t) \/ CheckUnavailable(t)
  BY <1>2, <1>3, <1>4, <1>5, <1>10
     DEF CancelWithProvider, CheckRunning, CheckUnavailable, Become, Calls, Reasons
<1>11. CASE Reconciled(t)
  <2>1. \A r \in Tokens : [Release(t, "submitted") EXCEPT !.found = r].to = "submitted"
    BY DEF Release, TypeOK, Runs
  <2> QED
    BY <1>2, <1>4, <1>11, <2>1 DEF Reconciled, Become
<1>12. CASE StoreObject(t)
  <2>1. [Goto(t, "giveup") EXCEPT !.why = "store_failed"].pc = "giveup"
    BY DEF Goto, TypeOK, Runs
  <2>2. \/ run' = [run EXCEPT ![t] = Goto(t, "keep")]
        \/ run' = [run EXCEPT ![t] = [Goto(t, "giveup") EXCEPT !.why = "store_failed"]]
        \/ run' = [run EXCEPT ![t] = Goto(t, "retry")]
    BY <1>12 DEF StoreObject, Become
  <2>3. Goto(t, "keep").pc = "keep" /\ Goto(t, "retry").pc = "retry"
    BY <1>3 DEF Calls
  <2>4. CASE run' = [run EXCEPT ![t] = Goto(t, "keep")]
    BY <1>2, <2>3, <2>4
  <2>5. CASE run' = [run EXCEPT ![t] = Goto(t, "retry")]
    BY <1>2, <2>3, <2>5
  <2>6. CASE run' = [run EXCEPT ![t] = [Goto(t, "giveup") EXCEPT !.why = "store_failed"]]
    BY <1>2, <2>1, <2>6
  <2> QED
    BY <2>2, <2>4, <2>5, <2>6
<1>13. CASE UnknownBudget(t)
  <2>1. \/ run' = [run EXCEPT ![t] = Goto(t, "status")]
        \/ run' = [run EXCEPT ![t] = Goto(t, "unclaim")]
    BY <1>13 DEF UnknownBudget, Become
  <2> QED
    BY <1>2, <1>3, <2>1 DEF Calls
<1>14. CASE DropLostObject(t)
  <2>1. run' = [run EXCEPT ![t] = Goto(t, "status")]
    BY <1>14 DEF DropLostObject, Become
  <2> QED
    BY <1>2, <1>3, <2>1 DEF Calls
<1>15. CASE Crash(t)
  BY <1>2, <1>15 DEF Crash, Become
<1> QED
  BY <1>6, <1>7, <1>8, <1>9, <1>10, <1>11, <1>12, <1>13, <1>14, <1>15 DEF KeepsRow

(* A finisher's settlement and the read of its decision.                   *)
LEMMA DecisionEnds ==
    ASSUME TypeOK, EndInv, NEW t \in Tokens,
           KeepResult(t) \/ GiveUp(t) \/ FailJob(t) \/ ReadStatus(t)
    PROVE  EndInv'
<1> USE GoesTo
<1>1. ASSUME NEW r, run' = [run EXCEPT ![t] = r], row' = row, gen' = gen,
             r.pc \in {"release", "handover"} => r.to # "done"
      PROVE  EndInv'
  BY <1>1, RunEndsNothing DEF EndInv
<1>2. run[t].why \in Reasons \cup {"none"} /\ "store_failed" \in Reasons
  BY DEF TypeOK, Runs, Reasons
<1>3. CASE KeepResult(t)
  <2>1. CASE Unsettled
    <3>1. PICK r : run' = [run EXCEPT ![t] = r] /\ r.pc \in {"status", "unclaim", "drop"}
      BY <1>3 DEF KeepResult, Become, Calls
    <3> QED
      BY <1>1, <2>1, <3>1 DEF Unsettled
  <2>2. CASE SettleDone(t)
    BY <2>2, SettlementEnds
  <2> QED
    BY <1>3, <2>1, <2>2 DEF KeepResult
<1>4. CASE GiveUp(t)
  <2>1. CASE Unsettled
    <3>1. PICK r : /\ run' = [run EXCEPT ![t] = r]
                   /\ r.pc \in {"status", "release", "fail", "over"}
                   /\ r.pc = "release" => r.to = "reconciling"
      BY <1>4 DEF GiveUp, Become, Calls
    <3> QED
      BY <1>1, <2>1, <3>1 DEF Unsettled
  <2>2. CASE SettleFailed("store_failed", "worker")
    BY <1>2, <2>2, SettlementEnds
  <2> QED
    BY <1>4, <2>1, <2>2 DEF GiveUp, TryFailed
<1>5. CASE FailJob(t)
  <2>1. CASE Unsettled
    BY <1>1, <1>5, <2>1 DEF FailJob, Unsettled, Become
  <2>2. CASE SettleFailed(run[t].why, "worker")
    BY <1>2, <2>2, SettlementEnds
  <2> QED
    BY <1>5, <2>1, <2>2 DEF FailJob, TryFailed
<1>6. CASE ReadStatus(t)
  <2>1. row' = row /\ gen' = gen
    BY <1>6 DEF ReadStatus, Settled
  <2>2. CASE gen.status # "pending"
    BY <2>1, <2>2 DEF EndInv, JobEndsWithGeneration
  <2>3. CASE gen.status = "pending"
    <3> DEFINE call == IF AnswersInline THEN "handover" ELSE "release"
               next == [Goto(t, call) EXCEPT !.to = "submitted"]
    <3>1. next.to = "submitted"
      BY DEF Goto, TypeOK, Runs
    <3>2. run' = [run EXCEPT ![t] = next] \/ run' = [run EXCEPT ![t] = Over]
      BY <1>6, <2>3 DEF ReadStatus, Become
    <3> HIDE DEF next
    <3> QED
      BY <1>1, <2>1, <3>1, <3>2
  <2> QED
    BY <2>2, <2>3
<1> QED
  BY <1>3, <1>4, <1>5, <1>6

(* A release of a live lease: it never says done, for the generation would *)
(* be settled, and a settled job has no lease.                             *)
LEMMA ReleaseEnds ==
    ASSUME TypeOK, EndInv, NEW t \in Tokens, ReleaseJob(t)
    PROVE  EndInv'
<1>1. PICK r : /\ run' = [run EXCEPT ![t] = r]
               /\ r.pc \in {"release", "handover"} => r.to = "reconciling"
               /\ \/ SameLease(row', row)
                  \/ Holds(t) /\ row'.state = run[t].to /\ ~row'.live
  BY ReleaseSummary
<1>2. gen' = gen /\ (At(t, "release") \/ At(t, "handover"))
  BY DEF ReleaseJob, Settled
<1>3. CASE SameLease(row', row)
  BY <1>1, <1>2, <1>3, RunEndsNothing DEF SameLease, EndInv
<1>4. CASE Holds(t) /\ row'.state = run[t].to /\ ~row'.live
  <2>1. row.state # "done" /\ gen.status = "pending"
    BY <1>4 DEF Holds, EndInv, JobEndsWithGeneration
  <2>2. run[t].to # "done"
    BY <1>2, <2>1 DEF EndInv, Closing, At
  <2> QED
    BY <1>1, <1>2, <1>4, <2>1, <2>2, RunEndsNothing
<1> QED
  BY <1>1, <1>3, <1>4

LEMMA BeginSubmitEnds ==
    ASSUME TypeOK, EndInv, NEW t \in Tokens, BeginSubmit(t)
    PROVE  EndInv'
<1>1. gen' = gen
  BY DEF BeginSubmit, Settled
<1>2. PICK r : run' = [run EXCEPT ![t] = r] /\ r.pc \in {"payload", "over"}
  BY BeginSubmitSummary, GoesTo DEF Calls
<1>3. row'.live = row.live /\ ((row'.state = "done") <=> (row.state = "done"))
  BY BeginSubmitSummary
<1> QED
  BY <1>1, <1>2, <1>3, RunEndsNothing DEF EndInv

LEMMA ClaimEnds ==
    ASSUME TypeOK, EndInv, NEW t \in Tokens, Claim(t)
    PROVE  EndInv'
<1>1. row'.state = row.state /\ row.state # "done" /\ gen' = gen
  BY DEF Claim, TypeOK, Rows
<1>2. PICK r : /\ run' = [run EXCEPT ![t] = r]
               /\ r.pc = "release" => r.to # "done"
               /\ r.pc # "handover"
  <2>1. Claimed \in Runs /\ Claimed.pc = "over"
    BY NextCalls DEF Claimed, TypeOK, Rows, Runs, Over
  <2>2. LET r == [Claimed EXCEPT !.pc = "release", !.to = "ready"]
        IN  r.pc = "release" /\ r.to = "ready"
    BY <2>1 DEF Runs
  <2> QED
    BY <2>1, <2>2, BeginGoes DEF Claim, Become
<1> QED
  BY <1>1, <1>2, RunEndsNothing

(* The route, the sweeps, the operator, the clock and the provider.        *)
LEMMA OutsideEnds ==
    ASSUME TypeOK, EndInv,
           Route \/ Sweep \/ Operator \/ Lapse \/ WindowPasses
             \/ \E t \in Tokens : Provider(t)
    PROVE  EndInv'
<1>1. run' = run /\ row \in Rows
  BY DEF Route, RouteRead, RouteMark, RouteSettle, RouteDies, Sweep, ExpireLease,
         ReconcileStale, Operator, ResolveReference, ResolveNotSubmitted, Resolve,
         Lapse, WindowPasses, Provider, TypeOK
<1>2. ASSUME gen' = gen, row'.state = "done" <=> row.state = "done",
             row'.live => row'.state # "done"
      PROVE  EndInv'
  BY <1>1, <1>2, EndsNothing DEF Closing
<1>3. CASE RouteSettle
  <2>1. CASE Unsettled
    BY <1>2, <2>1 DEF Unsettled, EndInv
  <2>2. CASE SettleFailed("cancelled", "route")
    BY <2>2, SettlementEnds DEF Reasons
  <2> QED
    BY <1>3, <2>1, <2>2 DEF RouteSettle, TryFailed
<1>4. CASE RouteRead \/ RouteMark \/ RouteDies \/ WindowPasses
             \/ \E t \in Tokens : Provider(t)
  <2>1. row'.state = row.state /\ row'.live = row.live /\ gen' = gen
    BY <1>1, <1>4
       DEF RouteRead, RouteMark, RouteDies, WindowPasses, Provider, Settled, Rows
  <2> QED
    BY <1>2, <2>1 DEF EndInv
<1>5. CASE ExpireLease \/ Lapse
  <2>1. row'.state = row.state /\ (row'.live => row.live) /\ gen' = gen
    BY <1>1, <1>5 DEF ExpireLease, Lapse, Settled, Rows
  <2> QED
    BY <1>2, <2>1 DEF EndInv
<1>6. CASE ReconcileStale
  <2> DEFINE new == [row EXCEPT !.state = "reconciling"]
  <2>1. new \in Rows /\ new.state = "reconciling"
    BY <1>1 DEF Rows, States
  <2>2. Write(new) /\ gen' = gen /\ row.state # "done"
    BY <1>6 DEF ReconcileStale, Settled
  <2> HIDE DEF new
  <2>3. row'.state = "reconciling"
    BY <2>1, <2>2, WriteSame DEF SameLease
  <2> QED
    BY <1>2, <2>2, <2>3
<1>7. ASSUME NEW state \in {"submitted", "ready"}, NEW ref \in Refs, Resolve(state, ref)
      PROVE  EndInv'
  <2> DEFINE new == [row EXCEPT !.state = state, !.ref = ref, !.token = NoToken,
                                !.save = "free"]
  <2>1. new \in Rows /\ new.state = state
    BY <1>1 DEF Rows, States
  <2>2. Write(new) /\ gen' = gen /\ row.state # "done"
    BY <1>7 DEF Resolve, Settled
  <2> HIDE DEF new
  <2>3. row'.state = state
    BY <2>1, <2>2, WriteSame DEF SameLease
  <2> QED
    BY <1>2, <2>2, <2>3
<1>8. CASE Operator
  BY <1>7, <1>8 DEF Operator, ResolveReference, ResolveNotSubmitted, Refs
<1> QED
  BY <1>3, <1>4, <1>5, <1>6, <1>8 DEF Route, Sweep

LEMMA EndStep ==
    ASSUME TypeOK, EndInv, [Next]_vars
    PROVE  EndInv'
<1>1. CASE UNCHANGED vars
  BY <1>1 DEF vars, EndInv, JobEndsWithGeneration, Closing
<1>2. ASSUME NEW t \in Tokens, RunStep(t)
      PROVE  EndInv'
  <2>1. CASE KeepsLease(t)
    <3>1. gen' = gen
      BY <2>1 DEF KeepsLease, RecordRef, CountPoll, TallyReconciliation, ClaimSave,
                  ReleaseClaim, Settled
    <3>2. row'.state = row.state /\ row'.live = row.live
      BY <2>1, KeepsLeaseStep
    <3>3. PICK r : /\ run' = [run EXCEPT ![t] = r]
                   /\ r.pc \in {"release", "handover"} => r.to # "done"
      BY <2>1, KeepsLeaseStep
    <3> QED
      BY <3>1, <3>2, <3>3, RunEndsNothing DEF EndInv
  <2> QED
    BY <1>2, <2>1, KeepsRowEnds, DecisionEnds, ReleaseEnds, BeginSubmitEnds
       DEF RunStep, Submitting, Polling, Finishing, Ending, KeepsLease, KeepsRow
<1>3. ASSUME NEW t \in Tokens, Claim(t) \/ Crash(t)
      PROVE  EndInv'
  BY <1>3, ClaimEnds, KeepsRowEnds DEF KeepsRow
<1> QED
  BY <1>1, <1>2, <1>3, OutsideEnds DEF Next

(* The job is done exactly when its generation is settled: no run closes a *)
(* job whose generation is still pending, and none reopens one.            *)
THEOREM EndsTogether == Spec => []JobEndsWithGeneration
<1>1. Init => EndInv
  BY DEF Init, EndInv, JobEndsWithGeneration, Closing, Over
<1>2. TypeOK /\ EndInv /\ [Next]_vars => EndInv'
  BY EndStep
<1>3. EndInv => JobEndsWithGeneration
  BY DEF EndInv
<1> QED
  BY <1>1, <1>2, <1>3, TypeCorrect, PTL DEF Spec
-----------------------------------------------------------------------------
(* A run that lost its lease                                               *)

LEMMA WriteFields ==
    ASSUME TypeOK, NEW new \in Rows, Write(new)
    PROVE  /\ row' = [new EXCEPT !.past = row'.past]
           /\ row'.past => new.past
           /\ new.state # row.state /\ row.state = "ready" => ~row'.past
           /\ new = row => row' = row
<1>1. row \in Rows
  BY DEF TypeOK
<1> QED
  BY <1>1 DEF Write, Rows

LEMMA CallOutcome ==
    ASSUME TypeOK, NEW t \in Tokens, NEW applies \in BOOLEAN, NEW new, NEW yes, NEW no,
           NEW error, Call(t, applies, new, yes, no, error)
    PROVE  \/ applies /\ Write(new) /\ run' = [run EXCEPT ![t] = yes]
           \/ ~applies /\ row' = row /\ run' = [run EXCEPT ![t] = no]
           \/ /\ run' = [run EXCEPT ![t] = error]
              /\ row' = row \/ (applies /\ Write(new))
<1>1. row \in Rows /\ (Write(row) => row' = row)
  BY WriteFields DEF TypeOK
<1>2. CASE /\ Write(IF applies THEN new ELSE row)
           /\ run' = [run EXCEPT ![t] = IF applies THEN yes ELSE no]
  <2>1. CASE applies
    BY <1>2, <2>1
  <2>2. CASE ~applies
    BY <1>1, <1>2, <2>2
  <2> QED
    BY <2>1, <2>2
<1>3. CASE /\ \E arrived \in BOOLEAN : Write(IF arrived /\ applies THEN new ELSE row)
           /\ run' = [run EXCEPT ![t] = error]
  <2> PICK arrived \in BOOLEAN : Write(IF arrived /\ applies THEN new ELSE row)
    BY <1>3
  <2>1. CASE arrived /\ applies
    BY <1>3, <2>1
  <2>2. CASE ~(arrived /\ applies)
    BY <1>1, <1>3, <2>2
  <2> QED
    BY <2>1, <2>2
<1> QED
  BY <1>2, <1>3 DEF Call, Become

(* The where clause of a fenced call stops a run without the lease.        *)
LEMMA MuteCall ==
    ASSUME TypeOK, NEW t \in Tokens, NEW applies, NEW new, NEW yes, NEW no, NEW error,
           Call(t, applies, new, yes, no, error), applies = FALSE
    PROVE  row' = row
  BY CallOutcome

LEMMA MuteStep ==
    ASSUME TypeOK, NEW t \in Tokens, RunStep(t) \/ Crash(t), ~Holds(t)
    PROVE  UNCHANGED <<row, gen, refunded, outbox>>
<1>1. ~MaySettle(t)
  BY DispatchAssumption DEF MaySettle, Holds
<1>2. CASE KeepsRow(t) \/ ReadStatus(t)
  BY <1>2 DEF KeepsRow, ResolvePayload, Send, Accepted, Rejected, AnsweredError, NoAnswer,
         CancelWithProvider, CheckRunning, CheckUnavailable, CheckFailed, CheckDenied,
         CheckSucceeded, Reconciled, StoreObject, UnknownBudget, DropLostObject, Crash,
         ReadStatus, Settled
<1>3. CASE KeepResult(t) \/ GiveUp(t) \/ FailJob(t)
  BY <1>1, <1>3 DEF KeepResult, GiveUp, FailJob, TryFailed, Unsettled
<1>4. CASE BeginSubmit(t)
  <2>1. (Holds(t) /\ row.state = "ready") = FALSE
    OBVIOUS
  <2> QED
    BY <1>4, <2>1, MuteCall DEF BeginSubmit, Settled
<1>5. CASE RecordRef(t) \/ CountPoll(t) \/ ReleaseClaim(t) \/ ReleaseJob(t)
  <2>1. Holds(t) = FALSE
    BY DEF Holds, TypeOK, Rows
  <2> QED
    BY <1>5, <2>1, MuteCall DEF RecordRef, CountPoll, ReleaseClaim, ReleaseJob, Settled
<1>6. CASE TallyReconciliation(t)
  <2>1. (Holds(t) /\ row.state \in {"submitting", "reconciling"}) = FALSE
    OBVIOUS
  <2> QED
    BY <1>6, <2>1, MuteCall DEF TallyReconciliation, Settled
<1>7. CASE ClaimSave(t)
  <2>1. (Holds(t) /\ row.state # "done" /\ row.save # "held") = FALSE
    OBVIOUS
  <2> QED
    BY <1>7, <2>1, MuteCall DEF ClaimSave, Settled
<1> QED
  BY <1>2, <1>3, <1>4, <1>5, <1>6, <1>7
     DEF RunStep, Submitting, Polling, Finishing, Ending, KeepsRow

(* Only a run's own steps, its crash and its start change it.              *)
LEMMA OwnSteps ==
    ASSUME TypeOK, [Next]_vars, NEW t \in Tokens, run'[t] # run[t], ~At(t, "over")
    PROVE  RunStep(t) \/ Crash(t)
<1>1. ASSUME NEW s \in Tokens, s # t, Claim(s) \/ RunStep(s) \/ Crash(s) \/ Provider(s)
      PROVE  run'[t] = run[t]
  <2>1. run' = run \/ \E r : run' = [run EXCEPT ![s] = r]
    <3>1. CASE Claim(s) \/ Crash(s) \/ Provider(s)
      BY <3>1 DEF Claim, Crash, Provider, Become
    <3>2. CASE Submitting(s)
      BY <3>2 DEF Submitting, BeginSubmit, ResolvePayload, Send, Accepted, Rejected,
                  AnsweredError, NoAnswer, RecordRef, Become, Call
    <3>3. CASE Polling(s)
      BY <3>3 DEF Polling, CountPoll, CancelWithProvider, CheckRunning, CheckUnavailable,
                  CheckFailed, CheckDenied, CheckSucceeded, TallyReconciliation,
                  Reconciled, Become, Call
    <3>4. CASE Finishing(s)
      BY <3>4 DEF Finishing, ClaimSave, StoreObject, UnknownBudget, KeepResult,
                  DropLostObject, ReleaseClaim, GiveUp, ReadStatus, Become, Call
    <3>5. CASE Ending(s)
      BY <3>5 DEF Ending, ReleaseJob, FailJob, Become, Call
    <3> QED
      BY <1>1, <3>1, <3>2, <3>3, <3>4, <3>5 DEF RunStep
  <2> QED
    BY <1>1, <2>1 DEF TypeOK
<1>2. CASE Route \/ Sweep \/ Operator \/ Lapse \/ WindowPasses
  BY <1>2 DEF Route, RouteRead, RouteMark, RouteSettle, RouteDies, Sweep, ExpireLease,
              ReconcileStale, Operator, ResolveReference, ResolveNotSubmitted, Resolve,
              Lapse, WindowPasses
<1>3. CASE Claim(t) \/ Provider(t)
  BY <1>3 DEF Claim, Fresh, Provider
<1> QED
  BY <1>1, <1>2, <1>3 DEF Next, vars

(* A run whose lease lapsed, was swept or was claimed by another changes   *)
(* neither the rows nor the ledger, whichever call it was about to make.   *)
THEOREM StaleRunsMute == Spec => StaleRunsAreMute
<1>1. ASSUME TypeOK, [Next]_vars, NEW t \in Tokens,
             run[t].pc # "over", run'[t] # run[t], ~(row.token = t /\ row.live)
      PROVE  UNCHANGED <<row, gen, refunded, outbox>>
  BY <1>1, OwnSteps, MuteStep DEF At, Holds
<1>2. TypeOK /\ [Next]_vars =>
        [\A t \in Tokens :
           run[t].pc # "over" /\ run'[t] # run[t] /\ ~(row.token = t /\ row.live)
             => UNCHANGED <<row, gen, refunded, outbox>>]_vars
  BY <1>1
<1> QED
  BY <1>2, TypeCorrect, PTL DEF Spec, StaleRunsAreMute

-----------------------------------------------------------------------------
(* What one step does to a run                                             *)

Final(r) == prov[r] \in {"succeeded", "failed", "stopped"}

(* The calls a run may go on to, and what it knows by then.                *)
NextCall(t, call) ==
    \/ call \in {"release", "handover"}
    \/ call = "payload" /\ At(t, "begin") /\ Holds(t) /\ row.state = "ready" /\ ~row'.past
    \/ call = "send" /\ At(t, "payload")
    \/ call = "answer" /\ At(t, "send")
    \/ call = "record" /\ At(t, "answer")
    \/ call \in {"cancel", "check"} /\ run[t].pc \in {"count", "cancel"}
    \/ call = "lookup" /\ At(t, "tally")
    \/ call = "claimsave" /\ At(t, "check") /\ (run[t].ref \in Tokens => Final(run[t].ref))
    \/ call = "store" /\ (At(t, "claimsave") \/ (At(t, "record") /\ AnswersInline))
    \/ call = "keep" /\ At(t, "store") /\ obj'[t] = "stored"
    \/ call = "giveup" /\ At(t, "store")
    \/ call = "retry" /\ At(t, "store") /\ ~AnswersInline
    \/ call = "drop" /\ At(t, "keep")
    \/ call = "unclaim" /\ run[t].pc \in {"store", "keep"}
    \/ call = "status" /\ run[t].pc \in {"claimsave", "store", "keep", "drop", "retry",
                                         "unclaim", "giveup"}

(* The failures it may settle for.                                         *)
FailsAs(t, why) ==
    \/ At(t, "payload") /\ why = "payload_unavailable"
    \/ At(t, "answer") /\ why = "rejected" /\ prov[t] # "none" /\ prov'[t] = "none"
    \/ /\ AnswersInline /\ why \in {"answered_error", "no_answer"}
       /\ run[t].pc \in {"answer", "record", "giveup", "handover"}
    \/ /\ run[t].pc \in {"cancel", "check"} /\ why \in {"cancelled", "provider_failed"}
       /\ run[t].ref \in Tokens => prov'[run[t].ref] \in {"succeeded", "failed", "stopped"}
    \/ At(t, "check") /\ why = "denied"

Carries(t, r) ==
    /\ r.state = run[t].state /\ r.ref = run[t].ref
    /\ \/ r.found \in {run[t].found, NoRef}
       \/ r.found \in Tokens /\ (At(t, "lookup") \/ (At(t, "record") /\ ~AnswersInline))

Moves(t) ==
    \E r : /\ run' = [run EXCEPT ![t] = r]
           /\ \/ r = Over
              \/ /\ Carries(t, r)
                 /\ IF r.pc = "fail" THEN FailsAs(t, r.why) ELSE NextCall(t, r.pc)

LEMMA MovesOver ==
    ASSUME NEW t \in Tokens, run' = [run EXCEPT ![t] = Over]
    PROVE  Moves(t)
  BY DEF Moves

LEMMA MovesOn ==
    ASSUME TypeOK, NEW t \in Tokens, NEW call \in Calls \ {"fail"}, NextCall(t, call),
           \/ run' = [run EXCEPT ![t] = Goto(t, call)]
           \/ \E state \in States : run' = [run EXCEPT ![t] = [Goto(t, call) EXCEPT !.to = state]]
           \/ \E why \in Reasons : run' = [run EXCEPT ![t] = [Goto(t, call) EXCEPT !.why = why]]
    PROVE  Moves(t)
<1>1. ASSUME NEW r, run' = [run EXCEPT ![t] = r], r.pc = call, Carries(t, r)
      PROVE  Moves(t)
  BY <1>1 DEF Moves
<1>2. run[t] \in Runs
  BY DEF TypeOK
<1>3. Goto(t, call).pc = call /\ Carries(t, Goto(t, call))
  BY <1>2 DEF Runs, Goto, Carries
<1>4. ASSUME NEW state \in States
      PROVE  LET r == [Goto(t, call) EXCEPT !.to = state] IN r.pc = call /\ Carries(t, r)
  BY <1>2 DEF Runs, Goto, Carries
<1>5. ASSUME NEW why \in Reasons
      PROVE  LET r == [Goto(t, call) EXCEPT !.why = why] IN r.pc = call /\ Carries(t, r)
  BY <1>2 DEF Runs, Goto, Carries
<1> QED
  BY <1>1, <1>3, <1>4, <1>5

LEMMA MovesBack ==
    ASSUME TypeOK, NEW t \in Tokens, NEW state \in States,
           run' = [run EXCEPT ![t] = Release(t, state)]
    PROVE  Moves(t)
<1>1. Release(t, state).pc = "release" /\ Carries(t, Release(t, state))
  BY DEF TypeOK, Runs, Release, Carries
<1> QED
  BY <1>1 DEF Moves, NextCall

LEMMA MovesToFail ==
    ASSUME TypeOK, NEW t \in Tokens, NEW why \in Reasons, FailsAs(t, why),
           run' = [run EXCEPT ![t] = Fail(t, why)]
    PROVE  Moves(t)
<1>1. Fail(t, why).pc = "fail" /\ Fail(t, why).why = why /\ Carries(t, Fail(t, why))
  BY DEF TypeOK, Runs, Fail, Carries
<1> QED
  BY <1>1 DEF Moves

LEMMA MovesOnCatch ==
    ASSUME TypeOK, NEW t \in Tokens, run[t].pc \in {"answer", "record", "giveup", "handover"},
           run' = [run EXCEPT ![t] = Catch(t)]
    PROVE  Moves(t)
<1>1. CASE AnswersInline
  BY <1>1, MovesToFail DEF Catch, FailsAs, Reasons
<1>2. CASE ~AnswersInline
  BY <1>2, MovesBack DEF Catch, States
<1> QED
  BY <1>1, <1>2

LEMMA SubmittingMoves ==
    ASSUME TypeOK, NEW t \in Tokens, Submitting(t)
    PROVE  Moves(t)
<1>1. CASE BeginSubmit(t)
  <2> DEFINE new == [row EXCEPT !.state = "submitting",
                                !.submits = UpTo(MaxInlineSubmits, row.submits + 1)]
             applies == Holds(t) /\ row.state = "ready"
  <2>1. new \in Rows /\ new.state = "submitting"
    <3>1. row \in Rows /\ row.submits \in 0 .. MaxInlineSubmits
      BY DEF TypeOK, Rows
    <3>2. UpTo(MaxInlineSubmits, row.submits + 1) \in 0 .. MaxInlineSubmits
      BY <3>1, Saturates, DispatchAssumption
    <3> QED
      BY <3>1, <3>2 DEF Rows, States
  <2>2. Call(t, applies, new, Goto(t, "payload"), Over, Over) /\ At(t, "begin")
    BY <1>1 DEF BeginSubmit
  <2>3. applies \in BOOLEAN /\ (applies => Holds(t) /\ row.state = "ready")
    BY DEF Holds
  <2> HIDE DEF new, applies
  <2>4. CASE applies /\ Write(new) /\ run' = [run EXCEPT ![t] = Goto(t, "payload")]
    <3>1. ~row'.past
      BY <2>1, <2>3, <2>4, WriteFields
    <3>2. NextCall(t, "payload")
      BY <2>2, <2>3, <2>4, <3>1 DEF NextCall
    <3> QED
      BY <2>4, <3>2, MovesOn DEF Calls
  <2>5. CASE run' = [run EXCEPT ![t] = Over]
    BY <2>5, MovesOver
  <2> QED
    BY <2>2, <2>3, <2>4, <2>5, CallOutcome
<1>2. CASE ResolvePayload(t)
  <2>1. NextCall(t, "send") /\ FailsAs(t, "payload_unavailable")
    BY <1>2 DEF ResolvePayload, NextCall, FailsAs
  <2> QED
    BY <1>2, <2>1, MovesOn, MovesToFail DEF ResolvePayload, Become, Calls, Reasons
<1>3. CASE Send(t)
  <2>1. NextCall(t, "answer")
    BY <1>3 DEF Send, NextCall
  <2> QED
    BY <1>3, <2>1, MovesOn DEF Send, Become, Calls
<1>4. CASE Accepted(t)
  <2>1. NextCall(t, "record")
    BY <1>4 DEF Accepted, NextCall
  <2> QED
    BY <1>4, <2>1, MovesOn DEF Accepted, Become, Calls
<1>5. CASE Rejected(t)
  <2>1. prov[t] # "none" /\ prov'[t] = "none"
    BY <1>5 DEF Rejected, TypeOK
  <2>2. FailsAs(t, "rejected")
    BY <1>5, <2>1 DEF Rejected, FailsAs
  <2> QED
    BY <1>5, <2>2, MovesToFail DEF Rejected, Become, Reasons
<1>6. CASE AnsweredError(t)
  <2>1. \/ run' = [run EXCEPT ![t] = Release(t, "ready")]
        \/ run' = [run EXCEPT ![t] = Fail(t, "answered_error")]
    BY <1>6 DEF AnsweredError, Become
  <2>2. FailsAs(t, "answered_error")
    BY <1>6 DEF AnsweredError, FailsAs, At
  <2> QED
    BY <2>1, <2>2, MovesBack, MovesToFail DEF States, Reasons
<1>7. CASE NoAnswer(t)
  BY <1>7, MovesOnCatch DEF NoAnswer, Become, At
<1>8. CASE RecordRef(t)
  <2> DEFINE new == [row EXCEPT !.ref = IF AnswersInline THEN InlineRef ELSE t]
             handover == [run[t] EXCEPT !.pc = "handover", !.to = "submitted", !.found = t]
             yes == IF AnswersInline THEN Goto(t, "store") ELSE handover
  <2>1. Call(t, Holds(t), new, yes, Over, Catch(t)) /\ At(t, "record") /\ Holds(t) \in BOOLEAN
    BY <1>8 DEF RecordRef, Holds, TypeOK, Rows
  <2>2. ~AnswersInline => handover.pc = "handover" /\ Carries(t, handover)
    BY <2>1 DEF Carries, TypeOK, Runs
  <2>3. CASE run' = [run EXCEPT ![t] = yes] /\ AnswersInline
    BY <2>1, <2>3, MovesOn DEF NextCall, Calls
  <2>4. CASE run' = [run EXCEPT ![t] = yes] /\ ~AnswersInline
    BY <2>2, <2>4 DEF Moves, NextCall
  <2> HIDE DEF new, yes
  <2>5. \/ run' = [run EXCEPT ![t] = yes] \/ run' = [run EXCEPT ![t] = Over]
        \/ run' = [run EXCEPT ![t] = Catch(t)]
    BY <2>1, CallOutcome
  <2> QED
    BY <2>1, <2>3, <2>4, <2>5, MovesOver, MovesOnCatch DEF At
<1> QED
  BY <1>1, <1>2, <1>3, <1>4, <1>5, <1>6, <1>7, <1>8 DEF Submitting

LEMMA PollingMoves ==
    ASSUME TypeOK, NEW t \in Tokens, Polling(t)
    PROVE  Moves(t)
<1>1. CASE CountPoll(t)
  <2> DEFINE new == [row EXCEPT !.polls = UpTo(MaxStoreAttempts, row.polls + 1)]
             call == IF run[t].cancel THEN "cancel" ELSE "check"
  <2>1. Call(t, Holds(t), new, Goto(t, call), Over, Over) /\ Holds(t) \in BOOLEAN
        /\ At(t, "count")
    BY <1>1 DEF CountPoll, Holds, TypeOK, Rows
  <2>2. call \in Calls \ {"fail"} /\ NextCall(t, call)
    BY <2>1 DEF Calls, NextCall, At
  <2> HIDE DEF new, call
  <2>3. run' = [run EXCEPT ![t] = Goto(t, call)] \/ run' = [run EXCEPT ![t] = Over]
    BY <2>1, CallOutcome
  <2> QED
    BY <2>2, <2>3, MovesOn, MovesOver
<1>2. CASE CancelWithProvider(t)
  <2>1. CASE run' = [run EXCEPT ![t] = Goto(t, "check")]
    <3>1. NextCall(t, "check")
      BY <1>2 DEF CancelWithProvider, NextCall, At
    <3> QED
      BY <2>1, <3>1, MovesOn DEF Calls
  <2>2. CASE /\ prov' = [prov EXCEPT ![run[t].ref] = "stopped"]
             /\ run' = [run EXCEPT ![t] = Fail(t, "cancelled")]
    <3>1. run[t].ref \in Tokens => prov'[run[t].ref] = "stopped"
      BY <2>2 DEF TypeOK
    <3>2. FailsAs(t, "cancelled")
      BY <1>2, <3>1 DEF CancelWithProvider, FailsAs, At
    <3> QED
      BY <2>2, <3>2, MovesToFail DEF Reasons
  <2> QED
    BY <1>2, <2>1, <2>2 DEF CancelWithProvider, Become
<1>3. CASE CheckRunning(t) \/ CheckUnavailable(t)
  BY <1>3, MovesBack DEF CheckRunning, CheckUnavailable, Become, States
<1>4. CASE CheckFailed(t)
  <2>1. FailsAs(t, "provider_failed") /\ FailsAs(t, "cancelled")
    BY <1>4 DEF CheckFailed, FailsAs, At
  <2> QED
    BY <1>4, <2>1, MovesToFail DEF CheckFailed, Become, Reasons
<1>5. CASE CheckDenied(t)
  <2>1. FailsAs(t, "denied")
    BY <1>5 DEF CheckDenied, FailsAs
  <2> QED
    BY <1>5, <2>1, MovesToFail DEF CheckDenied, Become, Reasons
<1>6. CASE CheckSucceeded(t)
  <2>1. NextCall(t, "claimsave")
    BY <1>6 DEF CheckSucceeded, NextCall, Final
  <2> QED
    BY <1>6, <2>1, MovesOn DEF CheckSucceeded, Become, Calls
<1>7. CASE TallyReconciliation(t)
  <2> DEFINE applies == Holds(t) /\ row.state \in {"submitting", "reconciling"}
  <2>1. Call(t, applies, row, Goto(t, "lookup"), Over, Over) /\ applies \in BOOLEAN
        /\ At(t, "tally")
    BY <1>7 DEF TallyReconciliation
  <2>2. NextCall(t, "lookup")
    BY <2>1 DEF NextCall
  <2> HIDE DEF applies
  <2>3. run' = [run EXCEPT ![t] = Goto(t, "lookup")] \/ run' = [run EXCEPT ![t] = Over]
    BY <2>1, CallOutcome
  <2> QED
    BY <2>2, <2>3, MovesOn, MovesOver DEF Calls
<1>8. CASE Reconciled(t)
  <2>1. ASSUME NEW q \in Tokens,
               run' = [run EXCEPT ![t] = [Release(t, "submitted") EXCEPT !.found = q]]
        PROVE  Moves(t)
    <3> DEFINE r == [Release(t, "submitted") EXCEPT !.found = q]
    <3>0. run[t] \in Runs /\ At(t, "lookup")
      BY <1>8 DEF Reconciled, TypeOK
    <3>1. r.pc = "release" /\ Carries(t, r)
      <4>1. r.pc = "release" /\ r.found = q
        BY <3>0 DEF Release, Runs
      <4>2. r.state = run[t].state /\ r.ref = run[t].ref
        BY <3>0 DEF Release, Runs
      <4> QED
        BY <3>0, <4>1, <4>2 DEF Carries
    <3>2. run' = [run EXCEPT ![t] = r]
      BY <2>1
    <3> HIDE DEF r
    <3> QED
      BY <3>1, <3>2 DEF Moves, NextCall
  <2> QED
    BY <1>8, <2>1, MovesBack DEF Reconciled, Become, States
<1> QED
  BY <1>1, <1>2, <1>3, <1>4, <1>5, <1>6, <1>7, <1>8 DEF Polling

LEMMA FinishingMoves ==
    ASSUME TypeOK, NEW t \in Tokens, Finishing(t)
    PROVE  Moves(t)
<1>1. CASE ClaimSave(t)
  <2> DEFINE applies == Holds(t) /\ row.state # "done" /\ row.save # "held"
             new == [row EXCEPT !.save = "held"]
  <2>1. /\ Call(t, applies, new, Goto(t, "store"), Goto(t, "status"), Goto(t, "status"))
        /\ applies \in BOOLEAN /\ At(t, "claimsave")
    BY <1>1 DEF ClaimSave
  <2>2. NextCall(t, "store") /\ NextCall(t, "status")
    BY <2>1 DEF NextCall, At
  <2> HIDE DEF applies, new
  <2>3. run' = [run EXCEPT ![t] = Goto(t, "store")] \/ run' = [run EXCEPT ![t] = Goto(t, "status")]
    BY <2>1, CallOutcome
  <2> QED
    BY <2>2, <2>3, MovesOn DEF Calls
<1>2. CASE StoreObject(t)
  <2>1. At(t, "store")
    BY <1>2 DEF StoreObject
  <2>2. CASE obj' = [obj EXCEPT ![t] = "stored"] /\ run' = [run EXCEPT ![t] = Goto(t, "keep")]
    <3>1. NextCall(t, "keep")
      BY <2>1, <2>2 DEF NextCall, TypeOK
    <3> QED
      BY <2>2, <3>1, MovesOn DEF Calls
  <2>3. CASE run' = [run EXCEPT ![t] = [Goto(t, "giveup") EXCEPT !.why = "store_failed"]]
    <3>1. NextCall(t, "giveup") /\ "store_failed" \in Reasons
      BY <2>1 DEF NextCall, Reasons
    <3> QED
      BY <2>3, <3>1, MovesOn DEF Calls
  <2>4. CASE run' = [run EXCEPT ![t] = Goto(t, "retry")] /\ ~AnswersInline
    <3>1. NextCall(t, "retry")
      BY <2>1, <2>4 DEF NextCall
    <3> QED
      BY <2>4, <3>1, MovesOn DEF Calls
  <2> QED
    BY <1>2, <2>2, <2>3, <2>4 DEF StoreObject, Become
<1>3. CASE UnknownBudget(t)
  <2>1. NextCall(t, "status") /\ NextCall(t, "unclaim")
    BY <1>3 DEF UnknownBudget, NextCall, At
  <2> QED
    BY <1>3, <2>1, MovesOn DEF UnknownBudget, Become, Calls
<1>4. CASE KeepResult(t)
  <2>1. NextCall(t, "status") /\ NextCall(t, "unclaim") /\ NextCall(t, "drop")
    BY <1>4 DEF KeepResult, NextCall, At
  <2> QED
    BY <1>4, <2>1, MovesOn DEF KeepResult, Become, Calls
<1>5. CASE DropLostObject(t)
  <2>1. NextCall(t, "status")
    BY <1>5 DEF DropLostObject, NextCall, At
  <2> QED
    BY <1>5, <2>1, MovesOn DEF DropLostObject, Become, Calls
<1>6. CASE ReleaseClaim(t)
  <2> DEFINE new == [row EXCEPT !.save = "free",
                                !.attempts = IF At(t, "unclaim") THEN @
                                     ELSE UpTo(MaxStoreAttempts, run[t].polls + 1)]
  <2>1. /\ Call(t, Holds(t), new, Goto(t, "status"), Goto(t, "status"), Over)
        /\ Holds(t) \in BOOLEAN /\ run[t].pc \in {"retry", "unclaim"}
    BY <1>6 DEF ReleaseClaim, Holds, TypeOK, Rows
  <2>2. NextCall(t, "status")
    BY <2>1 DEF NextCall
  <2> HIDE DEF new
  <2>3. run' = [run EXCEPT ![t] = Goto(t, "status")] \/ run' = [run EXCEPT ![t] = Over]
    BY <2>1, CallOutcome
  <2> QED
    BY <2>2, <2>3, MovesOn, MovesOver DEF Calls
<1>7. CASE GiveUp(t)
  <2>1. NextCall(t, "status") /\ At(t, "giveup")
    BY <1>7 DEF GiveUp, NextCall, At
  <2>2. \/ run' = [run EXCEPT ![t] = Goto(t, "status")]
        \/ run' = [run EXCEPT ![t] = Catch(t)] \/ run' = [run EXCEPT ![t] = Over]
    BY <1>7 DEF GiveUp, Become
  <2> QED
    BY <2>1, <2>2, MovesOn, MovesOver, MovesOnCatch DEF Calls, At
<1>8. CASE ReadStatus(t)
  <2> DEFINE call == IF AnswersInline THEN "handover" ELSE "release"
             to == IF gen.status = "pending" THEN "submitted" ELSE "done"
  <2>1. call \in Calls \ {"fail"} /\ NextCall(t, call) /\ to \in States
    BY DEF NextCall, Calls, States
  <2>2. \/ run' = [run EXCEPT ![t] = [Goto(t, call) EXCEPT !.to = to]]
        \/ run' = [run EXCEPT ![t] = Over]
    BY <1>8 DEF ReadStatus, Become
  <2> HIDE DEF call, to
  <2> QED
    BY <2>1, <2>2, MovesOn, MovesOver
<1> QED
  BY <1>1, <1>2, <1>3, <1>4, <1>5, <1>6, <1>7, <1>8 DEF Finishing

LEMMA EndingMoves ==
    ASSUME TypeOK, NEW t \in Tokens, Ending(t)
    PROVE  Moves(t)
<1>1. CASE FailJob(t)
  BY <1>1, MovesOver DEF FailJob, Become
<1>2. CASE ReleaseJob(t)
  <2> DEFINE caught == [Catch(t) EXCEPT !.found = NoRef]
  <2>1. Holds(t) \in BOOLEAN
    BY DEF Holds, TypeOK, Rows
  <2>2. CASE At(t, "release") /\ Call(t, Holds(t), Released(t), Over, Over, Over)
    BY <2>1, <2>2, CallOutcome, MovesOver
  <2>3. CASE At(t, "handover") /\ Call(t, Holds(t), Released(t), Over, Over, caught)
    <3>1. /\ Carries(t, caught)
          /\ IF AnswersInline THEN caught.pc = "fail" /\ caught.why = "no_answer"
             ELSE caught.pc = "release"
      <4>1. run[t] \in Runs
        BY DEF TypeOK
      <4>2. CASE AnswersInline
        BY <4>1, <4>2 DEF Catch, Fail, Runs, Carries
      <4>3. CASE ~AnswersInline
        BY <4>1, <4>3 DEF Catch, Release, Runs, Carries
      <4> QED
        BY <4>2, <4>3
    <3>2. AnswersInline => FailsAs(t, "no_answer")
      BY <2>3 DEF FailsAs, At
    <3>3. CASE run' = [run EXCEPT ![t] = caught]
      BY <3>1, <3>2, <3>3 DEF Moves, NextCall
    <3> HIDE DEF caught
    <3>4. run' = [run EXCEPT ![t] = caught] \/ run' = [run EXCEPT ![t] = Over]
      BY <2>1, <2>3, CallOutcome
    <3> QED
      BY <3>3, <3>4, MovesOver
  <2> QED
    BY <1>2, <2>2, <2>3 DEF ReleaseJob
<1> QED
  BY <1>1, <1>2 DEF Ending

LEMMA RunMoves ==
    ASSUME TypeOK, NEW t \in Tokens, RunStep(t) \/ Crash(t)
    PROVE  Moves(t)
  BY SubmittingMoves, PollingMoves, FinishingMoves, EndingMoves, MovesOver
     DEF RunStep, Crash, Become

(* What a claim makes of the row it was given.                             *)
LEMMA ClaimMoves ==
    ASSUME TypeOK, NEW t \in Tokens, Claim(t)
    PROVE  \E r : /\ run' = [run EXCEPT ![t] = r]
                  /\ r.state = row.state /\ r.ref = row.ref /\ r.found = NoRef
                  /\ r.pc \in {"release", "fail", "count", "tally", "begin"}
                  /\ r.pc = "begin" => row.state = "ready"
                  /\ r.pc = "count" => row.ref \in Tokens
                  /\ r.pc = "tally" => ~AnswersInline
                  /\ r.pc = "fail" =>
                       \/ r.why = "cancelled" /\ row.state = "ready"
                       \/ /\ r.why \in {"cancelled", "inline_submit_interrupted"} /\ row.past
                          /\ AnswersInline \/ row.ref = InlineRef
<1> DEFINE Fits(r) ==
             /\ r.state = row.state /\ r.ref = row.ref /\ r.found = NoRef
             /\ r.pc \in {"release", "fail", "count", "tally", "begin"}
             /\ r.pc = "begin" => row.state = "ready"
             /\ r.pc = "count" => row.ref \in Tokens
             /\ r.pc = "tally" => ~AnswersInline
             /\ r.pc = "fail" =>
                  \/ r.why = "cancelled" /\ row.state = "ready"
                  \/ /\ r.why \in {"cancelled", "inline_submit_interrupted"} /\ row.past
                     /\ AnswersInline \/ row.ref = InlineRef
           c == Claimed
<1>1. /\ c \in Runs /\ c.pc = "over" /\ c.found = NoRef
      /\ c.state = row.state /\ c.ref = row.ref /\ c.cancel = row.cancel
  BY NextCalls DEF Claimed, TypeOK, Rows, Runs, Over
<1>2. row.state # "done" /\ row.ref \in Refs /\ row.state \in States
  BY DEF Claim, TypeOK, Rows
<1> HIDE DEF c
<1>3. CASE run' = [run EXCEPT ![t] = Begin(c)]
  <2>1. AnswersInline \/ c.ref = InlineRef => Fits(Abandoned(c))
    BY <1>1 DEF Abandoned, Runs
  <2>3. Fits(Poll(c))
    <3>1. CASE c.ref = NoRef
      BY <1>1, <3>1, DispatchAssumption DEF Poll, Runs
    <3>2. CASE c.ref = InlineRef
      BY <2>1, <3>2, DispatchAssumption DEF Poll
    <3>3. CASE c.ref \in Tokens
      BY <1>1, <3>3, DispatchAssumption DEF Poll, Runs
    <3> QED
      BY <1>1, <1>2, <3>1, <3>2, <3>3 DEF Refs
  <2>4. Fits(Reconcile(c))
    <3>1. CASE c.ref = InlineRef \/ AnswersInline
      BY <2>1, <3>1 DEF Reconcile
    <3>2. CASE ~(c.ref = InlineRef \/ AnswersInline) /\ c.ref # NoRef
      BY <2>3, <3>2 DEF Reconcile
    <3>3. CASE ~(c.ref = InlineRef \/ AnswersInline) /\ c.ref = NoRef
      BY <1>1, <3>3 DEF Reconcile, Runs
    <3> QED
      BY <3>1, <3>2, <3>3
  <2>5. Fits(Begin(c))
    <3>1. CASE c.state = "ready" /\ c.cancel
      BY <1>1, <3>1 DEF Begin, Runs
    <3>2. CASE c.state = "ready" /\ ~c.cancel
      BY <1>1, <3>2 DEF Begin, Runs
    <3>3. CASE c.state = "submitted"
      BY <2>3, <3>3 DEF Begin
    <3>4. CASE c.state \in {"submitting", "reconciling"}
      BY <2>4, <3>4 DEF Begin
    <3> QED
      BY <1>1, <1>2, <3>1, <3>2, <3>3, <3>4 DEF States
  <2> QED
    BY <1>3, <2>5
<1>4. CASE run' = [run EXCEPT ![t] = [c EXCEPT !.pc = "release", !.to = "ready"]]
  <2>1. Fits([c EXCEPT !.pc = "release", !.to = "ready"])
    BY <1>1 DEF Runs
  <2> QED
    BY <1>4, <2>1
<1> QED
  BY <1>3, <1>4 DEF Claim, Become, c

-----------------------------------------------------------------------------
(* What one step of a run does to the row, the ledger, the provider and    *)
(* its object                                                              *)

(* The row grows no older, changes hands only to nobody, and takes the     *)
(* reference the run brings.                                               *)
Kept(t, new) ==
    /\ new.past => row.past
    /\ new.live => row.live /\ new.token = row.token
    /\ \/ new.ref \in {row.ref, run[t].found}
       \/ At(t, "record") /\ new.ref = IF AnswersInline THEN InlineRef ELSE t

KeepsDone(t) ==
    /\ At(t, "keep") /\ MaySettle(t) /\ SettleDone(t)
    /\ run'[t].pc \in {"status", "unclaim"}

Refunds(t) ==
    \E why \in Reasons \cup {"none"} :
        /\ MaySettle(t) /\ SettleFailed(why, "worker")
        /\ \/ At(t, "fail") /\ why = run[t].why
           \/ At(t, "giveup") /\ why = "store_failed"

LEMMA KeptWrite ==
    ASSUME TypeOK, NEW t \in Tokens, NEW new \in Rows, Kept(t, new), Write(new)
    PROVE  Kept(t, row') /\ row'.error = new.error
<1>1. row' = [new EXCEPT !.past = row'.past] /\ (row'.past => new.past)
  BY WriteFields
<1>2. /\ row'.live = new.live /\ row'.token = new.token
      /\ row'.ref = new.ref /\ row'.error = new.error
  BY <1>1 DEF Rows
<1> QED
  BY <1>1, <1>2 DEF Kept

LEMMA KeptCall ==
    ASSUME TypeOK, NEW t \in Tokens, NEW applies \in BOOLEAN, NEW new \in Rows,
           Kept(t, new), new.error = row.error,
           NEW yes, NEW no, NEW error, Call(t, applies, new, yes, no, error)
    PROVE  Kept(t, row') /\ row'.error = row.error
<1>1. Kept(t, row)
  BY DEF Kept
<1>2. Write(new) => Kept(t, row') /\ row'.error = row.error
  BY KeptWrite
<1>3. row' = row \/ Write(new)
  BY CallOutcome
<1> QED
  BY <1>1, <1>2, <1>3

(* Every call of a run that is no settlement.                              *)
LEMMA FencedCalls ==
    ASSUME TypeOK, NEW t \in Tokens,
           KeepsLease(t) \/ BeginSubmit(t) \/ ReleaseJob(t)
    PROVE  Kept(t, row') /\ row'.error = row.error /\ UNCHANGED Settled
<1>1. row \in Rows /\ Holds(t) \in BOOLEAN /\ Kept(t, row)
  BY DEF TypeOK, Rows, Holds, Kept
<1>2. CASE RecordRef(t)
  <2> DEFINE ref == IF AnswersInline THEN InlineRef ELSE t
             new == [row EXCEPT !.ref = ref]
  <2>1. ref \in Refs /\ At(t, "record") /\ UNCHANGED Settled
    BY <1>2 DEF RecordRef, Refs
  <2>2. new \in Rows /\ Kept(t, new) /\ new.error = row.error
    BY <1>1, <2>1 DEF Rows, Kept
  <2>3. \E yes, no, error : Call(t, Holds(t), new, yes, no, error)
    BY <1>2 DEF RecordRef
  <2> HIDE DEF new
  <2> QED
    BY <1>1, <2>1, <2>2, <2>3, KeptCall
<1>3. CASE CountPoll(t)
  <2> DEFINE new == [row EXCEPT !.polls = UpTo(MaxStoreAttempts, row.polls + 1)]
  <2>1. UpTo(MaxStoreAttempts, row.polls + 1) \in 0 .. MaxStoreAttempts
    BY <1>1, Saturates, DispatchAssumption DEF Rows
  <2>2. new \in Rows /\ Kept(t, new) /\ new.error = row.error
    BY <1>1, <2>1 DEF Rows, Kept
  <2>3. (\E yes, no, error : Call(t, Holds(t), new, yes, no, error)) /\ UNCHANGED Settled
    BY <1>3 DEF CountPoll
  <2> HIDE DEF new
  <2> QED
    BY <1>1, <2>2, <2>3, KeptCall
<1>4. CASE TallyReconciliation(t)
  <2> DEFINE applies == Holds(t) /\ row.state \in {"submitting", "reconciling"}
  <2>1. /\ applies \in BOOLEAN /\ UNCHANGED Settled
        /\ \E yes, no, error : Call(t, applies, row, yes, no, error)
    BY <1>4 DEF TallyReconciliation
  <2> HIDE DEF applies
  <2> QED
    BY <1>1, <2>1, KeptCall
<1>5. CASE ClaimSave(t)
  <2> DEFINE applies == Holds(t) /\ row.state # "done" /\ row.save # "held"
             new == [row EXCEPT !.save = "held"]
  <2>1. new \in Rows /\ Kept(t, new) /\ new.error = row.error
    BY <1>1 DEF Rows, Kept
  <2>2. /\ applies \in BOOLEAN /\ UNCHANGED Settled
        /\ \E yes, no, error : Call(t, applies, new, yes, no, error)
    BY <1>5 DEF ClaimSave
  <2> HIDE DEF applies, new
  <2> QED
    BY <2>1, <2>2, KeptCall
<1>6. CASE ReleaseClaim(t)
  <2> DEFINE attempts == IF At(t, "unclaim") THEN row.attempts
                         ELSE UpTo(MaxStoreAttempts, run[t].polls + 1)
             new == [row EXCEPT !.save = "free", !.attempts = attempts]
  <2>1. attempts \in 0 .. MaxStoreAttempts
    <3>1. run[t].polls \in 0 .. MaxStoreAttempts
      BY DEF TypeOK, Runs
    <3>2. UpTo(MaxStoreAttempts, run[t].polls + 1) \in 0 .. MaxStoreAttempts
      BY <3>1, Saturates, DispatchAssumption
    <3> QED
      BY <1>1, <3>2 DEF Rows
  <2>2. (\E yes, no, error : Call(t, Holds(t), new, yes, no, error)) /\ UNCHANGED Settled
    BY <1>6 DEF ReleaseClaim
  <2> HIDE DEF attempts
  <2>3. new \in Rows /\ Kept(t, new) /\ new.error = row.error
    BY <1>1, <2>1 DEF Rows, Kept
  <2> HIDE DEF new
  <2> QED
    BY <1>1, <2>2, <2>3, KeptCall
<1>7. CASE BeginSubmit(t)
  <2> DEFINE applies == Holds(t) /\ row.state = "ready"
             new == [row EXCEPT !.state = "submitting",
                                !.submits = UpTo(MaxInlineSubmits, row.submits + 1)]
  <2>1. UpTo(MaxInlineSubmits, row.submits + 1) \in 0 .. MaxInlineSubmits
    BY <1>1, Saturates, DispatchAssumption DEF Rows
  <2>2. new \in Rows /\ Kept(t, new) /\ new.error = row.error
    BY <1>1, <2>1 DEF Rows, Kept, States
  <2>3. /\ applies \in BOOLEAN /\ UNCHANGED Settled
        /\ \E yes, no, error : Call(t, applies, new, yes, no, error)
    BY <1>7 DEF BeginSubmit
  <2> HIDE DEF applies, new
  <2> QED
    BY <2>2, <2>3, KeptCall
<1>8. CASE ReleaseJob(t)
  <2>1. run[t].to \in States /\ run[t].found \in Refs /\ row.ref \in Refs
    BY <1>1 DEF TypeOK, Runs, Rows
  <2>2. (IF run[t].found = NoRef THEN row.ref ELSE run[t].found) \in Refs
    BY <2>1
  <2>3. Released(t) \in Rows /\ Kept(t, Released(t)) /\ Released(t).error = row.error
    BY <1>1, <2>1, <2>2 DEF Released, Rows, Kept
  <2>4. /\ UNCHANGED Settled
        /\ \E yes, no, error : Call(t, Holds(t), Released(t), yes, no, error)
    BY <1>8 DEF ReleaseJob
  <2> QED
    BY <1>1, <2>3, <2>4, KeptCall
<1> QED
  BY <1>2, <1>3, <1>4, <1>5, <1>6, <1>7, <1>8 DEF KeepsLease

LEMMA SettlementRow ==
    ASSUME TypeOK, NEW t \in Tokens
    PROVE  /\ SettleDone(t) => Kept(t, row') /\ row'.error = row.error
           /\ \A why \in Reasons \cup {"none"} : \A who :
                SettleFailed(why, who) => Kept(t, row') /\ row'.error = why
<1>1. row \in Rows
  BY DEF TypeOK
<1>2. ASSUME SettleDone(t)
      PROVE  Kept(t, row') /\ row'.error = row.error
  <2> DEFINE new == [row EXCEPT !.state = "done", !.token = NoToken, !.live = FALSE]
  <2>1. new \in Rows /\ Kept(t, new) /\ new.error = row.error
    BY <1>1 DEF Rows, States, Kept
  <2>2. Write(new)
    BY <1>2 DEF SettleDone
  <2> HIDE DEF new
  <2> QED
    BY <2>1, <2>2, KeptWrite
<1>3. ASSUME NEW why \in Reasons \cup {"none"}, NEW who, SettleFailed(why, who)
      PROVE  Kept(t, row') /\ row'.error = why
  <2> DEFINE new == [row EXCEPT !.state = "done", !.token = NoToken, !.live = FALSE,
                                !.error = why]
  <2>1. new \in Rows /\ Kept(t, new) /\ new.error = why
    BY <1>1 DEF Rows, States, Kept
  <2>2. Write(new)
    BY <1>3 DEF SettleFailed
  <2> HIDE DEF new
  <2> QED
    BY <2>1, <2>2, KeptWrite
<1> QED
  BY <1>2, <1>3

(* Unless it settles, a step of a run leaves the ledger and the reason.    *)
LEMMA RowMoves ==
    ASSUME TypeOK, NEW t \in Tokens, RunStep(t) \/ Crash(t)
    PROVE  /\ Kept(t, row')
           /\ (UNCHANGED Settled /\ row'.error = row.error) \/ KeepsDone(t) \/ Refunds(t)
<1>1. CASE KeepsLease(t) \/ BeginSubmit(t) \/ ReleaseJob(t)
  BY <1>1, FencedCalls
<1>2. CASE UNCHANGED <<row, Settled>>
  BY <1>2 DEF Kept
<1>3. CASE KeepResult(t)
  <2>1. CASE MaySettle(t) /\ SettleDone(t)
    <3>1. run'[t].pc \in {"status", "unclaim"}
      BY <1>3, <2>1 DEF KeepResult, Become, Goto, TypeOK, Runs
    <3> QED
      BY <1>3, <2>1, <3>1, SettlementRow DEF KeepResult, KeepsDone
  <2> QED
    BY <1>2, <1>3, <2>1 DEF KeepResult, Unsettled, Settled
<1>4. CASE GiveUp(t) \/ FailJob(t)
  <2>1. run[t].why \in Reasons \cup {"none"} /\ "store_failed" \in Reasons
    BY DEF TypeOK, Runs, Reasons
  <2>2. CASE Unsettled
    BY <1>2, <2>2 DEF Unsettled, Settled
  <2>3. CASE GiveUp(t) /\ MaySettle(t) /\ SettleFailed("store_failed", "worker")
    BY <2>1, <2>3, SettlementRow DEF GiveUp, Refunds
  <2>4. CASE FailJob(t) /\ MaySettle(t) /\ SettleFailed(run[t].why, "worker")
    BY <2>1, <2>4, SettlementRow DEF FailJob, Refunds
  <2> QED
    BY <1>4, <2>2, <2>3, <2>4 DEF GiveUp, FailJob, TryFailed
<1>5. CASE KeepsRow(t) \/ ReadStatus(t)
  BY <1>2, <1>5 DEF KeepsRow, ResolvePayload, Send, Accepted, Rejected, AnsweredError,
         NoAnswer, CancelWithProvider, CheckRunning, CheckUnavailable, CheckFailed,
         CheckDenied, CheckSucceeded, Reconciled, StoreObject, UnknownBudget,
         DropLostObject, Crash, ReadStatus
<1> QED
  BY <1>1, <1>3, <1>4, <1>5
     DEF RunStep, Submitting, Polling, Finishing, Ending, KeepsRow, KeepsLease

LEMMA ProvMoves ==
    ASSUME TypeOK, NEW t \in Tokens, RunStep(t) \/ Crash(t)
    PROVE  \/ prov' = prov
           \/ At(t, "send") /\ prov' = [prov EXCEPT ![t] = "sent"]
           \/ /\ At(t, "answer") /\ prov' = [prov EXCEPT ![t] = "none"]
              /\ AnswersInline \/ prov[t] = "sent"
           \/ /\ At(t, "cancel") /\ prov[run[t].ref] = "running"
              /\ prov' = [prov EXCEPT ![run[t].ref] = "stopped"]
<1>1. CASE Submitting(t)
  BY <1>1 DEF Submitting, BeginSubmit, ResolvePayload, Send, Accepted, Rejected,
              AnsweredError, NoAnswer, RecordRef
<1>2. CASE Polling(t)
  BY <1>2 DEF Polling, CountPoll, CancelWithProvider, CheckRunning, CheckUnavailable,
              CheckFailed, CheckDenied, CheckSucceeded, TallyReconciliation, Reconciled
<1>3. CASE Finishing(t)
  BY <1>3 DEF Finishing, ClaimSave, StoreObject, UnknownBudget, KeepResult, DropLostObject,
              ReleaseClaim, GiveUp, ReadStatus
<1>4. CASE Ending(t) \/ Crash(t)
  BY <1>4 DEF Ending, ReleaseJob, FailJob, Crash
<1> QED
  BY <1>1, <1>2, <1>3, <1>4 DEF RunStep

LEMMA ObjMoves ==
    ASSUME TypeOK, NEW t \in Tokens, RunStep(t) \/ Crash(t)
    PROVE  \/ obj' = obj
           \/ \E left : /\ obj' = [obj EXCEPT ![t] = left]
                        /\ \/ At(t, "store")
                           \/ At(t, "drop") /\ (gen.media = t => left = "stored")
<1>1. CASE Submitting(t)
  BY <1>1 DEF Submitting, BeginSubmit, ResolvePayload, Send, Accepted, Rejected,
              AnsweredError, NoAnswer, RecordRef
<1>2. CASE Polling(t)
  BY <1>2 DEF Polling, CountPoll, CancelWithProvider, CheckRunning, CheckUnavailable,
              CheckFailed, CheckDenied, CheckSucceeded, TallyReconciliation, Reconciled
<1>3. CASE StoreObject(t) \/ DropLostObject(t)
  BY <1>3 DEF StoreObject, DropLostObject
<1>4. CASE Finishing(t) /\ ~StoreObject(t) /\ ~DropLostObject(t)
  BY <1>4 DEF Finishing, ClaimSave, UnknownBudget, KeepResult, ReleaseClaim, GiveUp,
              ReadStatus
<1>5. CASE Ending(t) \/ Crash(t)
  BY <1>5 DEF Ending, ReleaseJob, FailJob, Crash
<1> QED
  BY <1>1, <1>2, <1>3, <1>4, <1>5 DEF RunStep
(* Everything that is no step of a run.                                    *)
Outside ==
    \/ Route \/ Sweep \/ Operator \/ Lapse \/ WindowPasses
    \/ \E t \in Tokens : Provider(t)
    \/ UNCHANGED vars

LEMMA OutsideMoves ==
    ASSUME TypeOK, Outside
    PROVE  /\ run' = run /\ obj' = obj
           /\ row'.live => row.live /\ row'.token = row.token
           /\ row'.past => row.past \/ WindowPasses
           /\ row'.ref \in {row.ref, NoRef} \/ (~AnswersInline /\ row'.ref \in Tokens)
           /\ row'.state = "ready" => row.state = "ready" \/ NeverSent
           /\ \/ UNCHANGED Settled /\ row'.error = row.error
              \/ /\ MaySettle(NoToken) /\ SettleFailed("cancelled", "route")
                 /\ row'.error = "cancelled"
<1> DEFINE Fine ==
             /\ row'.live => row.live /\ row'.token = row.token
             /\ row'.past => row.past \/ WindowPasses
             /\ row'.ref \in {row.ref, NoRef} \/ (~AnswersInline /\ row'.ref \in Tokens)
             /\ row'.state = "ready" => row.state = "ready" \/ NeverSent
             /\ \/ UNCHANGED Settled /\ row'.error = row.error
                \/ /\ MaySettle(NoToken) /\ SettleFailed("cancelled", "route")
                   /\ row'.error = "cancelled"
<1>1. row \in Rows /\ run' = run /\ obj' = obj
  BY DEF Outside, Route, RouteRead, RouteMark, RouteSettle, RouteDies, Sweep, ExpireLease,
         ReconcileStale, Operator, ResolveReference, ResolveNotSubmitted, Resolve,
         Lapse, WindowPasses, Provider, TypeOK, vars
<1>2. CASE RouteSettle
  <2>1. CASE Unsettled
    BY <1>1, <1>2, <2>1 DEF Unsettled, Settled, Rows
  <2>2. CASE MaySettle(NoToken) /\ SettleFailed("cancelled", "route")
    <3> DEFINE new == [row EXCEPT !.state = "done", !.token = NoToken, !.live = FALSE,
                                  !.error = "cancelled"]
    <3>1. /\ new \in Rows /\ new.state = "done" /\ ~new.live /\ new.ref = row.ref
          /\ new.error = "cancelled" /\ new.past = row.past
      BY <1>1 DEF Rows, States, Reasons
    <3>2. Write(new)
      BY <2>2 DEF SettleFailed
    <3> HIDE DEF new
    <3>3. row' = [new EXCEPT !.past = row'.past] /\ (row'.past => new.past)
      BY <3>1, <3>2, WriteFields
    <3>4. /\ row'.state = "done" /\ ~row'.live /\ row'.ref = row.ref
          /\ row'.error = "cancelled" /\ (row'.past => row.past)
      BY <3>1, <3>3 DEF Rows
    <3> QED
      BY <1>1, <2>2, <3>4 DEF Rows
  <2> QED
    BY <1>2, <2>1, <2>2 DEF RouteSettle, TryFailed
<1>3. CASE RouteRead \/ RouteMark \/ RouteDies \/ ExpireLease \/ Lapse \/ WindowPasses
           \/ (\E t \in Tokens : Provider(t)) \/ UNCHANGED vars
  <2>1. UNCHANGED Settled
    BY <1>3 DEF RouteRead, RouteMark, RouteDies, ExpireLease, Lapse, WindowPasses,
                Provider, vars, Settled
  <2>2. CASE UNCHANGED row
    BY <1>1, <2>1, <2>2 DEF Rows
  <2>3. CASE RouteMark \/ ExpireLease \/ Lapse
    BY <1>1, <2>1, <2>3, DispatchAssumption DEF RouteMark, ExpireLease, Lapse, Rows
  <2>4. CASE WindowPasses
    BY <1>1, <2>1, <2>4 DEF WindowPasses, Rows
  <2> QED
    BY <1>3, <2>2, <2>3, <2>4 DEF RouteRead, RouteDies, Provider, vars
<1>4. CASE ReconcileStale
  <2> DEFINE new == [row EXCEPT !.state = "reconciling"]
  <2>1. /\ new \in Rows /\ new.state = "reconciling" /\ new.live = row.live
        /\ new.token = row.token /\ new.ref = row.ref /\ new.error = row.error
        /\ new.past = row.past
    BY <1>1 DEF Rows, States
  <2>2. Write(new) /\ UNCHANGED Settled
    BY <1>4 DEF ReconcileStale
  <2> HIDE DEF new
  <2>3. row' = [new EXCEPT !.past = row'.past] /\ (row'.past => new.past)
    BY <2>1, <2>2, WriteFields
  <2>4. /\ row'.state = "reconciling" /\ row'.live = row.live /\ row'.token = row.token
        /\ row'.ref = row.ref /\ row'.error = row.error /\ (row'.past => row.past)
    BY <2>1, <2>3 DEF Rows
  <2> QED
    BY <1>1, <2>2, <2>4 DEF Rows
<1>5. ASSUME NEW state \in States, NEW ref \in Refs, Resolve(state, ref),
             ref = NoRef \/ (~AnswersInline /\ ref \in Tokens),
             state = "ready" => NeverSent
      PROVE  Fine
  <2> DEFINE new == [row EXCEPT !.state = state, !.ref = ref, !.token = NoToken,
                                !.save = "free"]
  <2>1. /\ new \in Rows /\ new.live = row.live /\ new.ref = ref /\ new.state = state
        /\ new.error = row.error /\ new.past = row.past
    BY <1>1 DEF Rows
  <2>2. Write(new) /\ UNCHANGED Settled /\ ~row.live
    BY <1>5 DEF Resolve
  <2> HIDE DEF new
  <2>3. row' = [new EXCEPT !.past = row'.past] /\ (row'.past => new.past)
    BY <2>1, <2>2, WriteFields
  <2>4. /\ ~row'.live /\ row'.ref = ref /\ row'.error = row.error
        /\ row'.past => row.past
        /\ row'.state = state
    BY <2>1, <2>2, <2>3 DEF Rows
  <2> QED
    BY <1>5, <2>2, <2>4
<1> HIDE DEF Fine
<1>6. ASSUME Operator
      PROVE  Fine
  <2>1. CASE ResolveReference
    <3>1. ~AnswersInline /\ \E r \in Tokens : Resolve("submitted", r)
      BY <2>1 DEF ResolveReference
    <3>2. Tokens \subseteq Refs /\ "submitted" \in States
      BY DEF Refs, States
    <3> QED
      BY <1>5, <3>1, <3>2
  <2>2. CASE ResolveNotSubmitted
    <3>1. Resolve("ready", NoRef) /\ NeverSent /\ NoRef \in Refs /\ "ready" \in States
      BY <2>2 DEF ResolveNotSubmitted, Refs, States
    <3> QED
      BY <1>5, <3>1
  <2> QED
    BY <1>6, <2>1, <2>2 DEF Operator
<1>7. Fine
  BY <1>2, <1>3, <1>4, <1>6 DEF Outside, Route, Sweep, Fine
<1> QED
  BY <1>1, <1>7 DEF Fine

LEMMA StepKinds ==
    ASSUME [Next]_vars
    PROVE  Outside \/ \E t \in Tokens : Claim(t) \/ RunStep(t) \/ Crash(t)
  BY DEF Next, Outside

LEMMA Others ==
    ASSUME TypeOK, NEW t \in Tokens, Claim(t) \/ RunStep(t) \/ Crash(t),
           NEW s \in Tokens, s # t
    PROVE  run'[s] = run[s]
  BY ClaimMoves, RunMoves DEF Moves, TypeOK

LEMMA Claims ==
    ASSUME TypeOK, NEW t \in Tokens, Claim(t)
    PROVE  /\ row'.token = t /\ row'.past = row.past /\ row'.ref = row.ref
           /\ row'.error = row.error /\ row'.state = row.state
           /\ UNCHANGED Settled /\ prov' = prov
           /\ obj' = [obj EXCEPT ![t] = "absent"] /\ prov[t] = "none"
           /\ gen.media # t /\ row.state # "done"
  BY DEF Claim, Fresh, Settled, TypeOK, Rows

-----------------------------------------------------------------------------
(* The object of a done generation                                         *)

KeptCalls == {"over", "status", "unclaim", "handover", "release", "fail"}

(* DoneHasObject needs to know that a run settles for the object it has    *)
(* just stored, and never comes back to touch it once it has.              *)
KeepInv ==
    /\ DoneHasObject
    /\ \A t \in Tokens : At(t, "keep") => obj[t] = "stored"
    /\ \A t \in Tokens : gen.media = t => run[t].pc \in KeptCalls

LEMMA SettledGen ==
    ASSUME TypeOK
    PROVE  /\ \A t : SettleDone(t) => gen'.status = "done" /\ gen'.media = t
           /\ \A why, who : SettleFailed(why, who)
                => gen'.status = "failed" /\ gen'.media = gen.media
<1>1. ASSUME NEW why, NEW who, SettleFailed(why, who)
      PROVE  gen'.status = "failed" /\ gen'.media = gen.media
  <2> PICK code : gen' = [gen EXCEPT !.status = "failed", !.code = code]
    BY <1>1 DEF SettleFailed
  <2> QED
    BY DEF TypeOK
<1> QED
  BY <1>1 DEF SettleDone

LEMMA KeepRun ==
    ASSUME TypeOK, KeepInv, NEW t \in Tokens, RunStep(t) \/ Crash(t)
    PROVE  KeepInv'
<1>1. \A s \in Tokens : s # t => run'[s] = run[s] /\ obj'[s] = obj[s]
  BY Others, ObjMoves DEF TypeOK
<1>2. At(t, "keep")' => obj'[t] = "stored"
  BY RunMoves DEF Moves, NextCall, At, TypeOK, Over
<1>3. \A s \in Tokens : At(s, "keep")' => obj'[s] = "stored"
  BY <1>1, <1>2 DEF KeepInv, At
<1>4. run[t].pc \in KeptCalls => run'[t].pc \in KeptCalls
  BY RunMoves DEF Moves, NextCall, At, TypeOK, Over, KeptCalls
<1>5. gen.media = t => obj'[t] = obj[t] \/ obj'[t] = "stored"
  BY ObjMoves DEF KeepInv, KeptCalls, At, TypeOK
<1>6. CASE KeepsDone(t)
  <2>1. gen'.status = "done" /\ gen'.media = t /\ obj[t] = "stored"
    BY <1>6, SettledGen DEF KeepsDone, KeepInv
  <2>2. obj'[t] = "stored"
    BY <1>6, <2>1, ObjMoves DEF KeepsDone, At, TypeOK
  <2>3. run'[t].pc \in KeptCalls
    BY <1>6 DEF KeepsDone, KeptCalls
  <2> QED
    BY <1>3, <2>1, <2>2, <2>3 DEF KeepInv, DoneHasObject
<1>7. CASE (UNCHANGED Settled /\ row'.error = row.error) \/ Refunds(t)
  <2>1. gen'.media = gen.media /\ (gen'.status = "done" => gen.status = "done")
    BY <1>7, SettledGen DEF Settled, Refunds
  <2>2. DoneHasObject'
    BY <1>1, <1>5, <2>1 DEF KeepInv, DoneHasObject
  <2>3. \A s \in Tokens : gen'.media = s => run'[s].pc \in KeptCalls
    BY <1>1, <1>4, <2>1 DEF KeepInv
  <2> QED
    BY <1>3, <2>2, <2>3 DEF KeepInv
<1> QED
  BY <1>6, <1>7, RowMoves

LEMMA KeepStep ==
    ASSUME TypeOK, KeepInv, [Next]_vars
    PROVE  KeepInv'
<1>1. ASSUME NEW t \in Tokens, Claim(t)
      PROVE  KeepInv'
  <2>1. /\ gen' = gen /\ gen.media # t
        /\ \A s \in Tokens : s # t => run'[s] = run[s] /\ obj'[s] = obj[s]
    BY <1>1, Claims, Others DEF TypeOK, Settled
  <2>2. ~At(t, "keep")'
    BY <1>1, ClaimMoves DEF At, TypeOK
  <2> QED
    BY <2>1, <2>2 DEF KeepInv, DoneHasObject, At
<1>2. CASE Outside
  <2>1. run' = run /\ obj' = obj
        /\ gen'.media = gen.media /\ (gen'.status = "done" => gen.status = "done")
    BY <1>2, OutsideMoves, SettledGen DEF Settled
  <2> QED
    BY <2>1 DEF KeepInv, DoneHasObject, At
<1> QED
  BY <1>1, <1>2, KeepRun, StepKinds

(* A done generation points at an object that is stored, and that no run   *)
(* which lost the settlement has handed to the cleanup worker.             *)
THEOREM DoneKeepsObject == Spec => []DoneHasObject
<1>1. Init => KeepInv
  BY DispatchAssumption DEF Init, KeepInv, DoneHasObject, At, Over
<1>2. TypeOK /\ KeepInv /\ [Next]_vars => KeepInv'
  BY KeepStep
<1>3. KeepInv => DoneHasObject
  BY DEF KeepInv
<1> QED
  BY <1>1, <1>2, <1>3, TypeCorrect, PTL DEF Spec
-----------------------------------------------------------------------------
(* What the references of a job say of its provider                        *)

(* An inline job has no reference but 'inline', and is never polled,       *)
(* reconciled or stored twice; an async one is polled by its reference.    *)
RefInv ==
    /\ row.ref \in {NoRef} \cup (IF AnswersInline THEN {InlineRef} ELSE Tokens)
    /\ \A t \in Tokens : run[t].found \in {NoRef} \cup (IF AnswersInline THEN {} ELSE Tokens)
    /\ \A t \in Tokens :
         run[t].pc \in {"count", "cancel", "check"} => run[t].ref \in Tokens
    /\ AnswersInline => \A t \in Tokens :
         run[t].pc \notin {"count", "cancel", "check", "tally", "lookup", "claimsave", "retry"}

LEMMA RefStep ==
    ASSUME TypeOK, RefInv, [Next]_vars
    PROVE  RefInv'
<1>1. ASSUME NEW t \in Tokens, Claim(t)
      PROVE  RefInv'
  <2>1. row'.ref = row.ref
    BY <1>1, Claims
  <2>2. /\ run'[t].found = NoRef
        /\ run'[t].pc \in {"count", "cancel", "check"} => run'[t].ref \in Tokens
        /\ AnswersInline => run'[t].pc \notin {"count", "cancel", "check", "tally", "lookup",
                                               "claimsave", "retry"}
    BY <1>1, ClaimMoves, DispatchAssumption DEF RefInv, TypeOK
  <2> QED
    BY <1>1, <2>1, <2>2, Others DEF RefInv
<1>2. ASSUME NEW t \in Tokens, RunStep(t) \/ Crash(t)
      PROVE  RefInv'
  <2>1. row'.ref \in {NoRef} \cup (IF AnswersInline THEN {InlineRef} ELSE Tokens)
    BY <1>2, RowMoves DEF Kept, RefInv
  <2>2. run'[t].found \in {NoRef} \cup (IF AnswersInline THEN {} ELSE Tokens)
    BY <1>2, RunMoves DEF Moves, Carries, RefInv, TypeOK, Over, At
  <2>3. run'[t].pc \in {"count", "cancel", "check"} => run'[t].ref \in Tokens
    BY <1>2, RunMoves DEF Moves, Carries, NextCall, RefInv, TypeOK, Over, At
  <2>4. AnswersInline => run'[t].pc \notin {"count", "cancel", "check", "tally", "lookup",
                                            "claimsave", "retry"}
    BY <1>2, RunMoves DEF Moves, NextCall, RefInv, TypeOK, Over, At
  <2> QED
    BY <1>2, <2>1, <2>2, <2>3, <2>4, Others DEF RefInv
<1>3. CASE Outside
  BY <1>3, OutsideMoves DEF RefInv
<1> QED
  BY <1>1, <1>2, <1>3, StepKinds

(* A job has a reason only when its generation has failed: the ledger of a *)
(* failed one is never reopened with another.                              *)
ErrorInv == row.error # "none" => gen.status = "failed"

LEMMA ErrorStep ==
    ASSUME TypeOK, ErrorInv, [Next]_vars
    PROVE  ErrorInv'
<1>1. ASSUME NEW t \in Tokens, Claim(t)
      PROVE  ErrorInv'
  BY <1>1, Claims DEF ErrorInv, Settled
<1>2. ASSUME NEW t \in Tokens, RunStep(t) \/ Crash(t)
      PROVE  ErrorInv'
  <2>1. CASE KeepsDone(t)
    BY <2>1, SettlementRow DEF KeepsDone, MaySettle, ErrorInv
  <2>2. CASE Refunds(t)
    BY <2>2, SettledGen DEF Refunds, ErrorInv
  <2> QED
    BY <1>2, <2>1, <2>2, RowMoves DEF ErrorInv, Settled
<1>3. CASE Outside
  BY <1>3, OutsideMoves, SettledGen DEF ErrorInv, Settled
<1> QED
  BY <1>1, <1>2, <1>3, StepKinds

(* The invariants the rest is proved under.                                *)
Known == TypeOK /\ SubmitInv /\ EndInv /\ RefInv /\ ErrorInv

LEMMA KnownInvariant == Spec => []Known
<1>1. Init => EndInv /\ RefInv /\ ErrorInv
  BY DEF Init, EndInv, JobEndsWithGeneration, Closing, RefInv, ErrorInv, Over
<1>2. TypeOK /\ EndInv /\ RefInv /\ ErrorInv /\ [Next]_vars => (EndInv /\ RefInv /\ ErrorInv)'
  BY EndStep, RefStep, ErrorStep
<1>3. TypeOK /\ SubmitInv /\ EndInv /\ RefInv /\ ErrorInv => Known
  BY DEF Known
<1> QED
  BY <1>1, <1>2, <1>3, TypeCorrect, SubmitInvariant, PTL DEF Spec

-----------------------------------------------------------------------------
(* The owner of an abandoned inline job                                    *)

(* The run can still bring an image home, or is about to.                  *)
Owns(t) == run[t].pc \in {"payload", "send", "answer", "record", "store", "keep"}

LEMMA OwnsNext ==
    ASSUME Known, NEW t \in Tokens, RunStep(t) \/ Crash(t), Owns(t)', AnswersInline
    PROVE  /\ Owns(t) \/ (At(t, "begin") /\ Holds(t) /\ row.state = "ready" /\ ~row'.past)
           /\ run'[t].state = run[t].state
<1>1. TypeOK /\ RefInv
  BY DEF Known
<1>2. PICK r : /\ run' = [run EXCEPT ![t] = r]
               /\ \/ r = Over
                  \/ /\ Carries(t, r)
                     /\ IF r.pc = "fail" THEN FailsAs(t, r.why) ELSE NextCall(t, r.pc)
  BY <1>1, RunMoves DEF Moves
<1>3. run'[t] = r
  BY <1>1, <1>2 DEF TypeOK
<1>4. NextCall(t, r.pc) /\ r.pc \in {"payload", "send", "answer", "record", "store", "keep"}
      /\ r.state = run[t].state
  BY <1>2, <1>3 DEF Owns, Over, Carries
<1>5. ~At(t, "claimsave")
  BY <1>1 DEF RefInv, At
<1> QED
  BY <1>3, <1>4, <1>5 DEF NextCall, Owns, At

(* AbandonedHasNoOwner rests on the window: once it has passed, every run  *)
(* that began while the job was ready is over, and none begins again.      *)
OwnerInv ==
    /\ AnswersInline => \A t \in Tokens : Owns(t) \/ At(t, "begin") => run[t].state = "ready"
    /\ AnswersInline /\ row.past => \A t \in Tokens : ~Owns(t)
    /\ \A t \in Tokens :
         At(t, "fail") /\ run[t].why = "inline_submit_interrupted"
           => AnswersInline /\ (Holds(t) => \A s \in Tokens : ~Owns(s))
    /\ row.error = "inline_submit_interrupted" => AnswersInline /\ \A s \in Tokens : ~Owns(s)

LEMMA OwnerClaim ==
    ASSUME Known, OwnerInv, NEW t \in Tokens, Claim(t)
    PROVE  OwnerInv'
<1>1. TypeOK /\ RefInv
  BY DEF Known
<1>2. \A s \in Tokens : s # t => run'[s] = run[s]
  BY <1>1, Others
<1>3. /\ row'.token = t /\ row'.past = row.past /\ row'.error = row.error
  BY <1>1, Claims
<1>4. PICK r : /\ run' = [run EXCEPT ![t] = r] /\ r.state = row.state
               /\ r.pc \in {"release", "fail", "count", "tally", "begin"}
               /\ r.pc = "begin" => row.state = "ready"
               /\ r.pc = "fail" =>
                    \/ r.why = "cancelled" /\ row.state = "ready"
                    \/ /\ r.why \in {"cancelled", "inline_submit_interrupted"} /\ row.past
                       /\ AnswersInline \/ row.ref = InlineRef
  BY <1>1, ClaimMoves
<1>5. run'[t] = r
  BY <1>1, <1>4 DEF TypeOK
<1>6. \A s \in Tokens : Owns(s)' => Owns(s)
  BY <1>2, <1>4, <1>5 DEF Owns
<1>7. AnswersInline
        => \A s \in Tokens : Owns(s)' \/ At(s, "begin")' => run'[s].state = "ready"
  BY <1>2, <1>4, <1>5, <1>6 DEF OwnerInv, At, Owns
<1>8. row.ref = InlineRef => AnswersInline
  BY <1>1, DispatchAssumption DEF RefInv
<1>9. \A s \in Tokens :
        At(s, "fail")' /\ run'[s].why = "inline_submit_interrupted"
          => AnswersInline /\ (Holds(s)' => \A q \in Tokens : ~Owns(q)')
  <2> SUFFICES ASSUME NEW s \in Tokens, At(s, "fail")',
                      run'[s].why = "inline_submit_interrupted"
               PROVE  AnswersInline /\ (Holds(s)' => \A q \in Tokens : ~Owns(q)')
    OBVIOUS
  <2>1. CASE s = t
    BY <1>4, <1>5, <1>6, <1>8, <2>1 DEF At, OwnerInv
  <2>2. CASE s # t
    BY <1>2, <1>3, <2>2 DEF At, OwnerInv, Holds
  <2> QED
    BY <2>1, <2>2
<1> QED
  BY <1>3, <1>6, <1>7, <1>9 DEF OwnerInv

LEMMA OwnerRun ==
    ASSUME Known, OwnerInv, NEW t \in Tokens, RunStep(t) \/ Crash(t)
    PROVE  OwnerInv'
<1>1. TypeOK /\ RefInv /\ EndInv /\ ErrorInv
  BY DEF Known
<1>2. \A s \in Tokens : s # t => run'[s] = run[s]
  BY <1>1, Others
<1>3. /\ row'.past => row.past
      /\ row'.live => row.live /\ row'.token = row.token
  BY <1>1, RowMoves DEF Kept
<1>4. AnswersInline /\ Owns(t)' /\ ~Owns(t)
        => At(t, "begin") /\ Holds(t) /\ row.state = "ready" /\ ~row'.past
  BY OwnsNext
<1>5. AnswersInline
        => \A s \in Tokens : Owns(s)' \/ At(s, "begin")' => run'[s].state = "ready"
  <2>1. ~At(t, "begin")'
    BY <1>1, RunMoves DEF Moves, NextCall, At, TypeOK, Over
  <2> QED
    BY <1>2, <1>4, <2>1, OwnsNext DEF OwnerInv, At, Owns
<1>6. AnswersInline /\ row'.past => \A s \in Tokens : ~Owns(s)'
  BY <1>2, <1>3, <1>4 DEF OwnerInv, Owns
<1>7. \A s \in Tokens :
        At(s, "fail")' /\ run'[s].why = "inline_submit_interrupted"
          => AnswersInline /\ (Holds(s)' => \A q \in Tokens : ~Owns(q)')
  <2> SUFFICES ASSUME NEW s \in Tokens, At(s, "fail")',
                      run'[s].why = "inline_submit_interrupted"
               PROVE  AnswersInline /\ (Holds(s)' => \A q \in Tokens : ~Owns(q)')
    OBVIOUS
  <2>1. s # t
    BY <1>1, RunMoves DEF Moves, FailsAs, At, TypeOK, Over
  <2>2. At(s, "fail") /\ run[s].why = "inline_submit_interrupted"
    BY <1>2, <2>1 DEF At
  <2>3. Holds(s)' => Holds(s) /\ ~Holds(t)
    BY <1>3, <2>1 DEF Holds
  <2> QED
    BY <1>2, <1>4, <2>2, <2>3 DEF OwnerInv, Owns
<1>8. row'.error = "inline_submit_interrupted"
        => AnswersInline /\ \A s \in Tokens : ~Owns(s)'
  <2> SUFFICES ASSUME row'.error = "inline_submit_interrupted"
               PROVE  AnswersInline /\ \A s \in Tokens : ~Owns(s)'
    OBVIOUS
  <2>1. CASE row.error = "inline_submit_interrupted"
    <3>1. row.state = "done"
      BY <1>1, <2>1 DEF ErrorInv, EndInv, JobEndsWithGeneration
    <3> QED
      BY <1>2, <1>4, <2>1, <3>1 DEF OwnerInv, Owns
  <2>2. CASE Refunds(t)
    <3>1. /\ At(t, "fail") /\ run[t].why = "inline_submit_interrupted" /\ MaySettle(t)
      BY <1>1, <2>2, SettlementRow DEF Refunds
    <3>2. Holds(t)
      BY <3>1, DispatchAssumption DEF MaySettle, Holds
    <3> QED
      BY <1>2, <1>4, <3>1, <3>2 DEF OwnerInv, Owns, At
  <2>3. CASE KeepsDone(t)
    BY <1>1, <2>1, <2>3, SettlementRow DEF KeepsDone
  <2> QED
    BY <1>1, <2>1, <2>2, <2>3, RowMoves
<1> QED
  BY <1>5, <1>6, <1>7, <1>8 DEF OwnerInv

LEMMA OwnerOutside ==
    ASSUME Known, OwnerInv, Outside
    PROVE  OwnerInv'
<1>1. TypeOK /\ run' = run
  BY OutsideMoves DEF Known
<1>2. \A s \in Tokens : (Owns(s)' <=> Owns(s)) /\ (Holds(s)' => Holds(s))
  BY <1>1, OutsideMoves DEF Owns, Holds
<1>3. row'.past => row.past \/ \A s \in Tokens : ~Owns(s) \/ ~AnswersInline
  <2>1. WindowPasses => \A s \in Tokens : ~Owns(s) \/ ~AnswersInline
    BY DEF WindowPasses, OwnerInv, Owns, At
  <2> QED
    BY <1>1, <2>1, OutsideMoves
<1>4. row'.error = "inline_submit_interrupted" => row.error = "inline_submit_interrupted"
  BY <1>1, OutsideMoves
<1> QED
  BY <1>1, <1>2, <1>3, <1>4 DEF OwnerInv, At

(* An inline job given up as abandoned is refunded only when no run is     *)
(* left that could still keep its image.                                   *)
THEOREM AbandonedIsOwnerless == Spec => []AbandonedHasNoOwner
<1>1. Init => OwnerInv
  BY DEF Init, OwnerInv, Owns, At, Over
<1>2. Known /\ OwnerInv /\ [Next]_vars => OwnerInv'
  BY OwnerClaim, OwnerRun, OwnerOutside, StepKinds
<1>3. OwnerInv => AbandonedHasNoOwner
  BY DEF OwnerInv, AbandonedHasNoOwner, Owns
<1> QED
  BY <1>1, <1>2, <1>3, KnownInvariant, PTL DEF Spec
-----------------------------------------------------------------------------
(* What still runs at the provider of a refunded job                       *)

Nothing == \A t \in Tokens : ~Active(t)
Stopped == Nothing \/ \E r \in Tokens : Final(r)

(* WorkerRefundsOnlyStoppedWork is decided several calls before the refund: *)
(* a run that goes for a result or a failure has seen the end of a request, *)
(* and until it settles no other can start one.                             *)
StopInv ==
    /\ \A t \in Tokens : run[t].pc \in {"begin", "payload", "send"} => prov[t] = "none"
    /\ ~AnswersInline => \A t \in Tokens :
         /\ run[t].pc \in {"claimsave", "store", "keep", "giveup"} => \E r \in Tokens : Final(r)
         /\ At(t, "fail") /\ run[t].why # "denied" /\ Holds(t) => Stopped
    /\ ~AnswersInline /\ settledBy = "worker" /\ gen.status = "failed" /\ row.error # "denied"
         => Stopped

(* A request's end is for good.                                            *)
LEMMA FinalStays ==
    ASSUME TypeOK, StopInv, ~AnswersInline, [Next]_vars, NEW r \in Tokens, Final(r)
    PROVE  Final(r)'
<1>1. ASSUME NEW t \in Tokens, Claim(t)
      PROVE  Final(r)'
  BY <1>1, Claims DEF Final
<1>2. ASSUME NEW t \in Tokens, RunStep(t) \/ Crash(t)
      PROVE  Final(r)'
  <2>1. CASE At(t, "send") /\ prov' = [prov EXCEPT ![t] = "sent"]
    BY <2>1 DEF Final, StopInv, At, TypeOK
  <2>2. CASE prov' = [prov EXCEPT ![t] = "none"] /\ prov[t] = "sent"
    BY <2>2 DEF Final, TypeOK
  <2>3. CASE /\ prov[run[t].ref] = "running"
             /\ prov' = [prov EXCEPT ![run[t].ref] = "stopped"]
    BY <2>3 DEF Final, TypeOK
  <2> QED
    BY <1>2, <2>1, <2>2, <2>3, ProvMoves DEF Final
<1>3. CASE Outside
  <2>1. CASE \E t \in Tokens : Provider(t)
    BY <2>1 DEF Provider, Final, TypeOK
  <2>2. prov' = prov \/ \E t \in Tokens : Provider(t)
    BY <1>3 DEF Outside, Route, RouteRead, RouteMark, RouteSettle, RouteDies, Sweep,
           ExpireLease, ReconcileStale, Operator, ResolveReference, ResolveNotSubmitted,
           Resolve, Lapse, WindowPasses, vars
  <2> QED
    BY <2>1, <2>2 DEF Final
<1> QED
  BY <1>1, <1>2, <1>3, StepKinds

(* Only a run that holds a job that is ready starts a request.             *)
LEMMA Activates ==
    ASSUME TypeOK, NEW t \in Tokens, RunStep(t) \/ Crash(t)
    PROVE  /\ \A s \in Tokens : s # t /\ Active(s)' => Active(s)
           /\ Active(t)' => Active(t) \/ (At(t, "begin") /\ Holds(t) /\ row.state = "ready")
<1>1. \A s \in Tokens : s # t => run'[s] = run[s]
  BY Others
<1>2. \A s \in Tokens : prov'[s] # "none" => prov[s] # "none" \/ (s = t /\ At(t, "send"))
  BY ProvMoves DEF TypeOK
<1>3. run'[t].pc \in {"payload", "send"}
        => At(t, "payload") \/ (At(t, "begin") /\ Holds(t) /\ row.state = "ready")
  BY RunMoves DEF Moves, NextCall, TypeOK, Over
<1> QED
  BY <1>1, <1>2, <1>3 DEF Active, At

LEMMA StoppedStays ==
    ASSUME Known, StopInv, ~AnswersInline, [Next]_vars, Stopped,
           \A s \in Tokens : RunStep(s) /\ At(s, "begin") /\ Holds(s) => row.state # "ready"
    PROVE  Stopped'
<1>1. TypeOK /\ SubmitInv
  BY DEF Known
<1>2. CASE \E r \in Tokens : Final(r)
  BY <1>1, <1>2, FinalStays DEF Stopped
<1>3. CASE Nothing
  <2>1. ASSUME NEW t \in Tokens, Claim(t)
        PROVE  Nothing'
    <3>1. /\ \A s \in Tokens : s # t => run'[s] = run[s]
          /\ prov' = prov
      BY <1>1, <2>1, Claims, Others
    <3>2. run'[t].pc \notin {"payload", "send"}
      BY <1>1, <2>1, ClaimMoves DEF TypeOK
    <3> QED
      BY <1>3, <3>1, <3>2 DEF Nothing, Active
  <2>2. ASSUME NEW t \in Tokens, RunStep(t)
        PROVE  Nothing'
    BY <1>1, <1>3, <2>2, Activates DEF Nothing
  <2>3. ASSUME NEW t \in Tokens, Crash(t)
        PROVE  Nothing'
    BY <1>1, <1>3, <2>3 DEF Crash, Become, Over, TypeOK, Nothing, Active
  <2>4. ASSUME Outside
        PROVE  Nothing'
    <3>1. \A s \in Tokens : prov'[s] # "none" => prov[s] # "none"
      BY <1>1, <2>4 DEF Outside, Route, RouteRead, RouteMark, RouteSettle, RouteDies, Sweep,
             ExpireLease, ReconcileStale, Operator, ResolveReference, ResolveNotSubmitted,
             Resolve, Lapse, WindowPasses, Provider, vars, TypeOK
    <3> QED
      BY <1>1, <1>3, <2>4, <3>1, OutsideMoves DEF Nothing, Active
  <2> QED
    BY <2>1, <2>2, <2>3, <2>4, StepKinds DEF Stopped
<1> QED
  BY <1>2, <1>3 DEF Stopped

LEMMA StopClaim ==
    ASSUME Known, StopInv, NEW t \in Tokens, Claim(t)
    PROVE  StopInv'
<1>1. TypeOK /\ SubmitInv /\ RefInv
  BY DEF Known
<1>2. /\ \A s \in Tokens : s # t => run'[s] = run[s]
      /\ prov' = prov /\ prov[t] = "none" /\ UNCHANGED Settled
      /\ row'.token = t /\ row'.error = row.error
  BY <1>1, Claims, Others
<1>3. PICK r : /\ run' = [run EXCEPT ![t] = r]
               /\ r.pc \in {"release", "fail", "count", "tally", "begin"}
               /\ r.pc = "fail" =>
                    \/ r.why = "cancelled" /\ row.state = "ready"
                    \/ /\ r.why \in {"cancelled", "inline_submit_interrupted"} /\ row.past
                       /\ AnswersInline \/ row.ref = InlineRef
  BY <1>1, ClaimMoves
<1>4. run'[t] = r
  BY <1>1, <1>3 DEF TypeOK
<1>5. \A s \in Tokens : Active(s)' <=> Active(s)
  BY <1>2, <1>3, <1>4, <1>1 DEF Active, SubmitInv, Claim, Fresh, At
<1>6. Stopped' <=> Stopped
  BY <1>2, <1>5 DEF Stopped, Nothing, Final
<1>7. \A s \in Tokens : run'[s].pc \in {"begin", "payload", "send"} => prov'[s] = "none"
  BY <1>2 DEF StopInv
<1>8. ~AnswersInline => \A s \in Tokens :
        /\ run'[s].pc \in {"claimsave", "store", "keep", "giveup"}
             => \E q \in Tokens : Final(q)'
        /\ At(s, "fail")' /\ run'[s].why # "denied" /\ Holds(s)' => Stopped'
  <2> SUFFICES ASSUME ~AnswersInline, NEW s \in Tokens
               PROVE  /\ run'[s].pc \in {"claimsave", "store", "keep", "giveup"}
                           => \E q \in Tokens : Final(q)'
                      /\ At(s, "fail")' /\ run'[s].why # "denied" /\ Holds(s)' => Stopped'
    OBVIOUS
  <2>1. CASE s = t
    <3>1. r.pc = "fail" => row.state = "ready"
      BY <1>1, <1>3, DispatchAssumption DEF RefInv
    <3>2. r.pc = "fail" => Stopped
      BY <1>1, <3>1 DEF SubmitInv, Stopped, Nothing
    <3> QED
      BY <1>3, <1>4, <1>6, <2>1, <3>2 DEF At
  <2>2. CASE s # t
    BY <1>2, <2>2 DEF StopInv, Final, Holds
  <2> QED
    BY <2>1, <2>2
<1> QED
  BY <1>2, <1>6, <1>7, <1>8 DEF StopInv, Settled

LEMMA StopRun ==
    ASSUME Known, StopInv, NEW t \in Tokens, RunStep(t) \/ Crash(t)
    PROVE  StopInv'
<1>1. TypeOK /\ SubmitInv /\ RefInv /\ EndInv /\ ErrorInv
  BY DEF Known
<1>2. [Next]_vars
  BY DEF Next
<1>3. \A s \in Tokens : s # t => run'[s] = run[s]
  BY <1>1, Others
<1>4. /\ Kept(t, row')
      /\ (UNCHANGED Settled /\ row'.error = row.error) \/ KeepsDone(t) \/ Refunds(t)
  BY <1>1, RowMoves
<1>5. PICK r : /\ run' = [run EXCEPT ![t] = r]
               /\ \/ r = Over
                  \/ /\ Carries(t, r)
                     /\ IF r.pc = "fail" THEN FailsAs(t, r.why) ELSE NextCall(t, r.pc)
  BY <1>1, RunMoves DEF Moves
<1>6. run'[t] = r
  BY <1>1, <1>5 DEF TypeOK
<1>7. \A s \in Tokens : run'[s].pc \in {"begin", "payload", "send"} => prov'[s] = "none"
  <2>1. \A s \in Tokens : prov'[s] # "none" => prov[s] # "none" \/ (s = t /\ At(t, "send"))
    BY <1>1, ProvMoves DEF TypeOK
  <2>2. r.pc \in {"begin", "payload", "send"} => run[t].pc \in {"begin", "payload"}
    BY <1>5 DEF NextCall, At, Over
  <2> QED
    BY <1>3, <1>6, <2>1, <2>2 DEF StopInv, At
<1>8. ASSUME ~AnswersInline, NEW s \in Tokens,
             run'[s].pc \in {"claimsave", "store", "keep", "giveup"}
      PROVE  \E q \in Tokens : Final(q)'
  <2>1. CASE \E q \in Tokens : Final(q)
    BY <1>1, <1>2, <1>8, <2>1, FinalStays
  <2>2. CASE s # t
    BY <1>3, <1>8, <2>1, <2>2 DEF StopInv
  <2>3. CASE s = t
    <3>1. run[t].pc \in {"claimsave", "store", "keep", "giveup"}
            \/ (At(t, "check") /\ (run[t].ref \in Tokens => Final(run[t].ref)))
      BY <1>5, <1>6, <1>8, <2>3 DEF NextCall, At, Over
    <3> QED
      BY <1>1, <1>8, <2>1, <3>1 DEF StopInv, RefInv, At
  <2> QED
    BY <2>2, <2>3
<1>9. ASSUME ~AnswersInline, NEW s \in Tokens,
             At(s, "fail")', run'[s].why # "denied", Holds(s)'
      PROVE  Stopped'
  <2>1. Holds(s)
    BY <1>4, <1>9 DEF Kept, Holds
  <2>2. CASE s # t
    <3>1. At(s, "fail") /\ run[s].why # "denied" /\ ~Holds(t)
      BY <1>3, <1>9, <2>1, <2>2 DEF At, Holds
    <3>2. \A q \in Tokens : RunStep(q) /\ At(q, "begin") /\ Holds(q) => row.state # "ready"
      BY <2>1, <3>1 DEF At, Holds
    <3> QED
      BY <1>2, <1>9, <2>1, <3>1, <3>2, StoppedStays DEF StopInv
  <2>3. CASE s = t
    <3>1. FailsAs(t, r.why) /\ r.why # "denied"
      BY <1>5, <1>6, <1>9, <2>3 DEF At, Over
    <3>2. CASE At(t, "payload")
      <4>1. Active(t) /\ prov[t] = "none" /\ ~At(t, "begin")
        BY <3>2 DEF Active, At, StopInv
      <4>2. \A q \in Tokens : q # t => ~Active(q)'
        BY <1>1, <4>1, Activates DEF SubmitInv
      <4>3. prov'[t] = "none"
        BY <1>1, <3>2, <4>1, ProvMoves DEF At, TypeOK
      <4>4. ~Active(t)'
        BY <1>6, <1>9, <2>3, <4>3 DEF Active, At
      <4> QED
        BY <4>2, <4>4 DEF Stopped, Nothing
    <3>3. CASE At(t, "answer") /\ prov[t] # "none" /\ prov'[t] = "none"
      <4>1. Active(t)
        BY <3>3 DEF Active
      <4>2. \A q \in Tokens : q # t => ~Active(q)'
        BY <1>1, <4>1, Activates DEF SubmitInv
      <4>3. ~Active(t)'
        BY <1>6, <1>9, <2>3, <3>3 DEF Active, At
      <4> QED
        BY <4>2, <4>3 DEF Stopped, Nothing
    <3>4. CASE /\ run[t].pc \in {"cancel", "check"}
               /\ run[t].ref \in Tokens => prov'[run[t].ref] \in {"succeeded", "failed", "stopped"}
      <4>1. PICK q \in Tokens : prov'[q] \in {"succeeded", "failed", "stopped"}
        BY <1>1, <3>4 DEF RefInv
      <4> QED
        BY <4>1 DEF Stopped, Final
    <3> QED
      BY <1>9, <3>1, <3>2, <3>3, <3>4 DEF FailsAs
  <2> QED
    BY <2>2, <2>3
<1>10. ASSUME ~AnswersInline, settledBy' = "worker", gen'.status = "failed",
              row'.error # "denied"
       PROVE  Stopped'
  <2>1. CASE UNCHANGED Settled /\ row'.error = row.error
    <3>1. Stopped /\ row.state = "done"
      BY <1>1, <1>10, <2>1 DEF StopInv, Settled, EndInv, JobEndsWithGeneration
    <3> QED
      BY <1>2, <1>10, <3>1, StoppedStays
  <2>2. CASE Refunds(t)
    <3>1. PICK why \in Reasons \cup {"none"} :
            /\ MaySettle(t) /\ SettleFailed(why, "worker")
            /\ \/ At(t, "fail") /\ why = run[t].why
               \/ At(t, "giveup") /\ why = "store_failed"
      BY <2>2 DEF Refunds
    <3>2. row'.error = why /\ Holds(t)
      BY <1>1, <3>1, SettlementRow, DispatchAssumption DEF MaySettle, Holds
    <3>3. Stopped
      BY <1>10, <3>1, <3>2 DEF StopInv, Stopped, At
    <3>4. \A q \in Tokens : RunStep(q) /\ At(q, "begin") /\ Holds(q) => row.state # "ready"
      BY <3>1, <3>2 DEF At, Holds
    <3> QED
      BY <1>2, <1>10, <3>3, <3>4, StoppedStays
  <2>3. CASE KeepsDone(t)
    BY <1>1, <1>10, <2>3, SettledGen DEF KeepsDone
  <2> QED
    BY <1>4, <2>1, <2>2, <2>3
<1> QED
  BY <1>7, <1>8, <1>9, <1>10 DEF StopInv

LEMMA StopOutside ==
    ASSUME Known, StopInv, Outside, [Next]_vars
    PROVE  StopInv'
<1>1. TypeOK /\ EndInv /\ run' = run
  BY OutsideMoves DEF Known
<1>2. \A s \in Tokens : Holds(s)' => Holds(s)
  BY <1>1, OutsideMoves DEF Holds
<1>3. \A s \in Tokens : prov'[s] # "none" => prov[s] # "none"
  BY <1>1 DEF Outside, Route, RouteRead, RouteMark, RouteSettle, RouteDies, Sweep,
         ExpireLease, ReconcileStale, Operator, ResolveReference, ResolveNotSubmitted,
         Resolve, Lapse, WindowPasses, Provider, vars, TypeOK
<1>4. ~AnswersInline /\ Stopped => Stopped'
  BY <1>1, <1>3, FinalStays DEF Stopped, Nothing, Active
<1>5. ~AnswersInline => \A s \in Tokens : Final(s) => Final(s)'
  BY <1>1, FinalStays
<1>6. \/ UNCHANGED Settled /\ row'.error = row.error
      \/ settledBy' = "route"
  BY <1>1, OutsideMoves DEF SettleFailed
<1> QED
  BY <1>1, <1>2, <1>3, <1>4, <1>5, <1>6 DEF StopInv, Settled, At

(* The worker refunds an async generation only when nothing of it runs at  *)
(* the provider, a poll that was denied apart: whatever it settles for, it *)
(* has seen the end of the request, or there never was one.                *)
THEOREM RefundsStoppedWork == Spec => []WorkerRefundsOnlyStoppedWork
<1>1. Init => StopInv
  BY DEF Init, StopInv, At, Over
<1>2. Known /\ StopInv /\ [Next]_vars => StopInv'
  BY StopClaim, StopRun, StopOutside, StepKinds
<1>3. Known /\ StopInv => WorkerRefundsOnlyStoppedWork
  <2>1. SubmitInv /\ Stopped => \A t \in Tokens : prov[t] \notin {"sent", "running"}
    BY DEF SubmitInv, Stopped, Nothing, Final, Active
  <2> QED
    BY <2>1 DEF Known, StopInv, WorkerRefundsOnlyStoppedWork
<1> QED
  BY <1>1, <1>2, <1>3, KnownInvariant, PTL DEF Spec
=============================================================================
