----------------------------- MODULE Settlement -----------------------------
(***************************************************************************)
(* What a generation promises the customer who paid for it.                *)
(*                                                                         *)
(* fn_settle_job is "the only way a generation becomes terminal"           *)
(* (_shared/jobs/settlement.ts): a pending generation becomes done or      *)
(* failed, once; a failure gives back every bucket that was charged; and   *)
(* the customer is told once, except about a cancellation, which they      *)
(* asked for themselves.                                                   *)
(***************************************************************************)
EXTENDS Sequences

CONSTANT Charged        \* the buckets the submission was charged from

VARIABLES
    status,             \* generations.status
    code,               \* generations.failure_code
    refunded,           \* the buckets with a refund row in the ledger
    outbox              \* the notification rows written for the generation

vars == <<status, code, refunded, outbox>>

FailureCodes == {"cancelled", "timeout", "provider_error", "generation_failed"}

Init ==
    /\ status = "pending"
    /\ code = "none"
    /\ refunded = {}
    /\ outbox = <<>>

Finish ==
    /\ status = "pending"
    /\ status' = "done"
    /\ outbox' = Append(outbox, "generation_done")
    /\ UNCHANGED <<code, refunded>>

Fail(why) ==
    /\ status = "pending"
    /\ status' = "failed"
    /\ code' = why
    /\ refunded' = Charged
    /\ outbox' = IF why = "cancelled" THEN outbox
                                      ELSE Append(outbox, "generation_failed")

Next == Finish \/ \E why \in FailureCodes : Fail(why)

Spec == Init /\ [][Next]_vars
=============================================================================
