-------------------------- MODULE NotificationOutbox --------------------------
(***************************************************************************)
(* The notification outbox and its drainers (jobs/notifications.ts, push.ts *)
(* and the two functions of migration 0019).  Every tick of every worker   *)
(* drains: a drainer leases a batch of rows and sends them one after       *)
(* another, while its lease runs out.  All rows are one customer's.        *)
(*                                                                         *)
(* Time passes in steps of a send's timeout.  A database call is assumed   *)
(* to take less than a step; only a push may take one.  The back-off of a  *)
(* failed row ends at any time.  Left out: a deployment without a service  *)
(* account, and what a message says.                                       *)
(***************************************************************************)
EXTENDS Naturals, FiniteSets

CONSTANTS
    Rows,         \* 1..n, in the order they were written
    Devices, Drainers, Nobody,
    Limit,        \* rows a drainer leases at once
    Lease,        \* how long a lease lasts: 120 s
    LeaseBudget,  \* when a drainer stops starting rows: LEASE_BUDGET_MS, 90 s
    GiveUpAfter,  \* attempts before the dead letter: 5
    MaxUpsets     \* crashes, lost answers and changes of the phones

SendTimeout == 1  \* SEND_TIMEOUT_MS, 20 s

(* What the constants of the code satisfy.                                 *)
ConstantsFit ==
    /\ Rows \subseteq Nat /\ Nobody \notin Drainers
    /\ {Limit, Lease, LeaseBudget, GiveUpAfter, MaxUpsets} \subseteq Nat
    /\ LeaseBudget + SendTimeout < Lease

VARIABLES
    outbox,    \* notification_outbox
    left,      \* how long each row's lease still lasts
    drainers,  \* per drainer: where it is in drainNotifications
    devices,   \* the customer's registered push tokens
    gone,      \* tokens the push service has dropped
    received,  \* per row, the devices that got the message
    owed,      \* per row, the devices it was sent to when it counted as sent
    upsets

outboxVars == <<outbox, left, drainers, devices, gone, received, owed, upsets>>

Row(lease, attempts, waits, status) ==
    [lease |-> lease, attempts |-> attempts, waits |-> waits, status |-> status]

(* todo: the rows of its batch still to come; row: the one it is at.       *)
Drainer(at, todo, row, age) ==
    [at |-> at, todo |-> todo, row |-> row, age |-> age, spent |-> 0,
     tokens |-> {}, stale |-> {}, failed |-> FALSE]

Idle == Drainer("idle", {}, Nobody, 0)

Init ==
    /\ outbox = [r \in Rows |-> Row(Nobody, 0, FALSE, "pending")]
    /\ left = [r \in Rows |-> 0]
    /\ drainers = [d \in Drainers |-> Idle]
    /\ devices \in SUBSET Devices /\ gone = {}
    /\ received = [r \in Rows |-> {}] /\ owed = [r \in Rows |-> {}]
    /\ upsets = 0

Upset == upsets < MaxUpsets /\ upsets' = upsets + 1

phone == <<devices, gone>>
told == <<received, owed>>

-----------------------------------------------------------------------------
(* The database.                                                           *)

Claimable ==
    {r \in Rows : outbox[r].status = "pending" /\ ~outbox[r].waits /\ left[r] = 0}

Batch == {r \in Claimable : Cardinality({q \in Claimable : q < r}) < Limit}

fn_claim_notifications(d) ==
    /\ outbox' = [r \in Rows |->
          IF r \in Batch THEN Row(d, outbox[r].attempts + 1, FALSE, "pending")
          ELSE outbox[r]]
    /\ left' = [r \in Rows |-> IF r \in Batch THEN Lease ELSE left[r]]

Fenced(d, r) == outbox[r].lease = d /\ left[r] > 0 /\ outbox[r].status = "pending"

fn_ack_notification(d, r) ==
    LET me == drainers[d] IN
    IF Fenced(d, r)
      THEN /\ outbox' = [outbox EXCEPT ![r] =
                 Row(Nobody, @.attempts, TRUE,
                     CASE ~me.failed -> "sent"
                       [] me.failed /\ @.attempts >= GiveUpAfter -> "dead"
                       [] OTHER -> "pending")]
           /\ left' = [left EXCEPT ![r] = 0]
           /\ owed' = IF me.failed THEN owed ELSE [owed EXCEPT ![r] = me.tokens]
      ELSE UNCHANGED <<outbox, left, owed>>

-----------------------------------------------------------------------------
(* A drainer.                                                              *)

Goes(d, state) == drainers' = [drainers EXCEPT ![d] = state]
At(d, step) == drainers[d].at = step

(* The claim's answer may be lost: the rows are leased, and nobody sends.  *)
drainNotifications(d) ==
    /\ At(d, "idle") /\ Claimable # {}
    /\ fn_claim_notifications(d)
    /\ \/ /\ Goes(d, Drainer("next", Batch, Nobody, 0))
          /\ UNCHANGED upsets
       \/ Upset /\ UNCHANGED drainers
    /\ UNCHANGED <<phone, told>>

Affordable(d) == drainers[d].age <= LeaseBudget

(* The oldest row is next.  A row reached when the budget is spent is left *)
(* to the lapse of its lease.                                              *)
NextRow(d) ==
    LET me == drainers[d] IN
    /\ At(d, "next")
    /\ \/ me.todo = {} /\ Goes(d, Idle)
       \/ \E r \in me.todo :
            /\ \A q \in me.todo : r <= q
            /\ Goes(d, Drainer(IF Affordable(d) THEN "lookup" ELSE "next", me.todo \ {r}, r, me.age))
    /\ UNCHANGED <<outbox, left, phone, told, upsets>>

(* Nobody to tell is a completed notification.                             *)
lookupDevices(d) ==
    LET me == drainers[d] IN
    /\ At(d, "lookup")
    /\ \/ /\ UNCHANGED upsets
          /\ Goes(d, [me EXCEPT !.at = IF devices = {} THEN "ack" ELSE "send",
                                !.tokens = devices])
       \/ Upset /\ Goes(d, [me EXCEPT !.at = "ack", !.failed = TRUE])
    /\ UNCHANGED <<outbox, left, phone, told>>

(* Mutant of failures: a device that could not be reached is let pass.     *)
NoFailures(lost) == {}

(* Anything but delivered or gone is an error, once all were tried.        *)
failures(lost) == lost

(* The devices are tried in turn.  A send that takes too long is given up, *)
(* but not stopped: it may have reached any of them, or still reach them.  *)
sendGenerationPush(d) ==
    LET me == drainers[d] IN
    /\ At(d, "send")
    /\ \E got \in SUBSET (me.tokens \ gone), timedOut \in BOOLEAN :
         LET lost == me.tokens \ (got \cup gone)
             failed == timedOut \/ failures(lost) # {}
             stale == IF failed THEN {} ELSE me.tokens \cap gone IN
         /\ received' = [received EXCEPT ![me.row] = @ \cup got]
         /\ Goes(d, [me EXCEPT !.at = IF stale = {} THEN "ack" ELSE "drop",
                               !.failed = failed, !.stale = stale])
    /\ UNCHANGED <<outbox, left, phone, owed, upsets>>

(* A cleanup that fails is not a failed delivery.                          *)
dropStaleTokens(d) ==
    LET me == drainers[d] IN
    /\ At(d, "drop")
    /\ \/ devices' = devices \ me.stale /\ UNCHANGED upsets
       \/ Upset /\ UNCHANGED devices
    /\ Goes(d, [me EXCEPT !.at = "ack"])
    /\ UNCHANGED <<outbox, left, gone, told>>

(* An acknowledgement may be lost on its way; its answer is not looked at. *)
ack(d) ==
    LET me == drainers[d] IN
    /\ At(d, "ack")
    /\ \/ fn_ack_notification(d, me.row) /\ UNCHANGED upsets
       \/ Upset /\ UNCHANGED <<outbox, left, owed>>
    /\ Goes(d, Drainer("next", me.todo, Nobody, me.age))
    /\ UNCHANGED <<phone, received>>

Crash(d) ==
    /\ ~At(d, "idle") /\ Upset
    /\ Goes(d, Idle)
    /\ UNCHANGED <<outbox, left, phone, told>>

-----------------------------------------------------------------------------
(* Time, and the customer's phones.                                        *)

(* A step of time passes while drainers rest or send, and no send outlasts *)
(* its timeout.                                                            *)
Tick ==
    /\ \A d \in Drainers :
         At(d, "idle") \/ (At(d, "send") /\ drainers[d].spent < SendTimeout)
    /\ drainers' = [d \in Drainers |->
          IF At(d, "idle") THEN Idle
          ELSE [drainers[d] EXCEPT !.age = @ + 1, !.spent = @ + 1]]
    /\ left' = [r \in Rows |-> IF left[r] = 0 THEN 0 ELSE left[r] - 1]
    /\ \E r \in Rows : left[r] > 0
    /\ UNCHANGED <<outbox, phone, told, upsets>>

BackOffEnds(r) ==
    /\ outbox[r].waits
    /\ outbox' = [outbox EXCEPT ![r].waits = FALSE]
    /\ UNCHANGED <<left, drainers, phone, told, upsets>>

registerDevice(t) ==
    /\ Upset
    /\ t \in Devices \ (devices \cup gone)
    /\ devices' = devices \cup {t}
    /\ UNCHANGED <<outbox, left, drainers, gone, told>>

removeDevice(t) ==
    /\ Upset
    /\ t \in devices
    /\ devices' = devices \ {t}
    /\ UNCHANGED <<outbox, left, drainers, gone, told>>

Uninstalled(t) ==
    /\ Upset
    /\ t \notin gone
    /\ gone' = gone \cup {t}
    /\ UNCHANGED <<outbox, left, drainers, devices, told>>

Next ==
    \/ \E d \in Drainers :
         \/ drainNotifications(d) \/ NextRow(d) \/ lookupDevices(d)
         \/ sendGenerationPush(d) \/ dropStaleTokens(d) \/ ack(d) \/ Crash(d)
    \/ Tick
    \/ \E r \in Rows : BackOffEnds(r)
    \/ \E t \in Devices : registerDevice(t) \/ removeDevice(t) \/ Uninstalled(t)

Spec == Init /\ [][Next]_outboxVars

-----------------------------------------------------------------------------
Sending(d, r) == At(d, "send") /\ drainers[d].row = r

(* While a drainer pushes a row, the row is its own: no other drainer can  *)
(* claim it and push it too, however long the rows before it took.         *)
SenderHoldsRow ==
    \A d \in Drainers, r \in Rows : Sending(d, r) => Fenced(d, r)

(* A row counts as sent only if every device it was for got it or is gone, *)
(* whoever sent it, however often, and whichever acknowledgement came late.*)
SentMeansDelivered ==
    \A r \in Rows : outbox[r].status = "sent" => owed[r] \subseteq received[r] \cup gone
=============================================================================
