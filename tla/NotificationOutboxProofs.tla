---------------------- MODULE NotificationOutboxProofs ----------------------
(***************************************************************************)
(* A drainer holds the lease of every row of its batch for as long as it   *)
(* may still push it, and a row that counts as sent was delivered, whatever *)
(* the constants, if the lease outlasts the budget by one send             *)
(* (ConstantsFit).                                                         *)
(*                                                                         *)
(* SenderHoldsRow is not inductive: that a row being pushed is still held  *)
(* follows from how long ago its batch was claimed.  Ages says that a      *)
(* drainer at work is no older than the budget and the send it is in, and  *)
(* BatchHeld that a lease has what is left of it after the drainer's age.  *)
(***************************************************************************)
EXTENDS NotificationOutbox, TLAPS

Working == {"lookup", "send", "drop", "ack"}

(* The rows a drainer may still push.                                      *)
Carried(d) == drainers[d].todo \cup (IF drainers[d].at \in Working THEN {drainers[d].row} ELSE {})

RowType ==
    [lease : Drainers \cup {Nobody}, attempts : Nat, waits : BOOLEAN,
     status : {"pending", "sent", "dead"}]

DrainerType ==
    [at : Working \cup {"idle", "next"}, todo : SUBSET Rows, row : Rows \cup {Nobody},
     age : Nat, spent : Nat, tokens : SUBSET Devices, stale : SUBSET Devices,
     failed : BOOLEAN]

TypeOK ==
    /\ outbox \in [Rows -> RowType]
    /\ left \in [Rows -> Nat]
    /\ drainers \in [Drainers -> DrainerType]
    /\ devices \in SUBSET Devices

WorksOnRow ==
    \A d \in Drainers :
        /\ At(d, "idle") => drainers[d].todo = {}
        /\ drainers[d].at \in Working =>
              drainers[d].row \in Rows /\ drainers[d].row \notin drainers[d].todo

Ages ==
    \A d \in Drainers :
        /\ At(d, "next") => drainers[d].age <= LeaseBudget + SendTimeout
        /\ drainers[d].at \in Working =>
              drainers[d].spent <= SendTimeout /\ drainers[d].age <= LeaseBudget + drainers[d].spent

BatchHeld ==
    \A d \in Drainers : \A r \in Carried(d) :
        /\ outbox[r].lease = d /\ outbox[r].status = "pending"
        /\ left[r] + drainers[d].age = Lease

IInv == TypeOK /\ WorksOnRow /\ Ages /\ BatchHeld

(* A drainer that still has rows is younger than their leases.             *)
LEMMA Young ==
    ASSUME ConstantsFit, IInv, NEW d \in Drainers, NEW r \in Carried(d)
    PROVE  r \in Rows /\ ~At(d, "idle") /\ left[r] > 0
<1>1. r \in Rows /\ ~At(d, "idle")
    BY DEF IInv, WorksOnRow, TypeOK, DrainerType, Carried, Working, At
<1>2. drainers[d].age < Lease
    BY <1>1 DEF ConstantsFit, SendTimeout, IInv, Ages, TypeOK, DrainerType, Working, At
<1> QED
    BY <1>1, <1>2 DEF ConstantsFit, IInv, BatchHeld, TypeOK, DrainerType

LEMMA InitHolds == ConstantsFit /\ Init => IInv
    BY DEF ConstantsFit, Init, Row, Idle, Drainer, IInv, TypeOK, RowType, DrainerType, Working,
           WorksOnRow, Ages, BatchHeld, Carried, At

-----------------------------------------------------------------------------
(* One step each.                                                          *)

(* A claim takes no row of another batch: its lease is still running.      *)
LEMMA ClaimHolds ==
    ASSUME ConstantsFit, IInv, NEW d \in Drainers, drainNotifications(d)
    PROVE  IInv'
<1>1. Batch \subseteq Rows /\ \A r \in Batch : left[r] = 0 /\ outbox[r].status = "pending"
    BY DEF Batch, Claimable
<1>2. /\ outbox' = [r \in Rows |->
             IF r \in Batch THEN Row(d, outbox[r].attempts + 1, FALSE, "pending")
             ELSE outbox[r]]
      /\ left' = [r \in Rows |-> IF r \in Batch THEN Lease ELSE left[r]]
      /\ devices' = devices
    BY DEF drainNotifications, fn_claim_notifications, phone
<1> DEFINE begun == Drainer("next", Batch, Nobody, 0)
<1>3. drainers' = drainers \/ drainers' = [drainers EXCEPT ![d] = begun]
    BY DEF drainNotifications, Goes
<1>4. \A e \in Drainers : \A r \in Carried(e) : r \notin Batch
    BY <1>1, Young
<1>5. TypeOK'
    <2>1. outbox' \in [Rows -> RowType]
        BY <1>1, <1>2 DEF IInv, TypeOK, RowType, Row
    <2>2. left' \in [Rows -> Nat]
        BY <1>2 DEF IInv, TypeOK, ConstantsFit
    <2>3. drainers' \in [Drainers -> DrainerType]
        <3>1. begun \in DrainerType
            BY <1>1 DEF DrainerType, Drainer
        <3> QED
            BY <1>3, <3>1 DEF IInv, TypeOK
    <2> QED
        BY <1>2, <2>1, <2>2, <2>3 DEF IInv, TypeOK
<1>6. WorksOnRow' /\ Ages'
    BY <1>1, <1>3 DEF IInv, TypeOK, DrainerType, WorksOnRow, Ages, At, Working,
                  Drainer, ConstantsFit, SendTimeout
<1>7. BatchHeld'
    <2>1. \A e \in Drainers : \A r \in Carried(e) :
            r \in Rows /\ outbox'[r] = outbox[r] /\ left'[r] = left[r]
        BY <1>2, <1>4, Young
    <2>2. CASE drainers' = drainers
        BY <2>1, <2>2 DEF IInv, BatchHeld, Carried
    <2>3. CASE drainers' = [drainers EXCEPT ![d] = begun]
        <3> SUFFICES ASSUME NEW e \in Drainers, NEW r \in Carried(e)'
                     PROVE  /\ outbox'[r].lease = e /\ outbox'[r].status = "pending"
                            /\ left'[r] + drainers'[e].age = Lease
            BY DEF BatchHeld
        <3>1. CASE e = d
            <4>1. r \in Batch /\ drainers'[e].age = 0
                BY <2>3, <3>1 DEF Carried, Working, Drainer, IInv, TypeOK
            <4> QED
                BY <1>1, <1>2, <3>1, <4>1 DEF Row, ConstantsFit
        <3>2. CASE e # d
            <4>1. drainers'[e] = drainers[e] /\ r \in Carried(e)
                BY <2>3, <3>2 DEF Carried, IInv, TypeOK
            <4> QED
                BY <2>1, <4>1 DEF IInv, BatchHeld
        <3> QED
            BY <3>1, <3>2
    <2> QED
        BY <1>3, <2>2, <2>3
<1> QED
    BY <1>5, <1>6, <1>7 DEF IInv

(* A drainer that moves on among its own rows, and touches no lease.       *)
LEMMA OwnStepHolds ==
    ASSUME ConstantsFit, IInv, NEW d \in Drainers, NEW state \in DrainerType,
           Goes(d, state), UNCHANGED <<outbox, left>>, devices' \in SUBSET Devices,
           state.at = "idle" => state.todo = {},
           state.at \in Working => state.row \in Rows /\ state.row \notin state.todo,
           state.at = "next" => state.age <= LeaseBudget + SendTimeout,
           state.at \in Working =>
               state.spent <= SendTimeout /\ state.age <= LeaseBudget + state.spent,
           state.at # "idle" => state.age = drainers[d].age,
           state.todo \cup (IF state.at \in Working THEN {state.row} ELSE {}) \subseteq Carried(d)
    PROVE  IInv'
<1>1. drainers' = [drainers EXCEPT ![d] = state] /\ drainers \in [Drainers -> DrainerType]
    BY DEF Goes, IInv, TypeOK
<1>2. TypeOK' /\ WorksOnRow' /\ Ages'
    BY <1>1 DEF IInv, TypeOK, WorksOnRow, Ages, At
<1>3. BatchHeld'
    <2> SUFFICES ASSUME NEW e \in Drainers, NEW r \in Carried(e)'
                 PROVE  /\ outbox'[r].lease = e /\ outbox'[r].status = "pending"
                        /\ left'[r] + drainers'[e].age = Lease
        BY DEF BatchHeld
    <2>1. r \in Carried(e) /\ drainers'[e].age = drainers[e].age
        BY <1>1 DEF Carried, Working
    <2> QED
        BY <2>1 DEF IInv, BatchHeld
<1> QED
    BY <1>2, <1>3 DEF IInv

LEMMA NextRowHolds ==
    ASSUME ConstantsFit, IInv, NEW d \in Drainers, NextRow(d)
    PROVE  IInv'
<1>1. drainers[d] \in DrainerType /\ drainers[d].at = "next"
    BY DEF NextRow, At, IInv, TypeOK
<1>2. drainers[d].age <= LeaseBudget + SendTimeout
    BY <1>1 DEF IInv, Ages, At
<1>3. Carried(d) = drainers[d].todo /\ devices' \in SUBSET Devices
    BY <1>1 DEF Carried, Working, NextRow, phone, IInv, TypeOK
<1>4. CASE Goes(d, Idle)
    BY <1>3, <1>4, OwnStepHolds DEF NextRow, Idle, Drainer, DrainerType, Working
<1>5. ASSUME NEW r \in drainers[d].todo,
             Goes(d, Drainer(IF Affordable(d) THEN "lookup" ELSE "next",
                             drainers[d].todo \ {r}, r, drainers[d].age))
      PROVE  IInv'
    <2> DEFINE state == Drainer(IF Affordable(d) THEN "lookup" ELSE "next",
                                drainers[d].todo \ {r}, r, drainers[d].age)
    <2>1. state \in DrainerType /\ state.at \in {"next", "lookup"}
        BY <1>1, <1>5 DEF Drainer, DrainerType, Working
    <2>2. /\ state.row = r /\ r \in Rows /\ r \notin state.todo
          /\ state.age = drainers[d].age /\ state.spent = 0
          /\ state.todo \cup {r} \subseteq Carried(d)
        BY <1>1, <1>3, <1>5 DEF Drainer, DrainerType
    <2>3. state.at = "lookup" => state.age <= LeaseBudget
        BY DEF Drainer, Affordable
    <2> HIDE DEF state
    <2>4. state.spent <= SendTimeout /\ state.at # "idle"
        BY <2>1, <2>2 DEF SendTimeout
    <2>5. state.at \in Working => state.age <= LeaseBudget + state.spent
        BY <2>1, <2>2, <2>3 DEF Working, ConstantsFit, DrainerType
    <2>6. state.todo \cup (IF state.at \in Working THEN {state.row} ELSE {}) \subseteq Carried(d)
        BY <2>2
    <2>7. UNCHANGED <<outbox, left>> /\ Goes(d, state)
        BY <1>5 DEF NextRow, state
    <2> QED
        BY <1>2, <1>3, <2>1, <2>2, <2>4, <2>5, <2>6, <2>7, OwnStepHolds
<1> QED
    BY <1>4, <1>5 DEF NextRow

(* A drainer that takes its next call about the row it is at.              *)
LEMMA SameRowHolds ==
    ASSUME ConstantsFit, IInv, NEW d \in Drainers, NEW state \in DrainerType,
           drainers[d].at \in Working, Goes(d, state), UNCHANGED <<outbox, left>>,
           devices' \in SUBSET Devices, state.at \in Working,
           state.todo = drainers[d].todo, state.row = drainers[d].row,
           state.age = drainers[d].age, state.spent = drainers[d].spent
    PROVE  IInv'
<1>1. state.row \in Rows /\ state.row \notin state.todo /\ state.at \notin {"idle", "next"}
    BY DEF IInv, WorksOnRow, Working
<1>2. state.spent <= SendTimeout /\ state.age <= LeaseBudget + state.spent
    BY DEF IInv, Ages
<1>3. state.todo \cup (IF state.at \in Working THEN {state.row} ELSE {}) \subseteq Carried(d)
    BY DEF Carried
<1> QED
    BY <1>1, <1>2, <1>3, OwnStepHolds

LEMMA LookupHolds ==
    ASSUME ConstantsFit, IInv, NEW d \in Drainers, lookupDevices(d)
    PROVE  IInv'
<1> DEFINE me == drainers[d]
           found == [me EXCEPT !.at = IF devices = {} THEN "ack" ELSE "send",
                               !.tokens = devices]
           unread == [me EXCEPT !.at = "ack", !.failed = TRUE]
<1>1. me \in DrainerType /\ me.at = "lookup" /\ devices \in SUBSET Devices
    BY DEF lookupDevices, At, IInv, TypeOK
<1>2. UNCHANGED <<outbox, left, devices>>
    BY DEF lookupDevices, phone
<1>3. PICK state \in {found, unread} : Goes(d, state)
    BY DEF lookupDevices
<1>4. /\ state \in DrainerType /\ state.at \in {"send", "ack"}
      /\ state.todo = me.todo /\ state.row = me.row
      /\ state.age = me.age /\ state.spent = me.spent
    BY <1>1, <1>3 DEF DrainerType, Working
<1> QED
    BY <1>1, <1>2, <1>3, <1>4, SameRowHolds DEF Working

LEMMA SendHolds ==
    ASSUME ConstantsFit, IInv, NEW d \in Drainers, sendGenerationPush(d)
    PROVE  IInv'
<1> DEFINE me == drainers[d]
<1>1. me \in DrainerType /\ me.at = "send" /\ devices' \in SUBSET Devices
    BY DEF sendGenerationPush, At, phone, IInv, TypeOK
<1>2. PICK failed \in BOOLEAN, stale \in SUBSET Devices :
          Goes(d, [me EXCEPT !.at = IF stale = {} THEN "ack" ELSE "drop",
                             !.failed = failed, !.stale = stale])
    <2>1. PICK got \in SUBSET (me.tokens \ gone), timedOut \in BOOLEAN :
              LET lost == me.tokens \ (got \cup gone)
                  failed == timedOut \/ failures(lost) # {}
                  stale == IF failed THEN {} ELSE me.tokens \cap gone IN
              Goes(d, [me EXCEPT !.at = IF stale = {} THEN "ack" ELSE "drop",
                                 !.failed = failed, !.stale = stale])
        BY DEF sendGenerationPush
    <2> DEFINE failed == timedOut \/ failures(me.tokens \ (got \cup gone)) # {}
               stale == IF failed THEN {} ELSE me.tokens \cap gone
    <2>2. failed \in BOOLEAN /\ stale \in SUBSET Devices
        BY <1>1 DEF DrainerType
    <2> QED
        BY <2>1, <2>2
<1> DEFINE state == [me EXCEPT !.at = IF stale = {} THEN "ack" ELSE "drop",
                               !.failed = failed, !.stale = stale]
<1>3. /\ state \in DrainerType /\ state.at \in {"drop", "ack"}
      /\ state.todo = me.todo /\ state.row = me.row
      /\ state.age = me.age /\ state.spent = me.spent
    BY <1>1 DEF DrainerType, Working
<1>4. UNCHANGED <<outbox, left>>
    BY DEF sendGenerationPush
<1> HIDE DEF state
<1>5. Goes(d, state)
    BY <1>2 DEF state
<1> QED
    BY <1>1, <1>3, <1>4, <1>5, SameRowHolds DEF Working

LEMMA DropHolds ==
    ASSUME ConstantsFit, IInv, NEW d \in Drainers, dropStaleTokens(d)
    PROVE  IInv'
<1> DEFINE me == drainers[d]
           state == [me EXCEPT !.at = "ack"]
<1>1. me \in DrainerType /\ me.at = "drop" /\ devices' \in SUBSET Devices
    BY DEF dropStaleTokens, At, IInv, TypeOK
<1>2. UNCHANGED <<outbox, left>> /\ Goes(d, state)
    BY DEF dropStaleTokens
<1>3. /\ state \in DrainerType /\ state.at = "ack"
      /\ state.todo = me.todo /\ state.row = me.row
      /\ state.age = me.age /\ state.spent = me.spent
    BY <1>1 DEF DrainerType, Working
<1> HIDE DEF state
<1> QED
    BY <1>1, <1>2, <1>3, SameRowHolds DEF Working

(* The acknowledged row is no longer of the batch, and in no other.        *)
LEMMA AckHolds ==
    ASSUME ConstantsFit, IInv, NEW d \in Drainers, ack(d)
    PROVE  IInv'
<1> DEFINE me == drainers[d]
           state == Drainer("next", me.todo, Nobody, me.age)
<1>1. /\ me \in DrainerType /\ me.at = "ack" /\ me.row \in Rows /\ me.row \notin me.todo
      /\ Carried(d) = me.todo \cup {me.row}
    BY DEF ack, At, IInv, TypeOK, WorksOnRow, Working, Carried
<1>2. state \in DrainerType /\ state.at = "next" /\ state.todo = me.todo /\ state.age = me.age
    BY <1>1 DEF DrainerType, Drainer
<1>3. me.age <= LeaseBudget + SendTimeout
    BY <1>1 DEF IInv, Ages, Working, DrainerType, ConstantsFit, SendTimeout
<1>4. drainers' = [drainers EXCEPT ![d] = state] /\ UNCHANGED devices
    BY DEF ack, Goes, phone
<1>5. PICK status \in {"pending", "sent", "dead"} :
        \/ UNCHANGED <<outbox, left>>
        \/ /\ outbox' = [outbox EXCEPT ![me.row] = Row(Nobody, outbox[me.row].attempts, TRUE, status)]
           /\ left' = [left EXCEPT ![me.row] = 0]
    <2>1. \/ UNCHANGED <<outbox, left>>
          \/ /\ outbox' = [outbox EXCEPT ![me.row] =
                    Row(Nobody, outbox[me.row].attempts, TRUE,
                        CASE ~me.failed -> "sent"
                          [] me.failed /\ outbox[me.row].attempts >= GiveUpAfter -> "dead"
                          [] OTHER -> "pending")]
             /\ left' = [left EXCEPT ![me.row] = 0]
        BY <1>1 DEF ack, fn_ack_notification, IInv, TypeOK
    <2> DEFINE status == CASE ~me.failed -> "sent"
                           [] me.failed /\ outbox[me.row].attempts >= GiveUpAfter -> "dead"
                           [] OTHER -> "pending"
    <2>2. status \in {"pending", "sent", "dead"}
        BY <1>1 DEF DrainerType
    <2> HIDE DEF status
    <2> QED
        BY <2>1, <2>2 DEF status
<1> HIDE DEF state
<1>6. TypeOK'
    <2> DEFINE acked == Row(Nobody, outbox[me.row].attempts, TRUE, status)
    <2>a. outbox \in [Rows -> RowType] /\ left \in [Rows -> Nat] /\ me.row \in Rows
        BY <1>1 DEF IInv, TypeOK
    <2>b. acked \in RowType
        BY <2>a DEF RowType, Row
    <2> HIDE DEF acked, me
    <2>1. outbox' \in [Rows -> RowType]
        <3>1. outbox' = outbox \/ outbox' = [outbox EXCEPT ![me.row] = acked]
            BY <1>5 DEF acked
        <3> QED
            BY <2>a, <2>b, <3>1
    <2>2. left' \in [Rows -> Nat]
        <3>1. left' = left \/ left' = [left EXCEPT ![me.row] = 0]
            BY <1>5
        <3> QED
            BY <2>a, <3>1
    <2> QED
        BY <1>2, <1>4, <2>1, <2>2 DEF IInv, TypeOK
<1>7. WorksOnRow' /\ Ages'
    BY <1>2, <1>3, <1>4 DEF IInv, TypeOK, WorksOnRow, Ages, At, Working
<1>8. BatchHeld'
    <2> SUFFICES ASSUME NEW e \in Drainers, NEW r \in Carried(e)'
                 PROVE  /\ outbox'[r].lease = e /\ outbox'[r].status = "pending"
                        /\ left'[r] + drainers'[e].age = Lease
        BY DEF BatchHeld
    <2>1. r \in Carried(e) /\ drainers'[e].age = drainers[e].age /\ (e = d => r \in me.todo)
        BY <1>1, <1>2, <1>4 DEF Carried, Working, IInv, TypeOK
    <2>2. r # me.row
        BY <1>1, <2>1 DEF IInv, BatchHeld
    <2>3. outbox'[r] = outbox[r] /\ left'[r] = left[r] /\ r \in Rows
        BY <1>5, <2>1, <2>2, Young DEF IInv, TypeOK
    <2> QED
        BY <2>1, <2>3 DEF IInv, BatchHeld
<1> QED
    BY <1>6, <1>7, <1>8 DEF IInv

LEMMA CrashHolds ==
    ASSUME ConstantsFit, IInv, NEW d \in Drainers, Crash(d)
    PROVE  IInv'
BY OwnStepHolds DEF Crash, phone, Idle, Drainer, DrainerType, Working, IInv, TypeOK

(* Leases and drainers age together.                                       *)
LEMMA TickHolds ==
    ASSUME ConstantsFit, IInv, Tick
    PROVE  IInv'
<1>1. ASSUME NEW d \in Drainers
      PROVE  \/ At(d, "idle") /\ drainers'[d] = Idle
             \/ /\ At(d, "send") /\ drainers[d].spent < SendTimeout
                /\ drainers[d] \in DrainerType
                /\ drainers'[d] = [drainers[d] EXCEPT !.age = @ + 1, !.spent = @ + 1]
    BY <1>1 DEF Tick, At, IInv, TypeOK
<1>2. left' = [r \in Rows |-> IF left[r] = 0 THEN 0 ELSE left[r] - 1] /\ UNCHANGED <<outbox, devices>>
    BY DEF Tick, phone
<1>3. ASSUME NEW d \in Drainers
      PROVE  /\ drainers'[d] \in DrainerType
             /\ drainers'[d].at = drainers[d].at
             /\ drainers'[d].at = "idle" => drainers'[d].todo = {}
             /\ drainers'[d].at = "send" =>
                   /\ drainers'[d].todo = drainers[d].todo /\ drainers'[d].row = drainers[d].row
                   /\ drainers'[d].age = drainers[d].age + 1
                   /\ drainers'[d].spent = drainers[d].spent + 1
                   /\ drainers'[d].spent <= SendTimeout
             /\ drainers'[d].at \in {"idle", "send"}
    <2>1. CASE At(d, "idle") /\ drainers'[d] = Idle
        BY <2>1 DEF At, Idle, Drainer, DrainerType
    <2>2. CASE /\ At(d, "send") /\ drainers[d].spent < SendTimeout
               /\ drainers[d] \in DrainerType
               /\ drainers'[d] = [drainers[d] EXCEPT !.age = @ + 1, !.spent = @ + 1]
        <3>1. drainers'[d] \in DrainerType
            <4>1. [drainers[d] EXCEPT !.age = @ + 1] \in DrainerType
                BY <2>2 DEF DrainerType
            <4>2. ASSUME NEW aged \in DrainerType
                  PROVE  [aged EXCEPT !.spent = @ + 1] \in DrainerType
                BY DEF DrainerType
            <4> QED
                BY <2>2, <4>1, <4>2
        <3>2. /\ drainers'[d].at = "send"
              /\ drainers'[d].todo = drainers[d].todo /\ drainers'[d].row = drainers[d].row
            BY <2>2 DEF At, DrainerType
        <3>3. /\ drainers'[d].age = drainers[d].age + 1
              /\ drainers'[d].spent = drainers[d].spent + 1
            BY <2>2 DEF DrainerType
        <3>4. drainers[d].spent + 1 <= SendTimeout /\ drainers[d].at = "send"
            BY <2>2 DEF At, DrainerType, SendTimeout
        <3> QED
            BY <3>1, <3>2, <3>3, <3>4
    <2> QED
        BY <1>1, <2>1, <2>2
<1>4. TypeOK'
    <2>1. left' \in [Rows -> Nat]
        BY <1>2 DEF IInv, TypeOK
    <2>2. drainers' \in [Drainers -> DrainerType]
        BY <1>3 DEF Tick
    <2> QED
        BY <1>2, <2>1, <2>2 DEF IInv, TypeOK
<1>5. WorksOnRow' /\ Ages'
    BY <1>3 DEF IInv, TypeOK, DrainerType, WorksOnRow, Ages, At, Working, ConstantsFit, SendTimeout
<1>6. BatchHeld'
    <2> SUFFICES ASSUME NEW d \in Drainers, NEW r \in Carried(d)'
                 PROVE  /\ outbox'[r].lease = d /\ outbox'[r].status = "pending"
                        /\ left'[r] + drainers'[d].age = Lease
        BY DEF BatchHeld
    <2>1. r \in Carried(d) /\ drainers'[d].age = drainers[d].age + 1
        BY <1>3 DEF Carried, Working
    <2>2. r \in Rows /\ left[r] > 0 /\ left'[r] = left[r] - 1
        BY <1>2, <2>1, Young DEF IInv, TypeOK
    <2> QED
        BY <1>2, <2>1, <2>2 DEF IInv, BatchHeld, TypeOK, DrainerType, ConstantsFit
<1> QED
    BY <1>4, <1>5, <1>6 DEF IInv

LEMMA BackOffHolds ==
    ASSUME ConstantsFit, IInv, NEW r \in Rows, BackOffEnds(r)
    PROVE  IInv'
<1>1. outbox' = [outbox EXCEPT ![r].waits = FALSE] /\ UNCHANGED <<left, drainers, devices>>
    BY DEF BackOffEnds, phone
<1>2. /\ outbox' \in [Rows -> RowType]
      /\ \A q \in Rows : outbox'[q].lease = outbox[q].lease /\ outbox'[q].status = outbox[q].status
    BY <1>1 DEF IInv, TypeOK, RowType
<1>3. BatchHeld'
    BY <1>1, <1>2, Young DEF IInv, BatchHeld, Carried
<1> QED
    BY <1>1, <1>2, <1>3 DEF IInv, TypeOK, WorksOnRow, Ages, At

LEMMA PhonesHold ==
    ASSUME ConstantsFit, IInv, UNCHANGED <<outbox, left, drainers>>, devices' \in SUBSET Devices
    PROVE  IInv'
BY DEF IInv, TypeOK, WorksOnRow, Ages, BatchHeld, Carried, At

LEMMA StepHolds ==
    ASSUME ConstantsFit, IInv, [Next]_outboxVars
    PROVE  IInv'
<1>1. ASSUME NEW d \in Drainers,
             \/ drainNotifications(d) \/ NextRow(d) \/ lookupDevices(d)
             \/ sendGenerationPush(d) \/ dropStaleTokens(d) \/ ack(d) \/ Crash(d)
      PROVE  IInv'
    BY <1>1, ClaimHolds, NextRowHolds, LookupHolds, SendHolds, DropHolds, AckHolds, CrashHolds
<1>2. ASSUME NEW t \in Devices, registerDevice(t) \/ removeDevice(t) \/ Uninstalled(t)
      PROVE  IInv'
    BY <1>2, PhonesHold DEF registerDevice, removeDevice, Uninstalled, IInv, TypeOK
<1>3. CASE UNCHANGED outboxVars
    BY <1>3, PhonesHold DEF outboxVars, IInv, TypeOK
<1> QED
    BY <1>1, <1>2, <1>3, TickHolds, BackOffHolds DEF Next

-----------------------------------------------------------------------------
(* While a drainer pushes a row, no other drainer can claim it: for any    *)
(* number of rows, drainers and devices, and any lease that outlasts the   *)
(* budget by one send (LEASE_BUDGET_MS and SEND_TIMEOUT_MS against the two *)
(* minutes of fn_claim_notifications).                                     *)
THEOREM SenderAlwaysHoldsRow == ConstantsFit /\ Spec => []SenderHoldsRow
<1> SUFFICES ASSUME ConstantsFit
             PROVE  Spec => []SenderHoldsRow
    OBVIOUS
<1>1. Init => IInv
    BY InitHolds
<1>2. IInv /\ [Next]_outboxVars => IInv'
    BY StepHolds
<1>3. IInv => SenderHoldsRow
    <2> SUFFICES ASSUME IInv, NEW d \in Drainers, NEW r \in Rows, Sending(d, r)
                 PROVE  Fenced(d, r)
        BY DEF SenderHoldsRow
    <2>1. r \in Carried(d)
        BY DEF Sending, At, Carried, Working
    <2> QED
        BY <2>1, Young DEF Fenced, IInv, BatchHeld
<1> QED
    BY <1>1, <1>2, <1>3, PTL DEF Spec
-----------------------------------------------------------------------------
(* What a sent row says                                                    *)

(* SentMeansDelivered needs to know what a drainer has seen when it comes  *)
(* to acknowledge: unless it failed, each device it looked up got the      *)
(* message or is gone, and neither is ever taken back.                     *)
DeliveryInv ==
    /\ received \in [Rows -> SUBSET Devices] /\ owed \in [Rows -> SUBSET Devices]
    /\ SentMeansDelivered
    /\ \A d \in Drainers :
         drainers[d].at \in {"drop", "ack"} /\ ~drainers[d].failed
           => drainers[d].tokens \subseteq received[drainers[d].row] \cup gone

LEMMA DeliveryGrows ==
    ASSUME IInv, DeliveryInv, gone \subseteq gone', owed' = owed,
           received' \in [Rows -> SUBSET Devices],
           \A r \in Rows : received[r] \subseteq received'[r],
           \A r \in Rows : outbox'[r].status = "sent" => outbox[r].status = "sent",
           \A d \in Drainers :
             drainers'[d].at \in {"drop", "ack"} /\ ~drainers'[d].failed
               => \/ /\ drainers[d].at \in {"drop", "ack"} /\ ~drainers[d].failed
                     /\ drainers'[d].row = drainers[d].row
                     /\ drainers'[d].tokens = drainers[d].tokens
                  \/ drainers'[d].tokens \subseteq received'[drainers'[d].row] \cup gone
    PROVE  DeliveryInv'
<1>1. SentMeansDelivered'
    <2> SUFFICES ASSUME NEW r \in Rows, outbox'[r].status = "sent"
                 PROVE  owed'[r] \subseteq received'[r] \cup gone'
        BY DEF SentMeansDelivered
    <2>1. owed[r] \subseteq received[r] \cup gone
        BY DEF DeliveryInv, SentMeansDelivered
    <2> QED
        BY <2>1
<1>2. ASSUME NEW d \in Drainers, drainers'[d].at \in {"drop", "ack"}, ~drainers'[d].failed
      PROVE  drainers'[d].tokens \subseteq received'[drainers'[d].row] \cup gone'
    <2>1. CASE /\ drainers[d].at \in {"drop", "ack"} /\ ~drainers[d].failed
               /\ drainers'[d].row = drainers[d].row
               /\ drainers'[d].tokens = drainers[d].tokens
        <3>1. drainers[d].row \in Rows
            BY <2>1 DEF IInv, WorksOnRow, Working
        <3>2. drainers[d].tokens \subseteq received[drainers[d].row] \cup gone
            BY <2>1 DEF DeliveryInv
        <3> QED
            BY <2>1, <3>1, <3>2
    <2> QED
        BY <1>2, <2>1
<1> QED
    BY <1>1, <1>2 DEF DeliveryInv

LEMMA SendDelivers ==
    ASSUME IInv, DeliveryInv, NEW d \in Drainers, sendGenerationPush(d)
    PROVE  DeliveryInv'
<1> DEFINE me == drainers[d]
<1>1. me \in DrainerType /\ me.row \in Rows
    BY DEF sendGenerationPush, At, IInv, TypeOK, WorksOnRow, Working
<1>2. PICK got \in SUBSET (me.tokens \ gone), timedOut \in BOOLEAN :
        LET lost == me.tokens \ (got \cup gone)
            failed == timedOut \/ failures(lost) # {}
            stale == IF failed THEN {} ELSE me.tokens \cap gone IN
        /\ received' = [received EXCEPT ![me.row] = @ \cup got]
        /\ Goes(d, [me EXCEPT !.at = IF stale = {} THEN "ack" ELSE "drop",
                              !.failed = failed, !.stale = stale])
    BY DEF sendGenerationPush
<1> DEFINE failed == timedOut \/ failures(me.tokens \ (got \cup gone)) # {}
           stale == IF failed THEN {} ELSE me.tokens \cap gone
           state == [me EXCEPT !.at = IF stale = {} THEN "ack" ELSE "drop",
                               !.failed = failed, !.stale = stale]
<1>3. /\ state.row = me.row /\ state.tokens = me.tokens
      /\ ~state.failed => me.tokens \subseteq got \cup gone
    <2>1. state.row = me.row /\ state.tokens = me.tokens /\ state.failed = failed
        BY <1>1 DEF DrainerType
    <2>2. ~failed => me.tokens \subseteq got \cup gone
        BY DEF failures
    <2> QED
        BY <2>1, <2>2
<1>4. received' = [received EXCEPT ![me.row] = @ \cup got] /\ got \subseteq Devices
    BY <1>1, <1>2 DEF DrainerType
<1>5. drainers' = [drainers EXCEPT ![d] = state]
    BY <1>2 DEF Goes
<1>6. outbox' = outbox /\ owed' = owed /\ gone' = gone
    BY DEF sendGenerationPush, phone
<1> HIDE DEF state
<1>7. /\ received' \in [Rows -> SUBSET Devices] /\ got \subseteq received'[me.row]
      /\ \A r \in Rows : received[r] \subseteq received'[r]
    BY <1>1, <1>4 DEF DeliveryInv
<1>8. \A e \in Drainers : drainers'[e] = IF e = d THEN state ELSE drainers[e]
    BY <1>5 DEF IInv, TypeOK
<1>9. ~state.failed => state.tokens \subseteq received'[state.row] \cup gone
    BY <1>3, <1>7
<1> QED
    BY <1>6, <1>7, <1>8, <1>9, DeliveryGrows

(* An acknowledgement that arrives says sent of the devices it looked up.  *)
LEMMA AckDelivers ==
    ASSUME IInv, DeliveryInv, NEW d \in Drainers, ack(d)
    PROVE  DeliveryInv'
<1> DEFINE me == drainers[d]
<1>1. /\ me \in DrainerType /\ me.row \in Rows /\ me.at = "ack"
      /\ outbox \in [Rows -> RowType]
    BY DEF ack, At, IInv, TypeOK, WorksOnRow, Working
<1>2. gone' = gone /\ received' = received
    BY DEF ack, phone
<1>3. \A e \in Drainers :
        drainers'[e].at \in {"drop", "ack"} => e # d /\ drainers'[e] = drainers[e]
    <2>1. drainers' = [drainers EXCEPT ![d] = Drainer("next", me.todo, Nobody, me.age)]
        BY DEF ack, Goes
    <2> QED
        BY <2>1 DEF Drainer, IInv, TypeOK
<1>4. CASE Fenced(d, me.row) /\ fn_ack_notification(d, me.row)
    <2> DEFINE status == CASE ~me.failed -> "sent"
                           [] me.failed /\ outbox[me.row].attempts >= GiveUpAfter -> "dead"
                           [] OTHER -> "pending"
    <2>1. me.failed => status # "sent"
        OBVIOUS
    <2>2. /\ outbox' = [outbox EXCEPT ![me.row] =
                 Row(Nobody, outbox[me.row].attempts, TRUE, status)]
          /\ owed' = IF me.failed THEN owed ELSE [owed EXCEPT ![me.row] = me.tokens]
        BY <1>1, <1>4 DEF fn_ack_notification
    <2> HIDE DEF status
    <2>3. /\ outbox'[me.row].status = status
          /\ \A r \in Rows : r # me.row => outbox'[r] = outbox[r]
        BY <1>1, <2>2 DEF Row
    <2>4. owed' \in [Rows -> SUBSET Devices]
        BY <1>1, <2>2 DEF DeliveryInv, DrainerType
    <2>5. ~me.failed => me.tokens \subseteq received[me.row] \cup gone
        BY <1>1 DEF DeliveryInv
    <2>6. SentMeansDelivered'
        <3> SUFFICES ASSUME NEW r \in Rows, outbox'[r].status = "sent"
                     PROVE  owed'[r] \subseteq received[r] \cup gone
            BY <1>2 DEF SentMeansDelivered
        <3>1. CASE r = me.row
            <4>1. ~me.failed
                BY <2>1, <2>3, <3>1
            <4>2. owed'[r] = me.tokens
                BY <1>1, <2>2, <3>1, <4>1 DEF DeliveryInv
            <4> QED
                BY <2>5, <3>1, <4>1, <4>2
        <3>2. CASE r # me.row
            BY <2>2, <2>3, <3>2 DEF DeliveryInv, SentMeansDelivered
        <3> QED
            BY <3>1, <3>2
    <2> QED
        BY <1>2, <1>3, <2>4, <2>6 DEF DeliveryInv
<1>5. CASE UNCHANGED <<outbox, left, owed>>
    BY <1>2, <1>3, <1>5 DEF DeliveryInv, SentMeansDelivered
<1> QED
    BY <1>4, <1>5 DEF ack, fn_ack_notification

LEMMA StepDelivers ==
    ASSUME IInv, DeliveryInv, [Next]_outboxVars
    PROVE  DeliveryInv'
<1> USE DEF IInv, TypeOK
<1>1. ASSUME NEW d \in Drainers, drainNotifications(d)
      PROVE  DeliveryInv'
    <2>1. \A r \in Rows : outbox'[r].status = "sent" => outbox[r].status = "sent"
        BY <1>1 DEF drainNotifications, fn_claim_notifications, Row
    <2>2. \A e \in Drainers : drainers'[e] = drainers[e] \/ drainers'[e].at = "next"
        BY <1>1 DEF drainNotifications, Goes, Drainer
    <2> QED
        BY <1>1, <2>1, <2>2, DeliveryGrows DEF drainNotifications, phone, told, DeliveryInv
<1>2. ASSUME NEW d \in Drainers, NextRow(d) \/ Crash(d)
      PROVE  DeliveryInv'
    <2>1. \A e \in Drainers :
            drainers'[e] = drainers[e] \/ drainers'[e].at \in {"idle", "next", "lookup"}
        BY <1>2 DEF NextRow, Crash, Goes, Drainer, Idle
    <2> QED
        BY <1>2, <2>1, DeliveryGrows DEF NextRow, Crash, phone, told, DeliveryInv
<1>3. ASSUME NEW d \in Drainers, lookupDevices(d)
      PROVE  DeliveryInv'
    <2>1. drainers[d] \in DrainerType
        OBVIOUS
    <2> DEFINE found == [drainers[d] EXCEPT !.at = IF devices = {} THEN "ack" ELSE "send",
                                            !.tokens = devices]
               unread == [drainers[d] EXCEPT !.at = "ack", !.failed = TRUE]
    <2>2. (found.at = "send" \/ found.tokens = {}) /\ unread.failed
        BY <2>1 DEF DrainerType
    <2>3. PICK state \in {found, unread} : drainers' = [drainers EXCEPT ![d] = state]
        BY <1>3 DEF lookupDevices, Goes
    <2>4. state.at = "send" \/ state.tokens = {} \/ state.failed
        BY <2>2
    <2> HIDE DEF found, unread
    <2>5. \A e \in Drainers :
            \/ drainers'[e] = drainers[e]
            \/ drainers'[e].at = "send" \/ drainers'[e].failed \/ drainers'[e].tokens = {}
        BY <2>3, <2>4
    <2> QED
        BY <1>3, <2>5, DeliveryGrows DEF lookupDevices, phone, told, DeliveryInv
<1>4. ASSUME NEW d \in Drainers, dropStaleTokens(d)
      PROVE  DeliveryInv'
    <2>1. drainers[d] \in DrainerType /\ drainers[d].at = "drop"
        BY <1>4 DEF dropStaleTokens, At
    <2>2. \A e \in Drainers :
            \/ drainers'[e] = drainers[e]
            \/ /\ drainers[e].at = "drop" /\ drainers'[e].failed = drainers[e].failed
               /\ drainers'[e].row = drainers[e].row /\ drainers'[e].tokens = drainers[e].tokens
        BY <1>4, <2>1 DEF dropStaleTokens, Goes, DrainerType
    <2> QED
        BY <1>4, <2>2, DeliveryGrows DEF dropStaleTokens, told, DeliveryInv
<1>5. CASE Tick
    <2>1. ASSUME NEW e \in Drainers
          PROVE  drainers'[e].at \in {"idle", "send"}
        <3>1. CASE At(e, "idle")
            BY <1>5, <3>1 DEF Tick, Idle, Drainer
        <3>2. CASE At(e, "send")
            BY <1>5, <3>2 DEF Tick, At, DrainerType
        <3> QED
            BY <1>5, <3>1, <3>2 DEF Tick
    <2> QED
        BY <1>5, <2>1, DeliveryGrows DEF Tick, phone, told, DeliveryInv
<1>6. ASSUME NEW r \in Rows, BackOffEnds(r)
      PROVE  DeliveryInv'
    <2>1. \A q \in Rows : outbox'[q].status = outbox[q].status
        BY <1>6 DEF BackOffEnds, RowType
    <2> QED
        BY <1>6, <2>1, DeliveryGrows DEF BackOffEnds, phone, told, DeliveryInv
<1>7. ASSUME NEW t \in Devices, registerDevice(t) \/ removeDevice(t) \/ Uninstalled(t)
      PROVE  DeliveryInv'
    BY <1>7, DeliveryGrows DEF registerDevice, removeDevice, Uninstalled, told, DeliveryInv
<1>8. CASE UNCHANGED outboxVars
    BY <1>8 DEF outboxVars, DeliveryInv, SentMeansDelivered
<1> QED
    BY <1>1, <1>2, <1>3, <1>4, <1>5, <1>6, <1>7, <1>8, SendDelivers, AckDelivers DEF Next

(* A row counts as sent only if each device it was for got the message or  *)
(* is gone: no timeout, lost acknowledgement or second drainer marks a     *)
(* message sent that someone has yet to get.                               *)
THEOREM SentIsDelivered == ConstantsFit /\ Spec => []SentMeansDelivered
<1> SUFFICES ASSUME ConstantsFit
             PROVE  Spec => []SentMeansDelivered
    OBVIOUS
<1>1. Init => IInv /\ DeliveryInv
    BY InitHolds DEF Init, Row, Idle, Drainer, DeliveryInv, SentMeansDelivered
<1>2. IInv /\ DeliveryInv /\ [Next]_outboxVars => IInv' /\ DeliveryInv'
    BY StepHolds, StepDelivers
<1>3. DeliveryInv => SentMeansDelivered
    BY DEF DeliveryInv
<1> QED
    BY <1>1, <1>2, <1>3, PTL DEF Spec
=============================================================================
