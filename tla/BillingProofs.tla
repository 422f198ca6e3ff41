---------------------------- MODULE BillingProofs ----------------------------
(***************************************************************************)
(* Theorems about BillingFulfillment, for any payments, any number of      *)
(* deliveries at once and any faults; the last one for deliveries in turn. *)
(***************************************************************************)
EXTENDS BillingFulfillment, TLAPS

-----------------------------------------------------------------------------
(* What a run is handling                                                  *)

States == [pc : Steps, ev : Deliveries \cup Webhooks \cup {NoDelivery}, sub : Snapshots]

(* The steps that handle money do so for a deed; a notice is only mirrored *)
(* or acknowledged.                                                        *)
RunShape ==
    /\ due \in SUBSET Webhooks
    /\ run \in [Runs -> States]
    /\ \A h \in Runs :
         /\ ~At(h, "idle") => run[h].ev \in Deliveries \cup Webhooks
         /\ run[h].pc \in {"open", "look", "fulfil", "settle", "close", "refuse", "fail"}
              => run[h].ev \in Deliveries
         /\ run[h].pc \in {"retrieve", "mirror"}
              => run[h].ev \in Deliveries \/ run[h].ev.deed.type = "changed"

LEMMA IdleState == Idle \in States
  BY DEF Idle, States, Steps, Snapshots

LEMMA StopShape ==
    ASSUME RunShape, NEW h \in Runs, Stop(h), due' \in SUBSET Webhooks
    PROVE  RunShape'
  BY IdleState DEF RunShape, Stop, Idle, At

LEMMA GotoShape ==
    ASSUME RunShape, NEW h \in Runs, NEW step \in Steps, Goto(h, step),
           due' \in SUBSET Webhooks,
           run[h].ev \in Deliveries \/ step \in {"mirror", "ack"},
           run[h].ev \in Deliveries \cup Webhooks,
           step = "mirror" => run[h].ev \in Deliveries \/ run[h].ev.deed.type = "changed"
    PROVE  RunShape'
  BY DEF RunShape, Goto, At, States, Steps

LEMMA ThrowShape ==
    ASSUME RunShape, NEW h \in Runs, ~At(h, "idle"), Throw(h), due' \in SUBSET Webhooks
    PROVE  RunShape'
<1>1. CASE run[h].ev.via = "webhook" /\ run[h].ev.deed \in Deeds
  <2>1. run[h].ev \in Deliveries
    BY <1>1 DEF RunShape, Deliveries, Webhooks, Webhook
  <2> QED
    BY <1>1, <2>1, GotoShape DEF Throw, Steps
<1>2. CASE ~(run[h].ev.via = "webhook" /\ run[h].ev.deed \in Deeds)
  BY <1>2, StopShape DEF Throw
<1> QED
  BY <1>1, <1>2

LEMMA DeliveryKinds ==
    /\ \A d \in Deeds : Webhook(d) \in Deliveries /\ Client(d) \in Deliveries
    /\ \A e \in Deliveries : e.deed \in Deeds /\ e.via \in {"webhook", "client"}
    /\ \A e \in Deliveries : e.via = "webhook" => e = Webhook(e.deed)
    /\ \A e \in Webhooks : e \in Deliveries \/ (e.deed \in Notices /\ e = Webhook(e.deed))
    /\ \A d \in Deeds : d.type \in {"grant", "refund"} /\ d.pay \in Payments
    /\ \A d \in Notices : d.type \in {"changed", "ended"}
  BY DEF Webhook, Client, Deliveries, Webhooks, Deeds, Notices, Of, Subscriptions

LEMMA InitShape == Init => RunShape
  BY IdleState DEF Init, RunShape, At, Idle

LEMMA StartShape ==
    ASSUME RunShape, NEW h \in Runs, NEW ev \in Deliveries \cup Webhooks,
           NEW step \in Steps, Start(h, ev, step),
           \/ ev \in Deliveries
           \/ step = "retrieve" /\ ev.deed.type = "changed"
           \/ step = "status"
    PROVE  RunShape'
<1> DEFINE new == [Idle EXCEPT !.pc = step, !.ev = ev]
<1>1. new \in States /\ new.pc = step /\ new.ev = ev
  BY DEF Idle, States, Snapshots
<1>2. run' = [run EXCEPT ![h] = new] /\ due' = due
  BY DEF Start
<1> HIDE DEF new
<1> QED
  BY <1>1, <1>2 DEF RunShape, At

LEMMA WorkKinds == \A ev : Work(ev) \in {"fulfil", "retrieve", "look"}
  BY DEF Work

LEMMA DeliverShape ==
    ASSUME RunShape, NEW h \in Runs, Deliver(h)
    PROVE  RunShape'
<1>1. PICK ev \in due : Start(h, ev, CASE ev.deed.type = "changed" -> "retrieve"
                                       [] ev.deed.type = "ended"   -> "status"
                                       [] OTHER                    -> "open")
  BY DEF Deliver
<1>2. ev \in Webhooks
  BY DEF RunShape
<1>3. CASE ev.deed.type = "changed"
  BY <1>1, <1>2, <1>3, StartShape DEF Steps
<1>4. CASE ev.deed.type = "ended"
  BY <1>1, <1>2, <1>4, StartShape DEF Steps
<1>5. CASE ev.deed.type \notin {"changed", "ended"}
  <2>1. ev \in Deliveries
    BY <1>2, <1>5, DeliveryKinds
  <2>2. Start(h, ev, "open")
    BY <1>1, <1>5
  <2> QED
    BY <2>1, <2>2, StartShape DEF Steps
<1> QED
  BY <1>3, <1>4, <1>5

LEMMA ReconcileShape ==
    ASSUME RunShape, NEW h \in Runs, Reconcile(h), bought \subseteq Payments
    PROVE  RunShape'
<1>1. PICK p \in bought :
        Start(h, Client([type |-> "grant", pay |-> p]),
              IF Terms[p].source = "apple" THEN "look" ELSE "open")
  BY DEF Reconcile
<1> DEFINE ev == Client([type |-> "grant", pay |-> p])
<1>2. ev \in Deliveries
  BY DeliveryKinds DEF Deeds
<1>3. Start(h, ev, "look") \/ Start(h, ev, "open")
  BY <1>1
<1> HIDE DEF ev
<1> QED
  BY <1>2, <1>3, StartShape DEF Steps

(* Every step of a handler goes on, stops, or throws.                      *)
LEMMA HandleShape ==
    ASSUME RunShape, stripe \in Snapshots, NEW h \in Runs, Handle(h)
    PROVE  RunShape'
<1> DEFINE ev == run[h].ev
<1>1. ~At(h, "idle")
  BY DEF Handle, Open, Retrieve, Mirror, LookUpPack, LookAtPurchase, LookAtRefund,
         SetStatus, Fulfil, Close, Refuse, Fail, Ack, At
<1>2. ev \in Deliveries \cup Webhooks /\ due \in SUBSET Webhooks
  BY <1>1 DEF RunShape
<1>3. due' \in SUBSET Webhooks
  BY <1>2 DEF Handle, Open, Retrieve, Mirror, LookUpPack, LookAtPurchase, LookAtRefund,
              SetStatus, Fulfil, Close, Refuse, Fail, Ack
<1>4. ASSUME Stop(h) PROVE RunShape'
  BY <1>3, <1>4, StopShape
<1>5. ASSUME Throw(h) PROVE RunShape'
  BY <1>1, <1>3, <1>5, ThrowShape
<1>6. ASSUME NEW step \in Steps, Goto(h, step), ev \in Deliveries PROVE RunShape'
  BY <1>2, <1>3, <1>6, GotoShape
<1>7. ASSUME Goto(h, "ack") PROVE RunShape'
  BY <1>2, <1>3, <1>7, GotoShape DEF Steps
<1>8. CASE Open(h)
  <2>1. ev \in Deliveries
    BY <1>8 DEF Open, RunShape, At
  <2> QED
    BY <1>4, <1>6, <1>8, <2>1, WorkKinds DEF Open, Steps
<1>9. CASE Retrieve(h)
  <2>1. ev \in Deliveries \/ ev.deed.type = "changed"
    BY <1>9 DEF Retrieve, RunShape, At
  <2>2. CASE ~Throw(h)
    <3>1. PICK step \in {"mirror", "refuse"} :
            /\ run' = [run EXCEPT ![h].sub = stripe, ![h].pc = step]
            /\ step = "refuse" => Deed(h).type # "changed"
      BY <1>9, <2>2 DEF Retrieve
    <3>2. [run[h] EXCEPT !.sub = stripe, !.pc = step] \in States
      BY <1>9 DEF RunShape, States, Steps
    <3>3. run' = [run EXCEPT ![h] = [run[h] EXCEPT !.sub = stripe, !.pc = step]]
      BY <3>1 DEF RunShape
    <3> QED
      BY <1>2, <1>3, <2>1, <3>1, <3>2, <3>3, DeliveryKinds DEF RunShape, At, States, Deed
  <2> QED
    BY <1>5, <2>2
<1>10. CASE Mirror(h)
  <2>1. ev \in Deliveries \/ ev.deed.type = "changed"
    BY <1>10 DEF Mirror, RunShape, At
  <2> QED
    BY <1>5, <1>6, <1>7, <1>10, <2>1 DEF Mirror, Steps, Deed
<1>11. CASE LookUpPack(h) \/ LookAtPurchase(h) \/ LookAtRefund(h) \/ Fulfil(h)
              \/ Refuse(h) \/ Fail(h)
  <2>1. ev \in Deliveries
    BY <1>11 DEF LookUpPack, LookAtPurchase, LookAtRefund, Fulfil, Refuse, Fail, RunShape, At
  <2> QED
    BY <1>4, <1>5, <1>6, <1>11, <2>1
    DEF LookUpPack, LookAtPurchase, LookAtRefund, Fulfil, Refuse, Fail, Steps
<1>12. CASE Close(h) \/ SetStatus(h) \/ Ack(h)
  BY <1>4, <1>5, <1>7, <1>12 DEF Close, SetStatus, Ack
<1> QED
  BY <1>8, <1>9, <1>10, <1>11, <1>12 DEF Handle

(* A step of the world outside leaves the runs alone.                      *)
LEMMA OutsideShape ==
    ASSUME RunShape, bought \subseteq Payments,
           Buy \/ GiveBack \/ Tick \/ Lapse \/ Spend
    PROVE  RunShape'
<1>1. due' \in SUBSET Webhooks
  <2>1. due \in SUBSET Webhooks
    BY DEF RunShape
  <2>2. CASE Buy
    <3>1. PICK p \in Payments :
            /\ due' = due \cup {Webhook([type |-> "grant", pay |-> p])}
                          \cup (IF Terms[p].source = "stripe" /\ Terms[p].kind = "subscription"
                                THEN {Webhook([type |-> "changed", pay |-> p])} ELSE {})
      BY <2>2 DEF Buy
    <3>2. Webhook([type |-> "grant", pay |-> p]) \in Webhooks
      BY DEF Webhooks, Deeds
    <3>3. Terms[p].source = "stripe" /\ Terms[p].kind = "subscription"
            => Webhook([type |-> "changed", pay |-> p]) \in Webhooks
      BY DEF Webhooks, Notices, Subscriptions, Of
    <3> QED
      BY <2>1, <3>1, <3>2, <3>3
  <2>3. CASE GiveBack
    BY <2>1, <2>3 DEF GiveBack, Webhooks, Deeds
  <2>4. CASE Tick
    BY <2>1, <2>4 DEF Tick, Webhooks, Notices, Subscriptions
  <2>5. CASE Lapse
    BY <2>1, <2>5 DEF Lapse, Webhooks, Notices, Subscriptions
  <2>6. CASE Spend
    BY <2>1, <2>6 DEF Spend
  <2> QED
    BY <2>2, <2>3, <2>4, <2>5, <2>6
<1>2. UNCHANGED run
  BY DEF Buy, GiveBack, Tick, Lapse, Spend
<1> QED
  BY <1>1, <1>2 DEF RunShape, At

LEMMA NextShape ==
    ASSUME TypeOK, RunShape, [Next]_vars
    PROVE  RunShape'
<1>1. bought \subseteq Payments /\ stripe \in Snapshots
  BY DEF TypeOK
<1>2. CASE \E h \in Runs : Deliver(h) \/ Reconcile(h) \/ Handle(h)
  BY <1>1, <1>2, DeliverShape, ReconcileShape, HandleShape
<1>3. CASE \E h \in Runs : Crash(h)
  <2>1. PICK h \in Runs : Crash(h)
    BY <1>3
  <2>2. Stop(h) /\ due' \in SUBSET Webhooks
    BY <2>1 DEF Crash, RunShape
  <2> QED
    BY <2>2, StopShape
<1>4. CASE Buy \/ GiveBack \/ Tick \/ Lapse \/ Spend
  BY <1>1, <1>4, OutsideShape
<1>5. CASE UNCHANGED vars
  BY <1>5 DEF vars, RunShape, At
<1> QED
  BY <1>2, <1>3, <1>4, <1>5 DEF Next

-----------------------------------------------------------------------------
(* Types                                                                   *)

Rows == [end : Nat, status : {"inactive", "active", "expired"},
         stripe : BOOLEAN, apple : BOOLEAN]

LEMMA FaultType ==
    ASSUME TypeOK, Fault
    PROVE  faults' \in 0 .. FaultBudget
  BY BillingAssumption DEF TypeOK, Fault

(* What a fulfilment leaves: at most one entry more, and a settled deed.   *)
LEMMA ApplyType ==
    ASSUME TypeOK, NEW ev \in Deliveries, Apply(ev)
    PROVE  /\ txns' \in [Deliveries -> {"none", "applied", "stale"}]
           /\ entries' \in [Deeds -> 0 .. MaxEntries]
           /\ plan' \in Int
           /\ row' \in Rows
           /\ row.stripe => row'.stripe
           /\ txns'[Client(ev.deed)] # "none"
           /\ \A e \in Deliveries : txns[e] # "none" => txns'[e] = txns[e]
           /\ \A d \in Deeds : entries'[d] # entries[d] =>
                /\ d = ev.deed /\ txns[Client(d)] = "none"
                /\ entries'[d] = entries[d] + 1
<1> DEFINE d == ev.deed  key == Client(d)
<1>1. d \in Deeds /\ key \in Deliveries /\ d.pay \in Payments
  BY DeliveryKinds
<1>2. Terms[d.pay].credits \in Nat /\ Terms[d.pay].end \in Nat
  BY <1>1, BillingAssumption
<1>3. TypeOK /\ row \in Rows /\ clock \in Nat
  BY BillingAssumption DEF TypeOK, Rows
<1>4. CASE txns[key] # "none"
  BY <1>1, <1>3, <1>4 DEF Apply, BusinessId, Money, TypeOK
<1>5. CASE txns[key] = "none" /\ Stale(d)
  BY <1>1, <1>3, <1>5 DEF Apply, BusinessId, TypeOK
<1>6. CASE txns[key] = "none" /\ ~Stale(d)
  <2>1. txns' = [txns EXCEPT ![key] = "applied"]
    BY <1>6 DEF Apply, BusinessId
  <2>2. /\ entries' = IF Moves(d) /\ entries[d] < MaxEntries
                      THEN [entries EXCEPT ![d] = entries[d] + 1] ELSE entries
        /\ plan' = NewPlan(d)
    BY <1>6 DEF Apply, BusinessId
  <2>3. PICK at \in 0 .. clock : Entitle(d, at)
    BY <1>6 DEF Apply, BusinessId
  <2>4. row' \in Rows /\ (row.stripe => row'.stripe)
    <3>1. CASE UNCHANGED row
      BY <1>3, <3>1
    <3>2. CASE ~UNCHANGED row
      <4>1. PICK end \in Nat, status \in {"active", "expired"}, apple \in BOOLEAN :
              row' = [row EXCEPT !.end = end, !.status = status, !.apple = apple]
        <5>1. at \in Nat /\ row.apple \in BOOLEAN
          BY <1>3, <2>3 DEF Rows
        <5>2. CASE d.type = "refund"
          BY <2>3, <3>2, <5>1, <5>2 DEF Entitle
        <5>3. CASE d.type # "refund"
          BY <1>2, <2>3, <3>2, <5>1, <5>3 DEF Entitle
        <5> QED
          BY <5>2, <5>3
      <4> QED
        BY <1>3, <4>1 DEF Rows
    <3> QED
      BY <3>1, <3>2
  <2>5. plan' \in Int
    BY <1>2, <2>2 DEF NewPlan, TypeOK
  <2>6. /\ entries' \in [Deeds -> 0 .. MaxEntries]
        /\ \A c \in Deeds : entries'[c] # entries[c] => c = d /\ entries'[c] = entries[c] + 1
    BY <1>1, <2>2 DEF TypeOK, MaxEntries
  <2>7. /\ txns' \in [Deliveries -> {"none", "applied", "stale"}]
        /\ txns'[key] # "none"
        /\ \A e \in Deliveries : txns[e] # "none" => txns'[e] = txns[e]
    BY <1>1, <1>6, <2>1 DEF TypeOK
  <2> QED
    BY <1>6, <2>4, <2>5, <2>6, <2>7
<1> QED
  BY <1>4, <1>5, <1>6

(* A step of a handler.                                                    *)
LEMMA HandleType ==
    ASSUME TypeOK, RunShape, NEW h \in Runs, Handle(h)
    PROVE  /\ UNCHANGED World
           /\ receipts' \in [Deliveries -> {"none", "open", "closed"}]
           /\ txns' \in [Deliveries -> {"none", "applied", "stale"}]
           /\ entries' \in [Deeds -> 0 .. MaxEntries]
           /\ plan' \in Int
           /\ row' \in Rows
           /\ faults' \in 0 .. FaultBudget
           /\ row.stripe => row'.stripe
<1> DEFINE ev == run[h].ev
<1>0. /\ receipts \in [Deliveries -> {"none", "open", "closed"}]
      /\ txns \in [Deliveries -> {"none", "applied", "stale"}]
      /\ entries \in [Deeds -> 0 .. MaxEntries]
      /\ plan \in Int /\ row \in Rows /\ faults \in 0 .. FaultBudget
  BY DEF TypeOK, Rows
<1>1. faults' \in 0 .. FaultBudget
  BY <1>0, FaultType
  DEF Handle, Open, Retrieve, Mirror, LookUpPack, LookAtPurchase, LookAtRefund,
      SetStatus, Fulfil, Close, Refuse, Fail, Ack
<1>2. UNCHANGED World
  BY DEF Handle, Open, Retrieve, Mirror, LookUpPack, LookAtPurchase, LookAtRefund,
         SetStatus, Fulfil, Close, Refuse, Fail, Ack
<1>3. receipts' \in [Deliveries -> {"none", "open", "closed"}]
  BY <1>0
  DEF Handle, Open, Retrieve, Mirror, LookUpPack, LookAtPurchase, LookAtRefund,
      SetStatus, Fulfil, Close, Refuse, Fail, Ack, Finish
<1>4. CASE Fulfil(h)
  <2>1. ev \in Deliveries
    BY <1>4 DEF RunShape, Fulfil, At
  <2> QED
    BY <1>0, <1>1, <1>2, <1>3, <1>4, <2>1, ApplyType DEF Fulfil, Money
<1>5. CASE Mirror(h)
  <2>1. run[h].sub \in Snapshots
    BY DEF RunShape, States
  <2>2. row' \in Rows /\ (row.stripe => row'.stripe)
    BY <1>0, <1>5, <2>1 DEF Mirror, Rows, Snapshots
  <2> QED
    BY <1>0, <1>1, <1>2, <1>3, <1>5, <2>2 DEF Mirror, Money
<1>6. CASE SetStatus(h)
  <2>1. row' \in Rows /\ (row.stripe => row'.stripe)
    BY <1>0, <1>6 DEF SetStatus, Rows
  <2> QED
    BY <1>0, <1>1, <1>2, <1>3, <1>6, <2>1 DEF SetStatus, Money
<1>7. CASE Open(h) \/ Retrieve(h) \/ LookUpPack(h) \/ LookAtPurchase(h) \/ LookAtRefund(h)
             \/ Close(h) \/ Refuse(h) \/ Fail(h) \/ Ack(h)
  <2>1. UNCHANGED <<Money, row>>
    BY <1>7 DEF Open, Retrieve, LookUpPack, LookAtPurchase, LookAtRefund, Close, Refuse,
                Fail, Ack
  <2> QED
    BY <1>0, <1>1, <1>2, <1>3, <2>1 DEF Money
<1> QED
  BY <1>4, <1>5, <1>6, <1>7 DEF Handle

LEMMA NextType ==
    ASSUME TypeOK, RunShape, [Next]_vars
    PROVE  TypeOK'
<1> USE DEF World, Money
<1>1. RunShape'
  BY NextShape
<1>2. due' \in SUBSET Webhooks /\ run' \in [Runs -> States]
  BY <1>1 DEF RunShape
<1>3. CASE \E h \in Runs : Handle(h)
  BY <1>2, <1>3, HandleType DEF TypeOK, States, Rows
<1>4. CASE \E h \in Runs : Deliver(h) \/ Reconcile(h)
  BY <1>2, <1>4 DEF Deliver, Reconcile, Start, TypeOK, States
<1>5. CASE \E h \in Runs : Crash(h)
  BY <1>2, <1>5, FaultType DEF Crash, TypeOK, States
<1>6. CASE Buy
  <2>1. stripe' \in Snapshots
    <3>1. PICK p \in Payments :
            stripe' = IF Terms[p].source = "stripe" /\ Terms[p].kind = "subscription"
                      THEN [end |-> Terms[p].end, alive |-> TRUE] ELSE stripe
      BY <1>6 DEF Buy
    <3> QED
      BY <3>1, BillingAssumption DEF TypeOK, Snapshots
  <2>2. bought' \in SUBSET Payments
    BY <1>6 DEF Buy, TypeOK
  <2> QED
    BY <1>2, <1>6, <2>1, <2>2 DEF Buy, TypeOK, States
<1>7. CASE GiveBack
  <2>1. refunded' \in SUBSET Of("apple")
    BY <1>7 DEF GiveBack, TypeOK
  <2> QED
    BY <1>2, <1>7, <2>1 DEF GiveBack, TypeOK, States
<1>8. CASE Tick
  <2>1. clock' \in 0 .. MaxClock
    BY <1>8, BillingAssumption DEF Tick, TypeOK
  <2> QED
    BY <1>2, <1>8, <2>1 DEF Tick, TypeOK, States
<1>9. CASE Lapse
  <2>1. stripe' \in Snapshots
    BY <1>9 DEF Lapse, TypeOK, Snapshots
  <2> QED
    BY <1>2, <1>9, <2>1 DEF Lapse, TypeOK, States
<1>10. CASE Spend
  <2>1. plan' \in Int
    BY <1>10 DEF Spend, TypeOK
  <2> QED
    BY <1>2, <1>10, <2>1 DEF Spend, TypeOK, States
<1>11. CASE UNCHANGED vars
  BY <1>11 DEF vars, TypeOK
<1> QED
  BY <1>3, <1>4, <1>5, <1>6, <1>7, <1>8, <1>9, <1>10, <1>11 DEF Next

LEMMA InitType == Init => TypeOK
<1> SUFFICES ASSUME Init PROVE TypeOK
  OBVIOUS
<1>1. run \in [Runs -> States]
  BY IdleState DEF Init
<1>2. entries \in [Deeds -> 0 .. MaxEntries]
  BY DEF Init, MaxEntries
<1>3. stripe \in Snapshots /\ clock \in 0 .. MaxClock /\ faults \in 0 .. FaultBudget
  BY BillingAssumption DEF Init, Snapshots
<1> QED
  BY <1>1, <1>2, <1>3 DEF Init, TypeOK, States

(* Every variable keeps its type, and every step that handles money does   *)
(* so for a deed, however deliveries overlap, fail and are repeated.       *)
THEOREM BillingTypeCorrect == Spec => [](TypeOK /\ RunShape)
<1>1. Init => TypeOK /\ RunShape
  BY InitType, InitShape
<1>2. TypeOK /\ RunShape /\ [Next]_vars => (TypeOK /\ RunShape)'
  BY NextType, NextShape
<1> QED
  BY <1>1, <1>2, PTL DEF Spec

-----------------------------------------------------------------------------
(* Money moves once                                                        *)

(* The second half is what makes the first inductive: the balance moves    *)
(* only with the row of billing_transactions that makes the next delivery  *)
(* a replay.                                                               *)
MoneyInv ==
    \A d \in Deeds : entries[d] <= 1 /\ (entries[d] # 0 => Settled(d))

LEMMA MoneyStep ==
    ASSUME TypeOK, RunShape, [Next]_vars
    PROVE  /\ \A e \in Deliveries : txns[e] # "none" => txns'[e] = txns[e]
           /\ \A d \in Deeds : entries'[d] # entries[d] =>
                /\ ~Settled(d) /\ Settled(d)'
                /\ entries'[d] = entries[d] + 1
<1>1. CASE UNCHANGED <<txns, entries>>
  BY <1>1
<1>2. CASE \E h \in Runs : Apply(run[h].ev) /\ run[h].ev \in Deliveries
  BY <1>2, ApplyType DEF Settled
<1>3. CASE \E h \in Runs : Handle(h)
  <2>1. PICK h \in Runs : Handle(h)
    BY <1>3
  <2>2. CASE Fulfil(h)
    <3>1. run[h].ev \in Deliveries
      BY <2>2 DEF Fulfil, RunShape, At
    <3> QED
      BY <1>1, <1>2, <2>2, <3>1 DEF Fulfil, Money
  <2>3. CASE ~Fulfil(h)
    BY <1>1, <2>1, <2>3
    DEF Handle, Open, Retrieve, Mirror, LookUpPack, LookAtPurchase, LookAtRefund,
        SetStatus, Close, Refuse, Fail, Ack, Money
  <2> QED
    BY <2>2, <2>3
<1>4. CASE ~\E h \in Runs : Handle(h)
  BY <1>1, <1>4
  DEF Next, vars, Deliver, Reconcile, Start, Crash, Buy, GiveBack, Tick, Lapse, Spend, Money
<1> QED
  BY <1>3, <1>4

LEMMA MoneyNext ==
    ASSUME TypeOK, RunShape, MoneyInv, [Next]_vars
    PROVE  MoneyInv'
<1> SUFFICES ASSUME NEW d \in Deeds
             PROVE  entries'[d] <= 1 /\ (entries'[d] # 0 => Settled(d)')
  BY DEF MoneyInv
<1>1. entries[d] \in 0 .. MaxEntries /\ Client(d) \in Deliveries
  BY DeliveryKinds DEF TypeOK
<1>2. CASE entries'[d] = entries[d]
  BY <1>1, <1>2, MoneyStep DEF MoneyInv, Settled
<1>3. CASE entries'[d] # entries[d]
  <2>1. ~Settled(d) /\ Settled(d)' /\ entries'[d] = entries[d] + 1
    BY <1>3, MoneyStep
  <2>2. entries[d] = 0
    BY <2>1 DEF MoneyInv
  <2> QED
    BY <2>1, <2>2
<1> QED
  BY <1>2, <1>3

(* A payment moves the balance once, and its refund once, however many     *)
(* deliveries bring it, at once or again (fn_apply_fulfillment's replay).  *)
THEOREM MovesOnce == Spec => []MoneyMovesOnce
<1>1. Init => MoneyInv
  BY DEF Init, MoneyInv
<1>2. TypeOK /\ RunShape /\ MoneyInv /\ [Next]_vars => MoneyInv'
  BY MoneyNext
<1>3. MoneyInv => MoneyMovesOnce
  BY DEF MoneyInv, MoneyMovesOnce
<1> QED
  BY <1>1, <1>2, <1>3, BillingTypeCorrect, PTL DEF Spec

-----------------------------------------------------------------------------
(* Nothing is lost                                                         *)

(* What a run past its receipt knows: the receipt is there, and what it is *)
(* about to close for is so.                                               *)
Knows(h) ==
    /\ run[h].ev \in Deliveries /\ run[h].ev.via = "webhook" /\ run[h].pc \notin {"idle", "open"}
         => receipts[run[h].ev] # "none"
    /\ At(h, "settle") => Settled(Deed(h))
    /\ At(h, "close") => OwesNothing(Deed(h))

(* A closed receipt has its reason, and a payment nobody retries has a     *)
(* receipt.                                                                *)
SightInv ==
    /\ \A h \in Runs : Knows(h)
    /\ \A d \in Deeds :
         /\ receipts[Webhook(d)] = "closed" => Settled(d) \/ OwesNothing(d)
         /\ Happened(d) => Webhook(d) \in due \/ receipts[Webhook(d)] # "none"

(* What is owed no more is never owed again.                               *)
LEMMA Lasting ==
    ASSUME TypeOK, RunShape, [Next]_vars
    PROVE  /\ \A d \in Deeds : Settled(d) => Settled(d)'
           /\ \A d \in Deeds : OwesNothing(d) => OwesNothing(d)'
           /\ \A e \in Deliveries : receipts[e] # "none" => receipts'[e] # "none"
<1>1. \A d \in Deeds : Settled(d) => Settled(d)'
  BY MoneyStep, DeliveryKinds DEF Settled
<1>2. refunded \subseteq refunded' /\ clock' >= clock /\ (row.stripe => row'.stripe)
  <2>1. clock \in Nat
    BY BillingAssumption DEF TypeOK
  <2>2. CASE \E h \in Runs : Handle(h)
    BY <2>1, <2>2, HandleType DEF World
  <2>3. CASE \E h \in Runs : Deliver(h) \/ Reconcile(h) \/ Crash(h)
    <3>1. UNCHANGED <<row, refunded, clock>>
      BY <2>3 DEF Deliver, Reconcile, Start, Crash, World
    <3> QED
      BY <2>1, <3>1
  <2>4. CASE Buy \/ GiveBack \/ Tick \/ Lapse \/ Spend
    <3>1. UNCHANGED row /\ refunded \subseteq refunded'
      BY <2>4 DEF Buy, GiveBack, Tick, Lapse, Spend, World
    <3>2. clock' = clock \/ clock' = clock + 1
      BY <2>4 DEF Buy, GiveBack, Tick, Lapse, Spend, World
    <3> QED
      BY <2>1, <3>1, <3>2
  <2>5. CASE UNCHANGED vars
    BY <2>1, <2>5 DEF vars
  <2> QED
    BY <2>2, <2>3, <2>4, <2>5 DEF Next
<1>3. \A d \in Deeds : OwesNothing(d) => OwesNothing(d)'
  <2> SUFFICES ASSUME NEW d \in Deeds, OwesNothing(d) PROVE OwesNothing(d)'
    OBVIOUS
  <2>1. Terms[d.pay].end \in Nat
    BY DeliveryKinds, BillingAssumption
  <2>2. Expired(d.pay) => Expired(d.pay)'
    BY <1>2, <2>1, BillingAssumption, NextType DEF Expired, TypeOK
  <2> QED
    BY <1>2, <2>2 DEF OwesNothing
<1>4. \A e \in Deliveries : receipts[e] # "none" => receipts'[e] # "none"
  <2>1. receipts \in [Deliveries -> {"none", "open", "closed"}]
    BY DEF TypeOK
  <2>2. CASE \E h \in Runs : Handle(h)
    BY <2>1, <2>2
    DEF Handle, Open, Retrieve, Mirror, LookUpPack, LookAtPurchase, LookAtRefund,
        SetStatus, Fulfil, Close, Refuse, Fail, Ack, Finish
  <2>3. CASE ~\E h \in Runs : Handle(h)
    BY <2>1, <2>3
    DEF Next, vars, Deliver, Reconcile, Start, Crash, Buy, GiveBack, Tick, Lapse, Spend
  <2> QED
    BY <2>2, <2>3
<1> QED
  BY <1>1, <1>3, <1>4

LEMMA StopKnows ==
    ASSUME RunShape, NEW h \in Runs, Stop(h)
    PROVE  Knows(h)'
  BY DEF RunShape, Stop, Idle, Knows, At

LEMMA GotoKnows ==
    ASSUME TypeOK, RunShape, [Next]_vars, NEW h \in Runs, Knows(h),
           run[h].pc \notin {"idle", "open"},
           NEW step \in Steps \ {"settle", "close"}, Goto(h, step)
    PROVE  Knows(h)'
<1>1. run'[h].pc = step /\ run'[h].ev = run[h].ev
  BY DEF RunShape, States, Goto
<1> QED
  BY <1>1, Lasting DEF Knows, At

LEMMA ThrowKnows ==
    ASSUME TypeOK, RunShape, [Next]_vars, NEW h \in Runs, Knows(h),
           run[h].pc \notin {"idle", "open"}, Throw(h)
    PROVE  Knows(h)'
  BY StopKnows, GotoKnows DEF Throw, Steps

(* A run that stays where it is knows what it knew.                        *)
LEMMA StayKnows ==
    ASSUME TypeOK, RunShape, [Next]_vars, NEW h \in Runs, Knows(h), run'[h] = run[h]
    PROVE  Knows(h)'
<1>1. At(h, "settle") \/ At(h, "close") => Deed(h) \in Deeds
  BY DeliveryKinds DEF RunShape, At, Deed
<1> QED
  BY <1>1, Lasting DEF Knows, At, Deed

LEMMA Elsewhere ==
    ASSUME RunShape, NEW h \in Runs, NEW g \in Runs, g # h, Handle(h)
    PROVE  run'[g] = run[g]
<1>1. ASSUME Stop(h) PROVE run'[g] = run[g]
  BY <1>1 DEF Stop, RunShape
<1>2. ASSUME NEW step, Goto(h, step) PROVE run'[g] = run[g]
  BY <1>2 DEF Goto, RunShape
<1>3. ASSUME Throw(h) PROVE run'[g] = run[g]
  BY <1>1, <1>2, <1>3 DEF Throw
<1>4. CASE Retrieve(h)
  <2>1. CASE ~Throw(h)
    BY <1>4, <2>1 DEF Retrieve, RunShape
  <2> QED
    BY <1>3, <2>1
<1>5. CASE ~Retrieve(h)
  BY <1>1, <1>2, <1>3, <1>5
  DEF Handle, Open, Mirror, LookUpPack, LookAtPurchase, LookAtRefund, SetStatus, Fulfil,
      Close, Refuse, Fail, Ack
<1> QED
  BY <1>4, <1>5

LEMMA HandleKnows ==
    ASSUME TypeOK, RunShape, [Next]_vars, SightInv, NEW h \in Runs, Handle(h)
    PROVE  \A g \in Runs : Knows(g)'
<1> SUFFICES ASSUME NEW g \in Runs PROVE Knows(g)'
  OBVIOUS
<1>1. Knows(g) /\ Knows(h)
  BY DEF SightInv
<1>2. SUFFICES ASSUME g = h PROVE Knows(h)'
  BY <1>1, Elsewhere, StayKnows
<1>3. ASSUME Stop(h) PROVE Knows(h)'
  BY <1>3, StopKnows
<1>4. ASSUME run[h].pc \notin {"idle", "open"}, Throw(h) PROVE Knows(h)'
  BY <1>1, <1>4, ThrowKnows
<1>5. ASSUME run[h].pc \notin {"idle", "open"}, NEW step \in Steps \ {"settle", "close"},
             Goto(h, step)
      PROVE  Knows(h)'
  BY <1>1, <1>5, GotoKnows
<1>6. CASE Open(h)
  <2>1. run[h].ev \in Deliveries
    BY <1>6 DEF Open, RunShape, At
  <2>2. CASE Goto(h, Work(run[h].ev)) /\ receipts' = [receipts EXCEPT
                ![run[h].ev] = IF @ = "none" THEN "open" ELSE @]
    <3>1. run'[h].pc = Work(run[h].ev) /\ run'[h].ev = run[h].ev
      BY <2>2 DEF RunShape, States, Goto
    <3>2. receipts'[run[h].ev] # "none"
      BY <2>1, <2>2 DEF TypeOK
    <3> QED
      BY <3>1, <3>2, WorkKinds DEF Knows, At
  <2> QED
    BY <1>3, <1>6, <2>2 DEF Open
<1>7. CASE Retrieve(h)
  <2>1. run[h].pc \notin {"idle", "open"}
    BY <1>7 DEF Retrieve, At
  <2>2. CASE ~Throw(h)
    <3>1. PICK step \in {"mirror", "refuse"} :
            run' = [run EXCEPT ![h].sub = stripe, ![h].pc = step]
      BY <1>7, <2>2 DEF Retrieve
    <3>2. run'[h].pc = step /\ run'[h].ev = run[h].ev
      BY <3>1 DEF RunShape, States
    <3> QED
      BY <1>1, <2>1, <3>2, Lasting DEF Knows, At
  <2> QED
    BY <1>4, <2>1, <2>2
<1>8. CASE Mirror(h) \/ LookUpPack(h) \/ SetStatus(h) \/ Refuse(h) \/ Fail(h) \/ Ack(h)
  BY <1>3, <1>4, <1>5, <1>8
  DEF Mirror, LookUpPack, SetStatus, Refuse, Fail, Ack, At, Steps
<1>9. ASSUME LookAtPurchase(h) \/ LookAtRefund(h), Goto(h, "close"),
             Terms[Pay(h)].source = "apple",
             \/ Deed(h).type = "grant" /\ (Pay(h) \in refunded \/ Expired(Pay(h)))
             \/ /\ Deed(h).type = "refund" /\ Pay(h) \in Subscriptions
                /\ StripeCarriesRow(Pay(h))
      PROVE  Knows(h)'
  <2>1. run'[h].pc = "close" /\ run'[h].ev = run[h].ev /\ run[h].pc = "look"
    BY <1>9 DEF RunShape, States, Goto, LookAtPurchase, LookAtRefund, At
  <2>2. run[h].ev \in Deliveries /\ Deed(h) \in Deeds
    BY <2>1, DeliveryKinds DEF RunShape, Deed
  <2>3. OwesNothing(Deed(h))
    BY <1>9 DEF OwesNothing, Pay, StripeCarriesRow, Subscriptions
  <2> QED
    BY <1>1, <2>1, <2>2, <2>3, Lasting DEF Knows, At, Deed
<1>10. CASE LookAtPurchase(h)
  BY <1>3, <1>4, <1>5, <1>9, <1>10 DEF LookAtPurchase, At, Steps
<1>11. CASE LookAtRefund(h)
  <2>1. Terms[Pay(h)].source = "apple"
    <3>1. Deed(h) \in Deeds /\ Deed(h).type = "refund"
      BY <1>11, DeliveryKinds DEF LookAtRefund, RunShape, At, Deed
    <3> QED
      BY <3>1 DEF Deeds, Of, Pay
  <2> QED
    BY <1>3, <1>4, <1>5, <1>9, <1>11, <2>1 DEF LookAtRefund, At, Steps
<1>12. CASE Fulfil(h)
  <2>1. run[h].ev \in Deliveries /\ run[h].pc = "fulfil"
    BY <1>12 DEF Fulfil, RunShape, At
  <2>2. CASE Apply(run[h].ev) /\ Goto(h, "settle")
    <3>1. run'[h].pc = "settle" /\ run'[h].ev = run[h].ev
      BY <2>2 DEF RunShape, States, Goto
    <3>2. txns'[Client(run[h].ev.deed)] # "none"
      BY <2>1, <2>2, ApplyType
    <3> QED
      BY <1>1, <2>1, <3>1, <3>2, Lasting DEF Knows, At, Deed, Settled
  <2> QED
    BY <1>4, <1>12, <2>1, <2>2 DEF Fulfil
<1>13. CASE Close(h)
  BY <1>3, <1>4, <1>5, <1>13 DEF Close, Steps
<1> QED
  BY <1>2, <1>6, <1>7, <1>8, <1>10, <1>11, <1>12, <1>13 DEF Handle

(* The books of the deeds, over a step of a handler: only a close closes a *)
(* receipt, and only an acknowledged delivery is retried no more.          *)
LEMMA HandleBooks ==
    ASSUME TypeOK, RunShape, [Next]_vars, SightInv, NEW h \in Runs, Handle(h),
           NEW d \in Deeds
    PROVE  /\ receipts'[Webhook(d)] = "closed" => Settled(d)' \/ OwesNothing(d)'
           /\ Happened(d)' => Webhook(d) \in due' \/ receipts'[Webhook(d)] # "none"
<1> DEFINE e == Webhook(d)  ev == run[h].ev
<1>1. /\ e \in Deliveries /\ e.deed = d /\ e.via = "webhook" /\ Knows(h)
      /\ receipts \in [Deliveries -> {"none", "open", "closed"}]
  BY DeliveryKinds DEF Webhook, SightInv, TypeOK
<1>2. receipts[e] = "closed" => Settled(d)' \/ OwesNothing(d)'
  BY Lasting DEF SightInv
<1>3. Happened(d)' = Happened(d)
  BY HandleType DEF World, Happened
<1>4. Happened(d) => e \in due \/ receipts'[e] # "none"
  BY <1>1, Lasting DEF SightInv
<1>5. receipts'[e] = "closed" => Settled(d)' \/ OwesNothing(d)'
  <2>1. CASE Close(h) /\ ev = e
    <3>1. Settled(d) \/ OwesNothing(d)
      BY <1>1, <2>1 DEF Close, Knows, At, Deed
    <3> QED
      BY <3>1, Lasting
  <2>2. CASE ~(Close(h) /\ ev = e)
    <3>1. receipts'[e] = "closed" => receipts[e] = "closed"
      BY <1>1, <2>2
      DEF Handle, Open, Retrieve, Mirror, LookUpPack, LookAtPurchase, LookAtRefund,
          SetStatus, Fulfil, Close, Refuse, Fail, Ack, Finish
    <3> QED
      BY <1>2, <3>1
  <2> QED
    BY <2>1, <2>2
<1>6. e \in due => e \in due' \/ receipts'[e] # "none"
  <2>1. CASE Ack(h) /\ ev = e
    <3>1. receipts[e] # "none"
      BY <1>1, <2>1 DEF Ack, Knows, At
    <3> QED
      BY <1>1, <3>1, Lasting
  <2>2. CASE ~(Ack(h) /\ ev = e)
    BY <2>2
    DEF Handle, Open, Retrieve, Mirror, LookUpPack, LookAtPurchase, LookAtRefund,
        SetStatus, Fulfil, Close, Refuse, Fail, Ack
  <2> QED
    BY <2>1, <2>2
<1> QED
  BY <1>3, <1>4, <1>5, <1>6

(* A delivery that starts knows nothing yet, and has nothing to know.      *)
LEMMA StartKnows ==
    ASSUME TypeOK, RunShape, [Next]_vars, SightInv, NEW h \in Runs,
           Deliver(h) \/ Reconcile(h)
    PROVE  \A g \in Runs : Knows(g)'
<1> SUFFICES ASSUME NEW g \in Runs PROVE Knows(g)'
  OBVIOUS
<1>1. PICK ev, step :
        /\ Start(h, ev, step)
        /\ step \in {"open", "look", "retrieve", "status"}
        /\ ev.via = "client" \/ step = "open" \/ ev \notin Deliveries
  <2>1. CASE Deliver(h)
    <3>1. PICK ev \in due : Start(h, ev, CASE ev.deed.type = "changed" -> "retrieve"
                                           [] ev.deed.type = "ended"   -> "status"
                                           [] OTHER                    -> "open")
      BY <2>1 DEF Deliver
    <3>2. ev \in Deliveries => ev.deed.type \notin {"changed", "ended"}
      BY DeliveryKinds
    <3>3. CASE ev.deed.type = "changed"
      BY <3>1, <3>2, <3>3
    <3>4. CASE ev.deed.type = "ended"
      BY <3>1, <3>2, <3>4
    <3>5. CASE ev.deed.type \notin {"changed", "ended"}
      <4>1. Start(h, ev, "open")
        BY <3>1, <3>5
      <4> QED
        BY <4>1
    <3> QED
      BY <3>3, <3>4, <3>5
  <2>2. CASE Reconcile(h)
    <3>1. PICK p \in bought :
            Start(h, Client([type |-> "grant", pay |-> p]),
                  IF Terms[p].source = "apple" THEN "look" ELSE "open")
      BY <2>2 DEF Reconcile
    <3>2. Client([type |-> "grant", pay |-> p]).via = "client"
      BY DEF Client
    <3> QED
      BY <3>1, <3>2
  <2> QED
    BY <2>1, <2>2
<1> DEFINE new == [Idle EXCEPT !.pc = step, !.ev = ev]
<1>2. new.pc = step /\ new.ev = ev
  BY DEF Idle
<1>3. run' = [run EXCEPT ![h] = new]
  BY <1>1 DEF Start
<1> HIDE DEF new
<1>4. CASE g = h
  BY <1>1, <1>2, <1>3, <1>4 DEF Knows, At, RunShape
<1>5. CASE g # h
  BY <1>3, <1>5, StayKnows DEF RunShape, SightInv
<1> QED
  BY <1>4, <1>5

LEMMA SightNext ==
    ASSUME TypeOK, RunShape, SightInv, [Next]_vars
    PROVE  SightInv'
<1>1. CASE \E h \in Runs : Handle(h)
  BY <1>1, HandleKnows, HandleBooks DEF SightInv
<1>2. CASE UNCHANGED <<receipts, due, bought, refunded>> /\ \A h \in Runs : Knows(h)'
  <2> SUFFICES ASSUME NEW d \in Deeds
               PROVE  /\ receipts[Webhook(d)] = "closed" => Settled(d)' \/ OwesNothing(d)'
                      /\ Happened(d)' => Webhook(d) \in due \/ receipts[Webhook(d)] # "none"
    BY <1>2 DEF SightInv
  <2>1. Happened(d)' = Happened(d)
    BY <1>2 DEF Happened
  <2> QED
    BY <2>1, Lasting DEF SightInv
<1>3. CASE \E h \in Runs : Deliver(h) \/ Reconcile(h)
  BY <1>2, <1>3, StartKnows DEF Deliver, Reconcile, Start, World
<1>4. CASE \E h \in Runs : Crash(h)
  <2>1. PICK h \in Runs : Crash(h)
    BY <1>4
  <2>2. \A g \in Runs \ {h} : run'[g] = run[g]
    BY <2>1 DEF Crash, Stop, RunShape
  <2>3. \A g \in Runs : Knows(g)'
    BY <2>1, <2>2, StopKnows, StayKnows DEF Crash, SightInv
  <2> QED
    BY <1>2, <2>1, <2>3 DEF Crash, World
<1>5. CASE UNCHANGED <<run, receipts>> /\ due \subseteq due'
             /\ \A d \in Deeds : Happened(d)' => Happened(d) \/ Webhook(d) \in due'
  <2>1. \A h \in Runs : Knows(h)'
    BY <1>5, StayKnows DEF SightInv
  <2>2. ASSUME NEW d \in Deeds
        PROVE  /\ receipts[Webhook(d)] = "closed" => Settled(d)' \/ OwesNothing(d)'
               /\ Happened(d)' => Webhook(d) \in due' \/ receipts[Webhook(d)] # "none"
    BY <1>5, Lasting DEF SightInv
  <2> QED
    BY <1>5, <2>1, <2>2 DEF SightInv
<1>6. CASE Buy
  <2>1. PICK p \in Payments :
          bought' = bought \cup {p} /\ Webhook([type |-> "grant", pay |-> p]) \in due'
    BY <1>6 DEF Buy
  <2>2. ASSUME NEW d \in Deeds, Happened(d)'
        PROVE  Happened(d) \/ Webhook(d) \in due'
    <3>1. CASE d.type = "grant" /\ d.pay = p
      <4>1. d = [type |-> "grant", pay |-> p]
        BY <3>1 DEF Deeds
      <4> QED
        BY <2>1, <4>1
    <3>2. CASE ~(d.type = "grant" /\ d.pay = p)
      BY <1>6, <2>1, <2>2, <3>2 DEF Happened, Buy
    <3> QED
      BY <3>1, <3>2
  <2> QED
    BY <1>5, <1>6, <2>2 DEF Buy
<1>7. CASE GiveBack
  <2>1. PICK p \in Payments :
          refunded' = refunded \cup {p} /\ Webhook([type |-> "refund", pay |-> p]) \in due'
    BY <1>7 DEF GiveBack, Of
  <2>2. ASSUME NEW d \in Deeds, Happened(d)'
        PROVE  Happened(d) \/ Webhook(d) \in due'
    <3>1. CASE d.type = "refund" /\ d.pay = p
      <4>1. d = [type |-> "refund", pay |-> p]
        BY <3>1 DEF Deeds
      <4> QED
        BY <2>1, <4>1
    <3>2. CASE ~(d.type = "refund" /\ d.pay = p)
      BY <1>7, <2>1, <2>2, <3>2, DeliveryKinds DEF Happened, GiveBack
    <3> QED
      BY <3>1, <3>2
  <2> QED
    BY <1>5, <1>7, <2>2 DEF GiveBack
<1>8. CASE Tick \/ Lapse \/ Spend \/ UNCHANGED vars
  <2>1. UNCHANGED <<run, receipts, bought, refunded>> /\ due \subseteq due'
    BY <1>8 DEF Tick, Lapse, Spend, vars, World
  <2>2. \A d \in Deeds : Happened(d)' = Happened(d)
    BY <2>1 DEF Happened
  <2> QED
    BY <1>5, <2>1, <2>2
<1> QED
  BY <1>1, <1>3, <1>4, <1>6, <1>7, <1>8 DEF Next

(* Verified money is never lost from sight: the provider still retries it, *)
(* or an open receipt reports it, or it is settled or not owed (openReceipt *)
(* before the work, finishReceipt after it, 200 last).                     *)
THEOREM NeverLost == Spec => []NothingIsLost
<1>1. Init => SightInv
  <2> SUFFICES ASSUME Init PROVE SightInv
    OBVIOUS
  <2>1. \A h \in Runs : Knows(h)
    BY DEF Init, Idle, Knows, At
  <2>2. \A d \in Deeds : ~Happened(d) /\ receipts[Webhook(d)] = "none"
    BY DeliveryKinds DEF Init, Happened
  <2> QED
    BY <2>1, <2>2 DEF SightInv
<1>2. TypeOK /\ RunShape /\ SightInv /\ [Next]_vars => SightInv'
  BY SightNext
<1>3. TypeOK /\ SightInv => NothingIsLost
  BY DeliveryKinds DEF SightInv, NothingIsLost, TypeOK
<1> QED
  BY <1>1, <1>2, <1>3, BillingTypeCorrect, PTL DEF Spec

-----------------------------------------------------------------------------
(* Cycles in their turn                                                    *)

Cycles == Subscriptions \cap Of("stripe")
GrantOf(p) == [type |-> "grant", pay |-> p]
Granted(p) == txns[Client(GrantOf(p))] = "applied"
Busy(h) == ~At(h, "idle")
Brings(h) == Busy(h) /\ Deed(h).type = "grant" /\ Pay(h) \in Cycles

(* One run at a time writes the row, and what may write it is known.       *)
InTurn ==
    /\ \A g, h \in Runs :
         Busy(g) /\ Busy(h) /\ WritesRow(run[g].ev) /\ WritesRow(run[h].ev) => g = h
    /\ \A h \in Runs : run[h].pc \in {"retrieve", "mirror", "status"} => WritesRow(run[h].ev)

(* Only what was bought is delivered and granted, and Stripe's             *)
(* subscription lasts as long as any period that was bought.               *)
PaidFor ==
    /\ \A e \in due : e.deed.type = "grant" => e.deed.pay \in bought
    /\ \A h \in Runs : Busy(h) /\ Deed(h).type = "grant" => Pay(h) \in bought
    /\ \A p \in Cycles : Granted(p) => p \in bought
    /\ \A p \in bought \cap Cycles : Terms[p].end <= stripe.end
    /\ stripe.end <= clock + 1

(* A cycle's invoice is handled by Stripe's webhook, which mirrors the     *)
(* subscription before it grants: by then the row is no older than what    *)
(* was granted.                                                            *)
Mirrored ==
    \A h \in Runs : Brings(h) =>
        /\ run[h].ev.via = "webhook" /\ ~At(h, "look")
        /\ At(h, "mirror") => \A q \in Cycles : Granted(q) => Terms[q].end <= run[h].sub.end
        /\ At(h, "fulfil") => \A q \in Cycles : Granted(q) => Terms[q].end <= row.end

CycleInv == InTurn /\ PaidFor /\ Mirrored

LEMMA CycleTypes ==
    ASSUME TypeOK
    PROVE  /\ stripe.end \in Nat /\ row.end \in Nat /\ clock \in Nat
           /\ \A p \in Payments : Terms[p].end \in Nat
           /\ \A p \in Cycles : p \in Payments /\ Terms[p].source = "stripe"
                 /\ Terms[p].kind = "subscription" /\ GrantOf(p) \in Deeds
                 /\ Client(GrantOf(p)) \in Deliveries
  BY BillingAssumption, DeliveryKinds
  DEF TypeOK, Snapshots, Cycles, Subscriptions, Of, GrantOf, Deeds

LEMMA GrantDeed ==
    ASSUME NEW d \in Deeds, NEW p \in Cycles, Client(GrantOf(p)) = Client(d)
    PROVE  d = GrantOf(p) /\ d.type = "grant" /\ d.pay = p
<1>1. Client(GrantOf(p)).deed = GrantOf(p) /\ Client(d).deed = d
  BY DEF Client
<1>2. d = GrantOf(p)
  BY <1>1
<1> QED
  BY <1>2 DEF GrantOf

(* A fulfilment grants the payment it brings, and only if the row is not   *)
(* of a later period; the row it leaves to others' subscriptions.          *)
LEMMA ApplyGrants ==
    ASSUME TypeOK, NEW ev \in Deliveries, Apply(ev), NEW p \in Cycles
    PROVE  /\ Granted(p) => Granted(p)'
           /\ Granted(p)' /\ ~Granted(p) =>
                /\ ev.deed.type = "grant" /\ ev.deed.pay = p
                /\ row.end <= Terms[p].end
<1> DEFINE key == Client(GrantOf(p))  d == ev.deed
<1>1. key \in Deliveries /\ txns \in [Deliveries -> {"none", "applied", "stale"}] /\ d \in Deeds
  BY CycleTypes, DeliveryKinds DEF TypeOK
<1>2. Granted(p) => Granted(p)'
  BY <1>1, ApplyType DEF Granted
<1>3. ASSUME Granted(p)', ~Granted(p)
      PROVE  d.type = "grant" /\ d.pay = p /\ row.end <= Terms[p].end
  <2>1. txns' # txns
    BY <1>3 DEF Granted
  <2>2. ~Stale(d) /\ txns' = [txns EXCEPT ![Client(d)] = "applied"]
    <3>1. CASE txns[Client(d)] # "none"
      BY <2>1, <3>1 DEF Apply, BusinessId, Money
    <3>2. CASE txns[Client(d)] = "none" /\ Stale(d)
      BY <1>1, <1>3, <3>2 DEF Apply, BusinessId, Granted
    <3>3. CASE txns[Client(d)] = "none" /\ ~Stale(d)
      BY <3>3 DEF Apply, BusinessId
    <3> QED
      BY <3>1, <3>2, <3>3
  <2>3. key = Client(d)
    BY <1>1, <1>3, <2>2 DEF Granted
  <2>4. d.type = "grant" /\ d.pay = p
    BY <1>1, <2>3, GrantDeed
  <2>5. row.end <= Terms[p].end
    BY <2>2, <2>4, CycleTypes DEF Stale
  <2> QED
    BY <2>4, <2>5
<1> QED
  BY <1>2, <1>3

LEMMA ApplyKeepsRow ==
    ASSUME TypeOK, NEW ev \in Deliveries, Apply(ev), ~WritesRow(ev)
    PROVE  row' = row
<1>1. ev.deed \in Deeds /\ ev.deed.pay \in Payments
  BY DeliveryKinds
<1>2. Terms[ev.deed.pay].kind = "pack"
  BY <1>1, BillingAssumption DEF WritesRow, Subscriptions
<1> QED
  BY <1>2 DEF Apply, Entitle, Money

(* What a handler's step leaves of its run.                                *)
LEMMA HandleRun ==
    ASSUME TypeOK, RunShape, NEW h \in Runs, Handle(h)
    PROVE  /\ Busy(h) /\ \A g \in Runs \ {h} : run'[g] = run[g]
           /\ \/ run'[h] = Idle
              \/ /\ run'[h].ev = run[h].ev
                 /\ run'[h].pc \in {"settle", "close", "refuse", "fail", "ack", "open"}
              \/ /\ run'[h].ev = run[h].ev
                 /\ Open(h) /\ run'[h].pc = Work(run[h].ev)
              \/ /\ run'[h].ev = run[h].ev
                 /\ Retrieve(h) /\ run'[h].pc = "mirror" /\ run'[h].sub = stripe
              \/ /\ run'[h].ev = run[h].ev /\ run'[h].pc = "fulfil"
                 /\ \/ Mirror(h) /\ row'.end = run[h].sub.end
                    \/ At(h, "look")
<1>1. \A g \in Runs \ {h} : run'[g] = run[g]
  BY Elsewhere
<1>2. ASSUME Stop(h) PROVE run'[h] = Idle
  BY <1>2 DEF Stop, RunShape
<1>3. ASSUME NEW step, Goto(h, step) PROVE run'[h].pc = step /\ run'[h].ev = run[h].ev
  BY <1>3 DEF Goto, RunShape, States
<1>4. ASSUME Throw(h)
      PROVE  run'[h] = Idle \/ (run'[h].pc = "fail" /\ run'[h].ev = run[h].ev)
  BY <1>2, <1>3, <1>4 DEF Throw
<1>5. Busy(h)
  BY DEF Handle, Open, Retrieve, Mirror, LookUpPack, LookAtPurchase, LookAtRefund,
         SetStatus, Fulfil, Close, Refuse, Fail, Ack, At, Busy
<1>6. CASE Open(h)
  BY <1>1, <1>2, <1>3, <1>5, <1>6 DEF Open
<1>7. CASE Retrieve(h)
  <2>1. CASE ~Throw(h)
    <3>1. PICK step \in {"mirror", "refuse"} :
            run' = [run EXCEPT ![h].sub = stripe, ![h].pc = step]
      BY <1>7, <2>1 DEF Retrieve
    <3>2. run'[h].pc = step /\ run'[h].ev = run[h].ev /\ run'[h].sub = stripe
      BY <3>1 DEF RunShape, States
    <3> QED
      BY <1>1, <1>5, <1>7, <3>2
  <2> QED
    BY <1>1, <1>4, <1>5, <2>1
<1>8. CASE Mirror(h)
  <2>1. CASE ~Throw(h)
    <3>1. row'.end = run[h].sub.end
      BY <1>8, <2>1 DEF Mirror, TypeOK
    <3> QED
      BY <1>1, <1>3, <1>5, <1>8, <2>1, <3>1 DEF Mirror
  <2> QED
    BY <1>1, <1>4, <1>5, <2>1
<1>9. CASE LookUpPack(h) \/ LookAtPurchase(h) \/ LookAtRefund(h)
  BY <1>1, <1>2, <1>3, <1>4, <1>5, <1>9 DEF LookUpPack, LookAtPurchase, LookAtRefund
<1>10. CASE SetStatus(h) \/ Fulfil(h) \/ Close(h) \/ Refuse(h) \/ Fail(h) \/ Ack(h)
  BY <1>1, <1>2, <1>3, <1>4, <1>5, <1>10 DEF SetStatus, Fulfil, Close, Refuse, Fail, Ack
<1> QED
  BY <1>6, <1>7, <1>8, <1>9, <1>10 DEF Handle

(* What it leaves of the row and of what was granted.                      *)
LEMMA HandleGrants ==
    ASSUME TypeOK, RunShape, InTurn, NEW h \in Runs, Handle(h)
    PROVE  /\ row' = row \/ WritesRow(run[h].ev)
           /\ \A p \in Cycles : Granted(p)' => Granted(p) \/ (At(h, "fulfil") /\ Brings(h) /\ Pay(h) = p)
<1>1. CASE Fulfil(h)
  <2>1. run[h].ev \in Deliveries /\ At(h, "fulfil") /\ Busy(h)
    BY <1>1 DEF RunShape, Fulfil, At, Busy
  <2>2. CASE Apply(run[h].ev)
    <3>1. \A p \in Cycles : Granted(p)' /\ ~Granted(p) => Deed(h).type = "grant" /\ Pay(h) = p
      BY <2>1, <2>2, ApplyGrants DEF Deed, Pay
    <3>2. row' = row \/ WritesRow(run[h].ev)
      BY <2>1, <2>2, ApplyKeepsRow
    <3> QED
      BY <2>1, <3>1, <3>2 DEF Brings
  <2>3. CASE UNCHANGED <<Money, row>>
    BY <2>3 DEF Money, Granted
  <2> QED
    BY <1>1, <2>2, <2>3 DEF Fulfil
<1>2. CASE ~Fulfil(h)
  <2>1. UNCHANGED txns
    BY <1>2 DEF Handle, Open, Retrieve, Mirror, LookUpPack, LookAtPurchase, LookAtRefund,
                SetStatus, Close, Refuse, Fail, Ack, Money
  <2>2. CASE Mirror(h) \/ SetStatus(h)
    BY <2>1, <2>2 DEF Mirror, SetStatus, At, InTurn, Granted
  <2>3. CASE ~(Mirror(h) \/ SetStatus(h))
    BY <1>2, <2>1, <2>3
    DEF Handle, Open, Retrieve, LookUpPack, LookAtPurchase, LookAtRefund, Close, Refuse, Fail,
        Ack, Granted
  <2> QED
    BY <2>2, <2>3
<1> QED
  BY <1>1, <1>2

LEMMA InTurnKept ==
    ASSUME SubscriptionsInTurn, TypeOK, RunShape, InTurn, [Next]_vars
    PROVE  InTurn'
<1>1. CASE \E h \in Runs : Handle(h)
  <2>1. PICK h \in Runs : Handle(h)
    BY <1>1
  <2>2. /\ \A g \in Runs \ {h} : run'[g] = run[g]
        /\ run'[h] = Idle \/ (Busy(h) /\ run'[h].ev = run[h].ev)
    BY <2>1, HandleRun
  <2>3. run'[h].pc \in {"retrieve", "mirror", "status"} => WritesRow(run'[h].ev)
    <3>1. Idle.pc = "idle"
      BY DEF Idle
    <3>2. run[h].pc = "retrieve" => WritesRow(run[h].ev)
      BY DEF InTurn
    <3>3. Work(run[h].ev) = "retrieve" => WritesRow(run[h].ev)
      BY DEF Work, WritesRow
    <3> QED
      BY <2>1, <3>1, <3>2, <3>3, HandleRun, WorkKinds DEF Retrieve, At
  <2>4. ASSUME NEW g \in Runs, Busy(g)' PROVE Busy(g) /\ run'[g].ev = run[g].ev
    BY <2>2, <2>4 DEF Busy, At, Idle
  <2>5. ASSUME NEW f \in Runs, NEW g \in Runs, Busy(f)', Busy(g)',
               WritesRow(run'[f].ev), WritesRow(run'[g].ev)
        PROVE  f = g
    BY <2>4, <2>5 DEF InTurn
  <2>6. \A g \in Runs : run'[g].pc \in {"retrieve", "mirror", "status"} => WritesRow(run'[g].ev)
    BY <2>2, <2>3 DEF InTurn
  <2> QED
    BY <2>5, <2>6 DEF InTurn
<1>2. CASE \E h \in Runs : Deliver(h) \/ Reconcile(h)
  <2>1. PICK h, ev, step :
          /\ h \in Runs /\ Start(h, ev, step)
          /\ step \in {"retrieve", "mirror", "status"} => WritesRow(ev)
    <3>1. PICK h \in Runs : Deliver(h) \/ Reconcile(h)
      BY <1>2
    <3>2. CASE Deliver(h)
      <4>1. PICK ev \in due : Start(h, ev, CASE ev.deed.type = "changed" -> "retrieve"
                                             [] ev.deed.type = "ended"   -> "status"
                                             [] OTHER                    -> "open")
        BY <3>2 DEF Deliver
      <4>2. ev \in Webhooks
        BY DEF RunShape
      <4>3. ev.deed.type \in {"changed", "ended"} => WritesRow(ev)
        <5>1. ev.deed.type \in {"changed", "ended"} => ev.deed \in Notices
          BY <4>2, DeliveryKinds
        <5> QED
          BY <5>1 DEF Notices, WritesRow
      <4>4. CASE ev.deed.type = "changed"
        BY <4>1, <4>3, <4>4
      <4>5. CASE ev.deed.type = "ended"
        BY <4>1, <4>3, <4>5
      <4>6. CASE ev.deed.type \notin {"changed", "ended"}
        <5>1. Start(h, ev, "open")
          BY <4>1, <4>6
        <5> QED
          BY <5>1
      <4> QED
        BY <4>4, <4>5, <4>6
    <3>3. CASE Reconcile(h)
      <4>1. PICK p \in bought : Start(h, Client([type |-> "grant", pay |-> p]),
                                      IF Terms[p].source = "apple" THEN "look" ELSE "open")
        BY <3>3 DEF Reconcile
      <4> QED
        BY <4>1
    <3> QED
      BY <3>1, <3>2, <3>3
  <2> DEFINE new == [Idle EXCEPT !.pc = step, !.ev = ev]
  <2>2. new.pc = step /\ new.ev = ev
    BY DEF Idle
  <2>3. run' = [run EXCEPT ![h] = new] /\ MayStart(h, ev)
    BY <2>1 DEF Start
  <2> HIDE DEF new
  <2>4. run'[h] = new /\ \A g \in Runs \ {h} : run'[g] = run[g]
    BY <2>1, <2>3 DEF RunShape
  <2>5. WritesRow(ev) => \A g \in Runs : Busy(g) => ~WritesRow(run[g].ev)
    BY <2>3 DEF MayStart, Busy
  <2>6. ASSUME NEW f \in Runs, NEW g \in Runs, f # g, Busy(f)', Busy(g)',
               WritesRow(run'[f].ev), WritesRow(run'[g].ev)
        PROVE  FALSE
    BY <2>2, <2>4, <2>5, <2>6 DEF InTurn, Busy, At
  <2>7. \A g \in Runs : run'[g].pc \in {"retrieve", "mirror", "status"} => WritesRow(run'[g].ev)
    BY <2>1, <2>2, <2>4 DEF InTurn
  <2> QED
    BY <2>6, <2>7 DEF InTurn
<1>3. CASE \E h \in Runs : Crash(h)
  <2>1. PICK h \in Runs : Crash(h)
    BY <1>3
  <2>2. run'[h] = Idle /\ \A g \in Runs \ {h} : run'[g] = run[g]
    BY <2>1 DEF Crash, Stop, RunShape
  <2> QED
    BY <2>2 DEF InTurn, Busy, At, Idle
<1>4. CASE Buy \/ GiveBack \/ Tick \/ Lapse \/ Spend \/ UNCHANGED vars
  <2>1. UNCHANGED run
    BY <1>4 DEF Buy, GiveBack, Tick, Lapse, Spend, vars
  <2> QED
    BY <2>1 DEF InTurn, Busy, At
<1> QED
  BY <1>1, <1>2, <1>3, <1>4 DEF Next

(* Every delivery is of what was bought.                                   *)
LEMMA PaidForKept ==
    ASSUME TypeOK, RunShape, InTurn, PaidFor, [Next]_vars
    PROVE  PaidFor'
<1> DEFINE DueOk == \A e \in due : e.deed.type = "grant" => e.deed.pay \in bought
           RunsOk == \A h \in Runs : Busy(h) /\ Deed(h).type = "grant" => Pay(h) \in bought
           GrantsOk == \A p \in Cycles : Granted(p) => p \in bought
           EndsOk == /\ \A p \in bought \cap Cycles : Terms[p].end <= stripe.end
                     /\ stripe.end <= clock + 1
<1>0. DueOk /\ RunsOk /\ GrantsOk /\ EndsOk
  BY DEF PaidFor
<1>1. CASE \E h \in Runs : Handle(h)
  <2>1. PICK h \in Runs : Handle(h)
    BY <1>1
  <2>2. UNCHANGED World /\ due' \subseteq due
    BY <2>1, HandleType
    DEF Handle, Open, Retrieve, Mirror, LookUpPack, LookAtPurchase, LookAtRefund, SetStatus,
        Fulfil, Close, Refuse, Fail, Ack
  <2>3. ASSUME NEW g \in Runs, Busy(g)' PROVE Busy(g) /\ run'[g].ev = run[g].ev
    BY <2>1, <2>3, HandleRun DEF Busy, At, Idle
  <2>4. RunsOk'
    BY <1>0, <2>2, <2>3 DEF World, Deed, Pay
  <2>5. GrantsOk'
    BY <1>0, <2>1, <2>2, HandleGrants DEF World, Brings
  <2> QED
    BY <1>0, <2>2, <2>4, <2>5 DEF World, PaidFor
<1>2. CASE \E h \in Runs : Deliver(h) \/ Reconcile(h)
  <2>1. PICK h, ev, step :
          h \in Runs /\ Start(h, ev, step) /\ (ev.deed.type = "grant" => ev.deed.pay \in bought)
    <3>1. PICK h \in Runs : Deliver(h) \/ Reconcile(h)
      BY <1>2
    <3>2. CASE Deliver(h)
      BY <1>0, <3>2 DEF Deliver
    <3>3. CASE Reconcile(h)
      <4>1. PICK p \in bought : Start(h, Client([type |-> "grant", pay |-> p]),
                                      IF Terms[p].source = "apple" THEN "look" ELSE "open")
        BY <3>3 DEF Reconcile
      <4>2. Client([type |-> "grant", pay |-> p]).deed.pay = p
        BY DEF Client
      <4> QED
        BY <4>1, <4>2
    <3> QED
      BY <3>1, <3>2, <3>3
  <2> DEFINE new == [Idle EXCEPT !.pc = step, !.ev = ev]
  <2>2. new.ev = ev
    BY DEF Idle
  <2>3. run' = [run EXCEPT ![h] = new] /\ UNCHANGED <<World, due, txns>>
    BY <2>1 DEF Start, Money
  <2> HIDE DEF new
  <2>4. RunsOk'
    BY <1>0, <2>1, <2>2, <2>3 DEF RunShape, Busy, At, Deed, Pay, World
  <2> QED
    BY <1>0, <2>3, <2>4 DEF PaidFor, World, Granted
<1>3. CASE \E h \in Runs : Crash(h)
  <2>1. PICK h \in Runs : Crash(h)
    BY <1>3
  <2>2. run'[h] = Idle /\ \A g \in Runs \ {h} : run'[g] = run[g]
    BY <2>1 DEF Crash, Stop, RunShape
  <2>3. RunsOk'
    BY <1>0, <2>1, <2>2 DEF Crash, World, Busy, At, Idle, Deed, Pay
  <2> QED
    BY <1>0, <2>1, <2>3 DEF Crash, World, Money, PaidFor, Granted
<1>4. CASE Buy
  <2>1. PICK p \in Payments \ bought :
          /\ Terms[p].kind = "subscription" => Terms[p].end = clock + 1
          /\ bought' = bought \cup {p}
          /\ due' = due \cup {Webhook([type |-> "grant", pay |-> p])}
                        \cup (IF Terms[p].source = "stripe" /\ Terms[p].kind = "subscription"
                              THEN {Webhook([type |-> "changed", pay |-> p])} ELSE {})
          /\ stripe' = IF Terms[p].source = "stripe" /\ Terms[p].kind = "subscription"
                       THEN [end |-> Terms[p].end, alive |-> TRUE] ELSE stripe
          /\ UNCHANGED <<clock, txns, run>>
    BY <1>4 DEF Buy, Money
  <2>2. DueOk'
    BY <1>0, <2>1 DEF Webhook
  <2>3. RunsOk' /\ GrantsOk'
    BY <1>0, <2>1 DEF Busy, At, Deed, Pay, Granted
  <2>4. EndsOk'
    <3>1. CASE Terms[p].source = "stripe" /\ Terms[p].kind = "subscription"
      BY <1>0, <2>1, <3>1, CycleTypes
    <3>2. CASE ~(Terms[p].source = "stripe" /\ Terms[p].kind = "subscription")
      BY <1>0, <2>1, <3>2, CycleTypes
    <3> QED
      BY <3>1, <3>2
  <2> QED
    BY <2>2, <2>3, <2>4 DEF PaidFor
<1>5. CASE GiveBack \/ Tick \/ Lapse \/ Spend \/ UNCHANGED vars
  <2>1. UNCHANGED <<run, txns, bought>>
    BY <1>5 DEF GiveBack, Tick, Lapse, Spend, vars, World, Money
  <2>2. RunsOk' /\ GrantsOk'
    BY <1>0, <2>1 DEF Busy, At, Deed, Pay, Granted
  <2>3. DueOk'
    BY <1>0, <1>5, <2>1 DEF GiveBack, Tick, Lapse, Spend, vars, Webhook, World
  <2>4. stripe'.end = stripe.end /\ clock' \in {clock, clock + 1}
    BY <1>5 DEF GiveBack, Tick, Lapse, Spend, vars, World, TypeOK, Snapshots
  <2>5. EndsOk'
    BY <1>0, <2>1, <2>4, CycleTypes
  <2> QED
    BY <2>2, <2>3, <2>5 DEF PaidFor
<1> QED
  BY <1>1, <1>2, <1>3, <1>4, <1>5 DEF Next

LEMMA MirroredKept ==
    ASSUME TypeOK, RunShape, InTurn, PaidFor, Mirrored, [Next]_vars
    PROVE  Mirrored'
<1> DEFINE Ok(g) ==
      Brings(g) =>
        /\ run[g].ev.via = "webhook" /\ ~At(g, "look")
        /\ At(g, "mirror") => \A q \in Cycles : Granted(q) => Terms[q].end <= run[g].sub.end
        /\ At(g, "fulfil") => \A q \in Cycles : Granted(q) => Terms[q].end <= row.end
<1>0. \A g \in Runs : Ok(g)
  BY DEF Mirrored
<1>1. SUFFICES ASSUME NEW g \in Runs PROVE Ok(g)'
  BY DEF Mirrored
<1>2. ASSUME run'[g] = run[g], row' = row, \A q \in Cycles : Granted(q)' => Granted(q)
      PROVE  Ok(g)'
  BY <1>0, <1>2 DEF Brings, Busy, At, Deed, Pay
<1>3. CASE \E h \in Runs : Handle(h)
  <2>1. PICK h \in Runs : Handle(h)
    BY <1>3
  <2>2. CASE h # g
    <3>1. run'[g] = run[g]
      BY <2>1, <2>2, HandleRun
    <3>2. CASE ~Brings(g)
      BY <3>1, <3>2 DEF Brings, Busy, At, Deed, Pay
    <3>3. CASE Brings(g)
      <4>1. Busy(g) /\ WritesRow(run[g].ev) /\ Busy(h)
        BY <2>1, <3>3, HandleRun DEF Brings, WritesRow, Cycles, Pay, Deed
      <4>2. ~WritesRow(run[h].ev)
        BY <2>2, <4>1 DEF InTurn
      <4>3. row' = row
        BY <2>1, <4>2, HandleGrants
      <4>4. ~Brings(h)
        BY <4>2 DEF Brings, WritesRow, Cycles, Pay, Deed
      <4>5. \A q \in Cycles : Granted(q)' => Granted(q)
        BY <2>1, <4>4, HandleGrants
      <4> QED
        BY <1>2, <3>1, <4>3, <4>5
    <3> QED
      BY <3>2, <3>3
  <2>3. CASE h = g
    <3> SUFFICES ASSUME Brings(g)' PROVE Ok(g)'
      OBVIOUS
    <3>1. run'[g] # Idle
      BY DEF Brings, Busy, At, Idle
    <3>2. run'[g].ev = run[g].ev /\ Busy(g)
      BY <2>1, <2>3, <3>1, HandleRun
    <3>3. Brings(g)
      BY <3>2 DEF Brings, Deed, Pay
    <3>4. /\ run[g].ev.via = "webhook" /\ ~At(g, "look")
          /\ At(g, "mirror") => \A q \in Cycles : Granted(q) => Terms[q].end <= run[g].sub.end
      BY <1>0, <3>3
    <3>5. Work(run[g].ev) = "retrieve"
      <4>1. run[g].ev.deed.pay \in Subscriptions \cap Of("stripe") /\ run[g].ev.via = "webhook"
        BY <3>3, <3>4 DEF Brings, Pay, Deed, Cycles
      <4> QED
        BY <4>1 DEF Work
    <3>6. CASE run'[g].pc \in {"settle", "close", "refuse", "fail", "ack", "open", "retrieve"}
      BY <3>2, <3>4, <3>6 DEF At
    <3>7. CASE Retrieve(g) /\ run'[g].pc = "mirror" /\ run'[g].sub = stripe
      <4>1. \A q \in Cycles : Granted(q)' => Granted(q)
        BY <2>1, <2>3, <3>7, HandleGrants DEF Retrieve, At
      <4>2. \A q \in Cycles : Granted(q)' => Terms[q].end <= stripe.end
        BY <4>1 DEF PaidFor
      <4> QED
        BY <3>2, <3>4, <3>7, <4>2 DEF At
    <3>8. CASE Mirror(g) /\ run'[g].pc = "fulfil" /\ row'.end = run[g].sub.end
      <4>1. At(g, "mirror")
        BY <3>8 DEF Mirror
      <4>2. \A q \in Cycles : Granted(q)' => Granted(q)
        BY <2>1, <2>3, <4>1, HandleGrants DEF At
      <4> QED
        BY <3>2, <3>4, <3>8, <4>1, <4>2 DEF At
    <3> QED
      BY <2>1, <2>3, <3>1, <3>4, <3>5, <3>6, <3>7, <3>8, HandleRun
  <2> QED
    BY <2>2, <2>3
<1>4. CASE \E h \in Runs : Deliver(h) \/ Reconcile(h)
  <2>1. PICK h, ev, step :
          /\ h \in Runs /\ Start(h, ev, step)
          /\ step \in {"open", "look", "retrieve", "status"}
          /\ ev.deed.type = "grant" /\ ev.deed.pay \in Cycles => ev.via = "webhook" /\ step # "look"
    <3>1. PICK h \in Runs : Deliver(h) \/ Reconcile(h)
      BY <1>4
    <3>2. CASE Deliver(h)
      <4>1. PICK ev \in due : Start(h, ev, CASE ev.deed.type = "changed" -> "retrieve"
                                             [] ev.deed.type = "ended"   -> "status"
                                             [] OTHER                    -> "open")
        BY <3>2 DEF Deliver
      <4>2. ev.via = "webhook"
        BY DEF RunShape, Webhooks, Webhook
      <4>3. CASE ev.deed.type = "changed"
        BY <4>1, <4>2, <4>3
      <4>4. CASE ev.deed.type = "ended"
        BY <4>1, <4>2, <4>4
      <4>5. CASE ev.deed.type \notin {"changed", "ended"}
        <5>1. Start(h, ev, "open")
          BY <4>1, <4>5
        <5> QED
          BY <4>2, <5>1
      <4> QED
        BY <4>3, <4>4, <4>5
    <3>3. CASE Reconcile(h)
      <4>1. PICK p \in bought :
              /\ Terms[p].source = "stripe" => Terms[p].kind = "pack"
              /\ Start(h, Client([type |-> "grant", pay |-> p]),
                       IF Terms[p].source = "apple" THEN "look" ELSE "open")
        BY <3>3 DEF Reconcile
      <4>2. p \notin Cycles /\ Client([type |-> "grant", pay |-> p]).deed.pay = p
        BY <4>1, CycleTypes DEF Client
      <4> QED
        BY <4>1, <4>2
    <3> QED
      BY <3>1, <3>2, <3>3
  <2> DEFINE new == [Idle EXCEPT !.pc = step, !.ev = ev]
  <2>2. new.pc = step /\ new.ev = ev
    BY DEF Idle
  <2>3. run' = [run EXCEPT ![h] = new] /\ UNCHANGED <<row, txns>>
    BY <2>1 DEF Start, Money
  <2> HIDE DEF new
  <2>4. CASE g = h
    BY <2>1, <2>2, <2>3, <2>4 DEF RunShape, Brings, Busy, At, Deed, Pay
  <2>5. CASE g # h
    BY <1>2, <2>3, <2>5 DEF RunShape, Granted
  <2> QED
    BY <2>4, <2>5
<1>5. CASE \E h \in Runs : Crash(h)
  <2>1. PICK h \in Runs : Crash(h)
    BY <1>5
  <2>2. /\ run'[h] = Idle /\ \A f \in Runs \ {h} : run'[f] = run[f]
        /\ UNCHANGED <<row, txns>>
    BY <2>1 DEF Crash, Stop, RunShape, Money
  <2>3. CASE g = h
    BY <2>2, <2>3 DEF Brings, Busy, At, Idle
  <2>4. CASE g # h
    BY <1>2, <2>2, <2>4 DEF Granted
  <2> QED
    BY <2>3, <2>4
<1>6. CASE Buy \/ GiveBack \/ Tick \/ Lapse \/ Spend \/ UNCHANGED vars
  <2>1. UNCHANGED <<run, row, txns>>
    BY <1>6 DEF Buy, GiveBack, Tick, Lapse, Spend, vars, Money
  <2> QED
    BY <1>2, <2>1 DEF Granted
<1> QED
  BY <1>3, <1>4, <1>5, <1>6 DEF Next

(* Where deliveries that write the subscription do not overlap, a late     *)
(* invoice of an older period never grants again what a newer one has      *)
(* granted (fn_apply_fulfillment, behind a mirror that is up to date).     *)
THEOREM LateCyclesRefused == ASSUME SubscriptionsInTurn PROVE Spec => LateCycleIsRefused
<1>1. Init => CycleInv
  <2> SUFFICES ASSUME Init PROVE CycleInv
    OBVIOUS
  <2>1. \A h \in Runs : run[h].pc = "idle" /\ ~Busy(h)
    BY DEF Init, Idle, Busy, At
  <2>2. \A p \in Cycles : ~Granted(p)
    BY DeliveryKinds DEF Init, Granted, Cycles, Subscriptions, Of, GrantOf, Deeds
  <2> QED
    BY <2>1, <2>2 DEF Init, CycleInv, InTurn, PaidFor, Mirrored, Brings
<1>2. TypeOK /\ RunShape /\ CycleInv /\ [Next]_vars => CycleInv'
  BY InTurnKept, PaidForKept, MirroredKept DEF CycleInv
<1>3. ASSUME TypeOK, RunShape, CycleInv, [Next]_vars, NEW p \in Cycles, NEW q \in Cycles,
             ~Granted(p), Granted(p)', Granted(q)
      PROVE  Terms[q].end <= Terms[p].end
  <2>1. PICK h \in Runs : Handle(h) /\ At(h, "fulfil") /\ Brings(h) /\ Pay(h) = p
    <3>1. CASE \E h \in Runs : Handle(h)
      BY <1>3, <3>1, HandleGrants DEF CycleInv
    <3>2. CASE ~\E h \in Runs : Handle(h)
      <4>1. UNCHANGED txns
        BY <1>3, <3>2
        DEF Next, Deliver, Reconcile, Start, Crash, Buy, GiveBack, Tick, Lapse, Spend, vars, Money
      <4> QED
        BY <1>3, <4>1 DEF Granted
    <3> QED
      BY <3>1, <3>2
  <2>2. Terms[q].end <= row.end
    BY <1>3, <2>1 DEF CycleInv, Mirrored
  <2>3. run[h].ev \in Deliveries
    BY <1>3, <2>1 DEF RunShape, At
  <2>4. Apply(run[h].ev)
    <3>1. Fulfil(h)
      BY <2>1 DEF Handle, Open, Retrieve, Mirror, LookUpPack, LookAtPurchase, LookAtRefund,
                  SetStatus, Close, Refuse, Fail, Ack, At
    <3>2. txns' # txns
      BY <1>3 DEF Granted
    <3> QED
      BY <3>1, <3>2 DEF Fulfil, Money
  <2>5. row.end <= Terms[p].end
    BY <1>3, <2>3, <2>4, ApplyGrants
  <2> QED
    BY <1>3, <2>2, <2>5, CycleTypes
<1>4. TypeOK /\ RunShape /\ CycleInv /\ [Next]_vars =>
        \A p, q \in Cycles : ~Granted(p) /\ Granted(p)' /\ Granted(q) => Terms[q].end <= Terms[p].end
  BY <1>3
<1>5. (\A p, q \in Cycles : ~Granted(p) /\ Granted(p)' /\ Granted(q) => Terms[q].end <= Terms[p].end)
      => \A p, q \in Subscriptions \cap Of("stripe") :
           LET key(x) == Client([type |-> "grant", pay |-> x]) IN
           /\ txns[key(p)] = "none" /\ txns'[key(p)] = "applied"
           /\ txns[key(q)] = "applied"
           => Terms[q].end <= Terms[p].end
  BY DEF Cycles, Granted, GrantOf
<1> QED
  BY <1>1, <1>2, <1>4, <1>5, BillingTypeCorrect, PTL DEF Spec, LateCycleIsRefused
=============================================================================
