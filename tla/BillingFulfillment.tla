------------------------- MODULE BillingFulfillment -------------------------
(***************************************************************************)
(* From a verified payment to a credit balance: the Stripe and App Store   *)
(* webhooks, the two reconciliation routes, the receipts they keep, and    *)
(* the transaction that grants (stripe-webhook/handler.ts,                 *)
(* appstore-webhook/handler.ts, _shared/billing-fulfillment.ts,            *)
(* _shared/iap-grants.ts, routes/billing-reconcile.ts, migrations 0018,    *)
(* 0027 and 0038).                                                         *)
(*                                                                         *)
(* One customer: every balance, receipt and subscription row is theirs.    *)
(* A deed is a business transaction, a payment or the refund of one, and   *)
(* it may reach us over several deliveries: the provider's webhook, sent   *)
(* until it is answered 200, and the customer's own reconcile call.  A     *)
(* run is one such delivery being handled; a step is one call that leaves  *)
(* the isolate.  A call may fail, whether or not it took effect.           *)
(*                                                                         *)
(* Time is a count of billing periods.  Plans are told apart by their      *)
(* credits; cancelled-at-period-end counts as active, as it does for       *)
(* every reader of the row; pending_plan, sandbox and the pre-0018 ledger  *)
(* references are left out.                                                *)
(*                                                                         *)
(* A definition under "Mutant of" is that definition with a bug put in.    *)
(***************************************************************************)
EXTENDS Integers, FiniteSets

CONSTANTS
    Payments,           \* the payments the customer may make
    Terms,              \* what each is: its provider, kind, period, credits
    NoDelivery,         \* the delivery of an idle run
    Runs,               \* deliveries that can be handled at once
    MaxClock,           \* periods that go by
    FaultBudget,        \* faults the environment has left at the start
    FaultCost,          \* 1, or 0 for an environment whose faults never end
    SubscriptionsInTurn \* deliveries that write the subscription do not overlap

ASSUME BillingAssumption ==
    /\ Terms \in [Payments -> [source : {"stripe", "apple"},
                              kind : {"subscription", "pack"}, end : Nat,
                              credits : Nat, upgrade : BOOLEAN]]
    /\ MaxClock \in Nat
    /\ FaultBudget \in Nat
    /\ FaultCost \in {0, 1}
    /\ SubscriptionsInTurn \in BOOLEAN

VARIABLES
    clock,              \* the period in course
    bought,             \* payments the customer made
    refunded,           \* Apple payments Apple gave back
    stripe,             \* the customer's subscription, as Stripe has it
    due,                \* webhook deliveries the provider still retries
    receipts,           \* billing_deliveries, by delivery
    txns,               \* billing_transactions, by business id
    entries,            \* ledger entries that move a deed's credits
    plan,               \* the plan bucket of the balance
    row,                \* the customer's row of subscriptions
    run,                \* what each run is doing
    faults

vars == <<clock, bought, refunded, stripe, due, receipts, txns, entries, plan,
          row, run, faults>>

-----------------------------------------------------------------------------
(* Deeds and their deliveries.                                             *)

Of(source) == {p \in Payments : Terms[p].source = source}
Subscriptions == {p \in Payments : Terms[p].kind = "subscription"}

Deeds == [type : {"grant"}, pay : Payments] \cup [type : {"refund"}, pay : Of("apple")]

(* customer.subscription.updated and .deleted, which carry no money, and   *)
(* the App Store's EXPIRED.                                                *)
Notices == [type : {"changed"}, pay : Subscriptions \cap Of("stripe")]
             \cup [type : {"ended"}, pay : Subscriptions \cap Of("apple")]

Webhook(d) == [deed |-> d, via |-> "webhook"]
Client(d) == [deed |-> d, via |-> "client"]

Deliveries == [deed : Deeds, via : {"webhook", "client"}]
Webhooks == {Webhook(d) : d \in Deeds \cup Notices}

(* Mutant of BusinessId: the grant is keyed on the delivery that brings it. *)
DeliveryId(ev) == ev

(* The invoice, session or Apple transaction id, whatever brought it.  It  *)
(* is also the event id of the customer's own call, which has no other.    *)
BusinessId(ev) == Client(ev.deed)

WritesRow(ev) == ev.deed.pay \in Subscriptions

Steps == {"idle", "open", "retrieve", "mirror", "look", "fulfil", "settle",
          "close", "refuse", "status", "fail", "ack"}

(* Entries are counted this far, enough to see money move twice.           *)
MaxEntries == 2

Snapshots == [end : Nat, alive : BOOLEAN]

Idle == [pc |-> "idle", ev |-> NoDelivery, sub |-> [end |-> 0, alive |-> FALSE]]

TypeOK ==
    /\ clock \in 0 .. MaxClock
    /\ bought \in SUBSET Payments
    /\ refunded \in SUBSET Of("apple")
    /\ stripe \in Snapshots
    /\ due \in SUBSET Webhooks
    /\ receipts \in [Deliveries -> {"none", "open", "closed"}]
    /\ txns \in [Deliveries -> {"none", "applied", "stale"}]
    /\ entries \in [Deeds -> 0 .. MaxEntries]
    /\ plan \in Int
    /\ row \in [end : Nat, status : {"inactive", "active", "expired"},
                stripe : BOOLEAN, apple : BOOLEAN]
    /\ run \in [Runs -> [pc : Steps, ev : Deliveries \cup Webhooks \cup {NoDelivery},
                         sub : Snapshots]]
    /\ faults \in 0 .. FaultBudget

Init ==
    /\ clock = 0
    /\ bought = {} /\ refunded = {}
    /\ stripe = [end |-> 0, alive |-> FALSE]
    /\ due = {}
    /\ receipts = [e \in Deliveries |-> "none"]
    /\ txns = [e \in Deliveries |-> "none"]
    /\ entries = [d \in Deeds |-> 0]
    /\ plan = 0
    /\ row = [end |-> 0, status |-> "inactive", stripe |-> FALSE, apple |-> FALSE]
    /\ run = [h \in Runs |-> Idle]
    /\ faults = FaultBudget

-----------------------------------------------------------------------------
(* Building blocks.                                                        *)

World == <<clock, bought, refunded, stripe>>        \* outside our control
Money == <<txns, entries, plan>>

Fault == faults # 0 /\ faults' = faults - FaultCost

At(h, step) == run[h].pc = step
Goto(h, step) == run' = [run EXCEPT ![h].pc = step]
Stop(h) == run' = [run EXCEPT ![h] = Idle]

(* A failure inside the work is written on the receipt before the 500; one *)
(* outside it, or in a reconcile route, just ends the call.                *)
Throw(h) == IF run[h].ev.via = "webhook" /\ run[h].ev.deed \in Deeds
            THEN Goto(h, "fail") ELSE Stop(h)

Deed(h) == run[h].ev.deed
Pay(h) == Deed(h).pay

(* Where a handler goes once the receipt is open.                          *)
Work(ev) ==
    CASE ev.via = "client" -> "fulfil"
      [] ev.deed.pay \in Subscriptions \cap Of("stripe") -> "retrieve"
      [] OTHER -> "look"

(* fn_finish_billing_delivery: a closed receipt is never reopened.         *)
Finish(ev, resolved) ==
    receipts' = [receipts EXCEPT ![ev] =
                   IF @ = "open" /\ resolved THEN "closed" ELSE @]

-----------------------------------------------------------------------------
(* fn_apply_fulfillment                                                    *)

(* Mutant of Stale: the guard is dropped.                                  *)
NeverStale(d) == FALSE

(* The ordering guard, which a refund passes by: it names no period.       *)
Stale(d) ==
    d.type = "grant" /\ Terms[d.pay].kind = "subscription" /\ row.end > Terms[d.pay].end

(* What the plan bucket is set to.                                         *)
NewPlan(d) ==
    CASE Terms[d.pay].kind = "pack"  -> plan
      [] d.type = "refund"    -> 0
      [] Terms[d.pay].upgrade /\ plan > Terms[d.pay].credits -> plan
      [] OTHER                -> Terms[d.pay].credits

Moves(d) == Terms[d.pay].kind = "pack" \/ NewPlan(d) # plan

(* The entitlement an App Store deed carries; a refund's ends at the time  *)
(* of the event.  The Stripe handler keeps the row by itself.              *)
Entitle(d, at) ==
    IF Terms[d.pay].kind = "pack" \/ Terms[d.pay].source = "stripe" THEN UNCHANGED row
    ELSE row' = [row EXCEPT !.end = IF d.type = "refund" THEN at ELSE Terms[d.pay].end,
                            !.status = IF d.type = "refund" THEN "expired" ELSE "active",
                            !.apple = @ \/ d.type = "grant"]

Apply(ev) ==
    LET d == ev.deed  key == BusinessId(ev) IN
    IF txns[key] # "none" THEN UNCHANGED <<Money, row>>
    ELSE IF Stale(d)
    THEN /\ txns' = [txns EXCEPT ![key] = "stale"]
         /\ UNCHANGED <<entries, plan, row>>
    ELSE /\ txns' = [txns EXCEPT ![key] = "applied"]
         /\ entries' = IF Moves(d) /\ entries[d] < MaxEntries THEN [entries EXCEPT ![d] = @ + 1]
                                                     ELSE entries
         /\ plan' = NewPlan(d)
         /\ \E at \in 0 .. clock : Entitle(d, at)

-----------------------------------------------------------------------------
(* A delivery comes in.                                                    *)

MayStart(h, ev) ==
    /\ At(h, "idle")
    /\ SubscriptionsInTurn /\ WritesRow(ev) =>
         ~\E g \in Runs : ~At(g, "idle") /\ WritesRow(run[g].ev)

Start(h, ev, step) ==
    /\ MayStart(h, ev)
    /\ run' = [run EXCEPT ![h] = [Idle EXCEPT !.pc = step, !.ev = ev]]
    /\ UNCHANGED <<World, due, receipts, Money, row, faults>>

Deliver(h) ==
    \E ev \in due :
      Start(h, ev, CASE ev.deed.type = "changed" -> "retrieve"
                     [] ev.deed.type = "ended"   -> "status"
                     [] OTHER                    -> "open")

(* POST /billing/reconcile re-applies the customer's paid packs, and POST  *)
(* /iap/verify a purchase the app submits.                                 *)
Reconcile(h) ==
    \E p \in bought :
      /\ Terms[p].source = "stripe" => Terms[p].kind = "pack"
      /\ Start(h, Client([type |-> "grant", pay |-> p]),
               IF Terms[p].source = "apple" THEN "look" ELSE "open")

(* openReceipt, outside the work: if it throws there is nothing to close.  *)
Open(h) ==
    LET ev == run[h].ev
        Record == receipts' = [receipts EXCEPT ![ev] = IF @ = "none" THEN "open" ELSE @]
    IN
    /\ At(h, "open")
    /\ \/ Record /\ Goto(h, Work(ev)) /\ UNCHANGED faults
       \/ Fault /\ Stop(h) /\ (Record \/ UNCHANGED receipts)
    /\ UNCHANGED <<World, due, Money, row>>

-----------------------------------------------------------------------------
(* The Stripe handlers                                                     *)

(* retrieveSubscription answers with what is true now, which need not be   *)
(* what the event was about.                                               *)
Retrieve(h) ==
    /\ At(h, "retrieve")
    /\ \/ /\ run' = [run EXCEPT ![h].sub = stripe,
                                ![h].pc = IF Deed(h).type = "changed" \/ stripe.alive
                                          THEN "mirror" ELSE "refuse"]
          /\ UNCHANGED faults
       \/ Fault /\ Throw(h)
    /\ UNCHANGED <<World, due, receipts, Money, row>>

(* The upsert of the subscription row, unconditional and on its own.       *)
Mirror(h) ==
    LET sub == run[h].sub
        Upsert == row' = [row EXCEPT !.end = sub.end, !.stripe = TRUE,
                            !.status = IF sub.alive THEN "active" ELSE "expired"]
    IN
    /\ At(h, "mirror")
    /\ \/ /\ Upsert
          /\ Goto(h, IF Deed(h).type = "changed" THEN "ack" ELSE "fulfil")
          /\ UNCHANGED faults
       \/ Fault /\ Throw(h) /\ (Upsert \/ UNCHANGED row)
    /\ UNCHANGED <<World, due, receipts, Money>>

(* retrievePackPurchase.                                                   *)
LookUpPack(h) ==
    /\ At(h, "look") /\ Terms[Pay(h)].source = "stripe"
    /\ \/ Goto(h, "fulfil") /\ UNCHANGED faults
       \/ Fault /\ Throw(h)
    /\ UNCHANGED <<World, due, receipts, Money, row>>

-----------------------------------------------------------------------------
(* The App Store handlers                                                  *)

StripeCarriesRow(p) == row.stripe /\ row.end > Terms[p].end

Expired(p) == Terms[p].kind = "subscription" /\ Terms[p].end <= clock

(* A purchase: nothing is owed for one revoked or expired; the app is told *)
(* so without a receipt.  A payload without the account token needs a row  *)
(* that names the purchase.                                                *)
LookAtPurchase(h) ==
    LET client == run[h].ev.via = "client"  p == Pay(h) IN
    /\ At(h, "look") /\ Terms[p].source = "apple" /\ Deed(h).type = "grant"
    /\ \/ /\ p \in refunded \/ Expired(p)
          /\ IF client THEN Stop(h) ELSE Goto(h, "close")
          /\ UNCHANGED faults
       \/ ~Expired(p) /\ Goto(h, IF client THEN "open" ELSE "fulfil") /\ UNCHANGED faults
       \/ ~client /\ ~row.apple /\ Goto(h, "refuse") /\ UNCHANGED faults
       \/ Fault /\ Throw(h)
    /\ UNCHANGED <<World, due, receipts, Money, row>>

(* A refund takes back what the grant wrote, if it was written; that of a  *)
(* subscription ends the row, unless Stripe pays for it by now.            *)
LookAtRefund(h) ==
    LET p == Pay(h) IN
    /\ At(h, "look") /\ Deed(h).type = "refund"
    /\ \/ /\ p \in Subscriptions
          /\ Goto(h, IF StripeCarriesRow(p) THEN "close" ELSE "fulfil")
          /\ UNCHANGED faults
       \/ /\ p \notin Subscriptions
          /\ Goto(h, IF entries[[type |-> "grant", pay |-> p]] > 0 THEN "fulfil" ELSE "refuse")
          /\ UNCHANGED faults
       \/ ~row.apple /\ Goto(h, "refuse") /\ UNCHANGED faults
       \/ Fault /\ Throw(h)
    /\ UNCHANGED <<World, due, receipts, Money, row>>

(* setIapSubscriptionStatus: the guard is in the update itself.            *)
SetStatus(h) ==
    LET p == Pay(h)
        Update == row' = IF row.apple /\ ~StripeCarriesRow(p)
                         THEN [row EXCEPT !.status = "expired"] ELSE row
    IN
    /\ At(h, "status")
    /\ \/ Update /\ Goto(h, "ack") /\ UNCHANGED faults
       \/ Fault /\ Stop(h) /\ (Update \/ UNCHANGED row)
    /\ UNCHANGED <<World, due, receipts, Money>>

-----------------------------------------------------------------------------
(* How a delivery ends                                                     *)

Fulfil(h) ==
    /\ At(h, "fulfil")
    /\ \/ Apply(run[h].ev) /\ Goto(h, "settle") /\ UNCHANGED faults
       \/ Fault /\ Throw(h) /\ (Apply(run[h].ev) \/ UNCHANGED <<Money, row>>)
    /\ UNCHANGED <<World, due, receipts>>

(* The receipt is closed: over a fulfilment, or because nothing is owed.   *)
Close(h) ==
    LET ev == run[h].ev IN
    /\ run[h].pc \in {"settle", "close"}
    /\ \/ /\ Finish(ev, TRUE)
          /\ IF ev.via = "webhook" THEN Goto(h, "ack") ELSE Stop(h)
          /\ UNCHANGED faults
       \/ /\ Fault
          /\ IF At(h, "settle") THEN Throw(h) ELSE Stop(h)
          /\ \E arrived \in BOOLEAN : Finish(ev, arrived)
    /\ UNCHANGED <<World, due, Money, row>>

(* Unfulfillable: the provider is answered 200, and the receipt stays open *)
(* for the operator (fn_paid_unfulfilled).                                 *)
Refuse(h) ==
    /\ At(h, "refuse")
    /\ \/ Goto(h, "ack") /\ UNCHANGED faults
       \/ Fault /\ Stop(h)
    /\ Finish(run[h].ev, FALSE)
    /\ UNCHANGED <<World, due, Money, row>>

(* Mutants of Fail: the receipt is closed; the provider is answered 200.   *)
FailClosed(h) ==
    /\ At(h, "fail")
    /\ Finish(run[h].ev, TRUE)
    /\ due' = due \ {run[h].ev}
    /\ Stop(h)
    /\ UNCHANGED <<World, Money, row, faults>>

FailAccepted(h) ==
    /\ At(h, "fail")
    /\ Finish(run[h].ev, FALSE)
    /\ due' = due \ {run[h].ev}
    /\ Stop(h)
    /\ UNCHANGED <<World, Money, row, faults>>

(* The error is written on the receipt, if it can be, and answered 500.    *)
Fail(h) ==
    /\ At(h, "fail")
    /\ Finish(run[h].ev, FALSE)
    /\ Stop(h)
    /\ UNCHANGED <<World, due, Money, row, faults>>

(* 200, unless it is lost on the way.                                      *)
Ack(h) ==
    /\ At(h, "ack")
    /\ \/ due' = due \ {run[h].ev} /\ UNCHANGED faults
       \/ Fault /\ UNCHANGED due
    /\ Stop(h)
    /\ UNCHANGED <<World, receipts, Money, row>>

Crash(h) ==
    /\ ~At(h, "idle")
    /\ Fault
    /\ Stop(h)
    /\ UNCHANGED <<World, due, receipts, Money, row>>

-----------------------------------------------------------------------------
(* The world outside                                                       *)

(* The customer pays for a pack, or for the period that begins.            *)
Buy ==
    \E p \in Payments \ bought :
      /\ Terms[p].kind = "subscription" => Terms[p].end = clock + 1
      /\ bought' = bought \cup {p}
      /\ due' = due \cup {Webhook([type |-> "grant", pay |-> p])}
                    \cup (IF Terms[p].source = "stripe" /\ Terms[p].kind = "subscription"
                          THEN {Webhook([type |-> "changed", pay |-> p])} ELSE {})
      /\ stripe' = IF Terms[p].source = "stripe" /\ Terms[p].kind = "subscription"
                   THEN [end |-> Terms[p].end, alive |-> TRUE] ELSE stripe
      /\ UNCHANGED <<clock, refunded, receipts, Money, row, run, faults>>

(* Apple gives a payment back.                                             *)
GiveBack ==
    \E p \in (bought \cap Of("apple")) \ refunded :
      /\ refunded' = refunded \cup {p}
      /\ due' = due \cup {Webhook([type |-> "refund", pay |-> p])}
      /\ UNCHANGED <<clock, bought, stripe, receipts, Money, row, run, faults>>

(* A period goes by: what was paid to its end lapses, and is told of.      *)
Tick ==
    LET over == {p \in bought \cap Subscriptions : Terms[p].end = clock + 1} IN
    /\ clock < MaxClock
    /\ clock' = clock + 1
    /\ due' = due \cup {Webhook([type |-> "ended", pay |-> p]) : p \in over \cap Of("apple")}
    /\ UNCHANGED <<bought, refunded, stripe, receipts, Money, row, run, faults>>

(* Stripe ends the subscription at its period's end, unpaid or cancelled.  *)
Lapse ==
    /\ stripe.alive /\ stripe.end <= clock
    /\ stripe' = [stripe EXCEPT !.alive = FALSE]
    /\ due' = due \cup {Webhook([type |-> "changed", pay |-> p]) :
                         p \in {q \in bought \cap Subscriptions \cap Of("stripe") :
                                  Terms[q].end = stripe.end}}
    /\ UNCHANGED <<clock, bought, refunded, receipts, Money, row, run, faults>>

(* A generation is charged to the plan bucket.                             *)
Spend ==
    /\ plan > 0
    /\ plan' = plan - 1
    /\ UNCHANGED <<World, due, receipts, txns, entries, row, run, faults>>

-----------------------------------------------------------------------------

Handle(h) ==
    \/ Open(h) \/ Retrieve(h) \/ Mirror(h) \/ LookUpPack(h)
    \/ LookAtPurchase(h) \/ LookAtRefund(h) \/ SetStatus(h)
    \/ Fulfil(h) \/ Close(h) \/ Refuse(h) \/ Fail(h) \/ Ack(h)

Next ==
    \/ \E h \in Runs : Deliver(h) \/ Reconcile(h) \/ Handle(h) \/ Crash(h)
    \/ Buy \/ GiveBack \/ Tick \/ Lapse \/ Spend

Spec == Init /\ [][Next]_vars

(* The provider retries what was not answered 200, and a handler's calls   *)
(* return.                                                                 *)
Fairness ==
    /\ \A ev \in Webhooks : SF_vars(\E h \in Runs : Deliver(h) /\ run'[h].ev = ev)
    /\ \A h \in Runs : WF_vars(Handle(h))

FairSpec == Spec /\ Fairness

-----------------------------------------------------------------------------
(* Safety                                                                  *)

(* A payment moves the balance once, and so does its refund, whichever     *)
(* deliveries bring it, at once or again.                                  *)
MoneyMovesOnce == \A d \in Deeds : entries[d] <= 1

Settled(d) == txns[Client(d)] # "none"

(* What a handler may close without a transaction: a purchase refunded or  *)
(* lapsed before it was granted, the refund of what Stripe pays for now.   *)
OwesNothing(d) ==
    /\ Terms[d.pay].source = "apple"
    /\ IF d.type = "grant" THEN d.pay \in refunded \/ Expired(d.pay)
                           ELSE Terms[d.pay].kind = "subscription" /\ row.stripe

Happened(d) == d.pay \in (IF d.type = "grant" THEN bought ELSE refunded)

(* Verified money is never lost from sight: it is still being retried by   *)
(* the provider, or on an open receipt that fn_paid_unfulfilled reports,   *)
(* or settled.                                                             *)
NothingIsLost ==
    \A d \in Deeds : Happened(d) =>
        \/ Webhook(d) \in due
        \/ receipts[Webhook(d)] = "open"
        \/ Settled(d)
        \/ OwesNothing(d)

(* fn_apply_fulfillment: a late invoice of an older period never grants    *)
(* again what a newer one has granted since.                               *)
LateCycleIsRefused ==
    [][\A p, q \in Subscriptions \cap Of("stripe") :
         LET key(x) == Client([type |-> "grant", pay |-> x]) IN
         /\ txns[key(p)] = "none" /\ txns'[key(p)] = "applied"
         /\ txns[key(q)] = "applied"
         => Terms[q].end <= Terms[p].end]_vars

(* iap-grants.ts: the end of an App Store subscription leaves alone the    *)
(* row that Stripe pays for past it.                                       *)
AppleLeavesStripeRow ==
    [][row.stripe /\ row.status = "active" /\ row'.status = "expired" =>
         \/ \E h \in Runs : At(h, "mirror") /\ run'[h] # run[h]
         \/ \E p \in bought \cap Subscriptions \cap Of("apple") : Terms[p].end >= row.end]_vars

-----------------------------------------------------------------------------
(* Liveness                                                                *)

(* A pack paid for at Stripe is granted.                                   *)
PaidPackIsGranted ==
    \A p \in Of("stripe") \ Subscriptions :
        p \in bought ~> txns[Client([type |-> "grant", pay |-> p])] = "applied"
=============================================================================
