------------------------------ MODULE PlanChanges ------------------------------
(***************************************************************************)
(* A customer's subscription between Stripe, the App Store and our mirror  *)
(* of it: checkout, plan changes, cancellation, resumption and the closing *)
(* of the account (routes/billing-checkout.ts, billing-subscription.ts,    *)
(* services/accounts.ts, subscription-source.ts, account-closure.ts), the  *)
(* webhook that mirrors Stripe (stripe-webhook/handler.ts), and what the   *)
(* billing tab offers (billing-tab.ts, plan-change-dialog.ts).             *)
(*                                                                         *)
(* One customer.  A step is one call to Stripe or to the database; Stripe  *)
(* changes the subscription between any two.  Credits are                  *)
(* BillingFulfillment's.  The switches below are what the code does not    *)
(* survive: each is FALSE where a property is to hold (see the README).    *)
(***************************************************************************)
EXTENDS Integers, FiniteSets

CONSTANTS
    Customers, Subs, Nobody,
    MaxAsks,   \* requests of the customer
    MaxTurns,      \* changes Stripe makes of itself
    LossyRoutes,   \* calls that fail unnoticed or halfway, or straddle a renewal
    StaleSessions, \* a checkout left open is paid too, or before old events came
    BookedEnds     \* dunning ends one with a change booked, or under a request

VARIABLES
    customer,  \* profiles.stripe_customer_id
    subs,      \* Stripe's subscriptions
    sessions,  \* open checkouts
    row,       \* the customer's row of subscriptions
    paying,    \* grants that were applied and not refunded, by rail and period
    apple,     \* the App Store's subscription: never, lapsed or live
    due,       \* Stripe's events the webhook has not answered 200
    tab, hook, \* the request and the event being handled
    coupons,   \* launch offers given away
    closed,    \* the account
    requests, turns

planVars == <<customer, subs, sessions, row, paying, apple, due, tab, hook, coupons,
              closed, requests, turns>>

(* What the code's own constants satisfy.                                  *)
ConstantsFit == Nobody \notin Customers \cup Subs

Plans == {"studio", "pro"}
None == [of |-> Nobody, plan |-> "studio", status |-> "none", ending |-> FALSE,
         booked |-> "none"]
NoTab == [at |-> "idle", kind |-> "none", plan |-> "none", when |-> "none",
          customer |-> Nobody, sub |-> Nobody, left |-> {}]
NoHook == [at |-> "idle", sub |-> Nobody, type |-> "none", saw |-> None, clear |-> FALSE]

(* A newcomer, or one who subscribed with their first request.             *)
Init ==
    /\ apple \in {"never", "lapsed"}
    /\ LET fresh == [plan |-> "none", status |-> IF apple = "lapsed" THEN "expired" ELSE "none",
                     stripe |-> Nobody, apple |-> apple = "lapsed", pending |-> "none"] IN
       \/ /\ customer = Nobody /\ row = fresh /\ paying = {} /\ coupons = 0
          /\ subs = [s \in Subs |-> None]
       \/ \E c \in Customers, s \in Subs, bought \in Plans :
            /\ s = CHOOSE new \in Subs : TRUE
            /\ customer = c
            /\ row = [fresh EXCEPT !.plan = bought, !.status = "active", !.stripe = s]
            /\ paying = {[rail |-> "stripe", end |-> 0, last |-> TRUE]}
            /\ coupons = IF apple = "lapsed" THEN 0 ELSE 1
            /\ subs = [[new \in Subs |-> None] EXCEPT ![s] =
                         [None EXCEPT !.of = c, !.plan = bought, !.status = "active"]]
    /\ sessions = {} /\ due = {} /\ tab = NoTab /\ hook = NoHook
    /\ closed = FALSE /\ requests = 0 /\ turns = 0

stripeVars == <<subs, due>>
env == <<apple, paying, turns>>

-----------------------------------------------------------------------------
(* Which rail pays.                                                        *)

Latest == {g \in paying : \A h \in paying : h.end <= g.end}

(* Newer wins; of two grants of one period, the one applied last.          *)
currentGrantRail ==
    IF paying = {} THEN "none"
    ELSE (CHOOSE g \in Latest : g.last \/ \A h \in Latest : ~h.last).rail

railOf(grant) ==
    IF row.status = "none" THEN "none"
    ELSE IF ~row.apple THEN "stripe"
    ELSE IF row.stripe = Nobody THEN "app_store"
    ELSE IF grant = "apple" THEN "app_store" ELSE "stripe"

subscriptionSource == railOf(currentGrantRail)
appStoreOnly == row.stripe = Nobody /\ railOf("none") = "app_store"
isEntitled == row.status \in {"active", "canceled"}

-----------------------------------------------------------------------------
(* Stripe.                                                                 *)

Live(sub) == sub.status \in {"active", "past_due"}
Of(c) == {s \in Subs : subs[s].of = c}

(* Mutant of Billing: only what is paid up counts.                         *)
ActiveOnly(c) == {s \in Of(c) : subs[s].status = "active"}

(* What can still take money: wider than what entitles.                    *)
Billing(c) == {s \in Of(c) : Live(subs[s]) \/ subs[s].status = "unpaid"}

(* Every change of a subscription is announced.                            *)
Becomes(s, sub, types) ==
    /\ subs' = [subs EXCEPT ![s] = sub]
    /\ due' = due \cup {[sub |-> s, type |-> type] : type \in types}

Goes(t) == tab' = t
Go(step) == Goes([tab EXCEPT !.at = step])
Answered == Goes(NoTab)

-----------------------------------------------------------------------------
(* Requests.  Any client may send any of them; the web's dialogs offer     *)
(* fewer.  A plan the App Store pays is not sold again, nor managed here.  *)

TurnedAway(kind) ==
    CASE kind = "subscribe" -> subscriptionSource = "app_store" /\ isEntitled
      [] kind = "close" -> FALSE
      [] OTHER -> appStoreOnly

(* A read that fails reads as no customer, and a write that fails is not   *)
(* looked at.  A closure asks Stripe nothing for a customer it cannot see. *)
stripeCustomerFor(t) ==
    \E seen \in {customer} \cup (IF LossyRoutes THEN {Nobody} ELSE {}) :
      IF seen # Nobody
        THEN Goes([t EXCEPT !.at = "list", !.customer = seen]) /\ UNCHANGED customer
      ELSE IF t.kind = "close" THEN Goes([t EXCEPT !.at = "record"]) /\ UNCHANGED customer
      ELSE \E new \in Customers :
             /\ Of(new) = {} /\ new # customer
             /\ Goes([t EXCEPT !.at = "list", !.customer = new])
             /\ customer' \in {new} \cup (IF LossyRoutes THEN {customer} ELSE {})

Ask(kind, to, when) ==
    /\ tab.at = "idle" /\ ~closed /\ requests < MaxAsks
    /\ ~TurnedAway(kind)
    /\ requests' = requests + 1
    /\ stripeCustomerFor([NoTab EXCEPT !.kind = kind, !.plan = to, !.when = when])
    /\ UNCHANGED <<stripeVars, sessions, row, env, hook, coupons, closed>>

(* A first subscription is cheaper, unless Apple had its turn.             *)
FirstTime == Of(tab.customer) = {} /\ ~row.apple

subscribe ==
    /\ tab.at = "list" /\ tab.kind = "subscribe"
    /\ IF Billing(tab.customer) # {} THEN UNCHANGED sessions
       ELSE sessions' = sessions \cup {[of |-> tab.customer, plan |-> tab.plan,
                                        coupon |-> FirstTime]}
    /\ Answered
    /\ UNCHANGED <<customer, stripeVars, row, env, hook, coupons, closed, requests>>

(* change-plan, from what Stripe just listed.                              *)
Refused(sub) ==
    \/ sub.plan = tab.plan
    \/ sub.plan = "pro" /\ tab.plan = "studio" /\ tab.when = "now"
    \/ tab.when = "period_end" /\ (sub.ending \/ sub.booked # "none")

(* A schedule manages what it manages: it goes first.                      *)
ReleaseFirst(sub) == IF sub.booked # "none" THEN "release" ELSE "update"

Listed(kind) ==
    /\ tab.at = "list" /\ tab.kind = kind
    /\ UNCHANGED <<customer, stripeVars, sessions, row, env, hook, coupons, closed, requests>>

live == {s \in Of(tab.customer) : Live(subs[s])}

(* The route goes on with the subscription it found.                       *)
Take(s, step) ==
    Goes([tab EXCEPT !.at = step, !.sub = s, !.when = "none", !.customer = Nobody])

change_plan ==
    /\ Listed("change")
    /\ \/ live = {} /\ Answered
       \/ \E s \in live :
            IF Refused(subs[s]) THEN Answered
            ELSE Take(s, IF tab.when = "period_end" THEN "book" ELSE ReleaseFirst(subs[s]))

cancel ==
    /\ Listed("cancel")
    /\ \/ live = {} /\ Answered
       \/ \E s \in live : IF subs[s].ending THEN Answered ELSE Take(s, ReleaseFirst(subs[s]))

(* What is not ending is put right in our row alone.                       *)
resume ==
    /\ Listed("resume")
    /\ \/ live = {} /\ Answered
       \/ \E s \in live : Take(s, IF subs[s].ending THEN "update" ELSE "mirror")

release ==
    /\ tab.at = "release"
    /\ LET sub == subs[tab.sub] IN
       IF sub.booked = "none" THEN Answered /\ UNCHANGED stripeVars
       ELSE Becomes(tab.sub, [sub EXCEPT !.booked = "none"], {"changed"}) /\ Go("update")
    /\ UNCHANGED <<customer, sessions, row, env, hook, coupons, closed, requests>>

(* Stripe refuses to change what a schedule manages, or what is over.      *)
update ==
    LET sub == subs[tab.sub] IN
    /\ tab.at = "update"
    /\ IF sub.booked # "none" \/ ~Live(sub) THEN Answered /\ UNCHANGED stripeVars
       ELSE /\ Becomes(tab.sub,
                 CASE tab.kind = "change" -> [sub EXCEPT !.plan = tab.plan, !.ending = FALSE]
                   [] tab.kind = "cancel" -> [sub EXCEPT !.ending = TRUE]
                   [] tab.kind = "resume" -> [sub EXCEPT !.ending = FALSE],
                 IF tab.kind = "change" THEN {"changed", "paid"} ELSE {"changed"})
            /\ Go("mirror")
    /\ UNCHANGED <<customer, sessions, row, env, hook, coupons, closed, requests>>

(* Mutant of ForgetsBooking: a cancellation leaves the booked change.      *)
NowForgetsBooking == tab.kind = "change"

ForgetsBooking == tab.kind \in {"change", "cancel"}

(* Only credits wait for the webhook.                                      *)
mirror ==
    /\ tab.at = "mirror"
    /\ row' = IF row.status = "none" THEN row
              ELSE [row EXCEPT !.plan = IF tab.kind = "change" THEN tab.plan ELSE @,
                               !.status = IF tab.kind = "cancel" THEN "canceled" ELSE "active",
                               !.stripe = IF tab.kind = "change" THEN tab.sub ELSE @,
                               !.pending = IF ForgetsBooking THEN "none" ELSE @]
    /\ Answered
    /\ UNCHANGED <<customer, stripeVars, sessions, env, hook, coupons, closed, requests>>

(* A schedule is created over the present phase and then given the next.   *)
Bookable(sub) == Live(sub) /\ sub.booked = "none" /\ ~sub.ending

book ==
    LET sub == subs[tab.sub] IN
    /\ tab.at = "book"
    /\ IF Bookable(sub)
         THEN Becomes(tab.sub, [sub EXCEPT !.booked = sub.plan], {"changed"}) /\ Go("phases")
         ELSE UNCHANGED stripeVars /\ Answered
    /\ UNCHANGED <<customer, sessions, row, env, hook, coupons, closed, requests>>

phases ==
    LET sub == subs[tab.sub] IN
    /\ tab.at = "phases"
    /\ IF Live(sub) /\ sub.booked # "none"
         THEN Becomes(tab.sub, [sub EXCEPT !.booked = tab.plan], {"changed"}) /\ Go("promise")
         ELSE UNCHANGED stripeVars /\ Answered
    /\ UNCHANGED <<customer, sessions, row, env, hook, coupons, closed, requests>>

promise ==
    /\ tab.at = "promise"
    /\ row' = IF row.status = "none" THEN row ELSE [row EXCEPT !.pending = tab.plan]
    /\ Answered
    /\ UNCHANGED <<customer, stripeVars, sessions, env, hook, coupons, closed, requests>>

(* Any call to Stripe may fail; halfway, nothing is undone.                *)
CallFails ==
    /\ tab.at \in {"list", "book"} \cup
         (IF LossyRoutes THEN {"release", "update", "mirror", "phases", "promise"} ELSE {})
    /\ Answered
    /\ UNCHANGED <<customer, stripeVars, sessions, row, env, hook, coupons, closed, requests>>

(* The closing account: whatever can still bill is ended first.            *)
reconcileStripeSubscriptions ==
    /\ tab.kind = "close"
    /\ \/ /\ tab.at = "list"
          /\ Goes([tab EXCEPT !.at = "end", !.customer = Nobody,
                                 !.left = Billing(tab.customer)])
          /\ UNCHANGED stripeVars
       \/ /\ tab.at = "end" /\ tab.left = {} /\ Go("record") /\ UNCHANGED stripeVars
       \/ \E s \in tab.left :
            /\ tab.at = "end"
            /\ Becomes(s, [subs[s] EXCEPT !.status = "ended", !.booked = "none"], {"changed"})
            /\ Goes([tab EXCEPT !.left = @ \ {s}])
    /\ UNCHANGED <<customer, sessions, row, env, hook, coupons, closed, requests>>

deleteAccount ==
    /\ tab.at = "record"
    /\ closed' = TRUE /\ Answered
    /\ sessions' = IF StaleSessions THEN sessions ELSE {}
    /\ UNCHANGED <<customer, stripeVars, row, env, hook, coupons, requests>>

-----------------------------------------------------------------------------
(* Stripe, its hosted pages and the App Store.                             *)

(* The customer pays at Stripe; a checkout they left open is not paid too, *)
(* and no event of an earlier subscription is still to come.               *)
PaySession(session, s) ==
    /\ session \in sessions
    /\ subs[s].status = "none" /\ s = CHOOSE new \in Subs : subs[new].status = "none"
    /\ StaleSessions \/ (tab.at = "idle" /\ hook.at = "idle" /\ due = {})
    /\ sessions' = IF StaleSessions THEN sessions \ {session} ELSE {}
    /\ Becomes(s, [None EXCEPT !.of = session.of, !.plan = session.plan, !.status = "active"],
               {"checkout", "paid"})
    /\ coupons' = coupons + IF session.coupon THEN 1 ELSE 0
    /\ UNCHANGED <<customer, row, env, tab, hook, closed, requests>>

(* A period ends; not while a change is being booked.                      *)
Renews(s) ==
    LET sub == subs[s] IN
    /\ Live(sub) /\ turns < MaxTurns /\ turns' = turns + 1
    /\ LossyRoutes \/ tab.at \notin {"phases", "promise"}
    /\ IF sub.ending
         THEN Becomes(s, [sub EXCEPT !.status = "ended"], {"changed"})
         ELSE Becomes(s, [sub EXCEPT !.plan = IF sub.booked = "none" THEN @ ELSE sub.booked,
                                     !.booked = "none", !.status = "active"],
                      {"changed", "paid"})
    /\ UNCHANGED <<customer, sessions, row, paying, apple, tab, hook, coupons, closed, requests>>

(* The card fails, again and again.                                        *)
PaymentFails(s) ==
    LET sub == subs[s] IN
    /\ \/ /\ sub.status = "active" /\ turns < MaxTurns /\ turns' = turns + 1
          /\ Becomes(s, [sub EXCEPT !.status = "past_due"], {"changed"})
       \/ /\ sub.status = "past_due" /\ UNCHANGED turns
          /\ BookedEnds \/ (sub.booked = "none" /\ tab.at # "update")
          /\ \E status \in {"unpaid", "ended"} :
               Becomes(s, [sub EXCEPT !.status = status, !.booked = "none"], {"changed"})
    /\ UNCHANGED <<customer, sessions, row, paying, apple, tab, hook, coupons, closed, requests>>

Applied(rail) ==
    paying' = {[g EXCEPT !.last = FALSE] : g \in {h \in paying : h.rail # rail}}
                \cup {[rail |-> rail, end |-> turns, last |-> TRUE]}

(* What the end of an App Store subscription does is BillingFulfillment's.  *)
AppStoreBuys ==
    /\ ~closed /\ apple # "live" /\ apple' = "live"
    /\ Applied("apple")
    /\ row' = [row EXCEPT !.plan = "studio", !.status = "active", !.apple = TRUE]
    /\ UNCHANGED <<customer, stripeVars, sessions, tab, hook, coupons, closed, requests, turns>>

-----------------------------------------------------------------------------
(* The webhook.                                                            *)

(* It fetches the subscription; what the event carries is not trusted.     *)
Deliver(event) ==
    /\ hook.at = "idle" /\ event \in due
    /\ due' = due \ {event}
    /\ LET sub == subs[event.sub] IN
       hook' = IF event.type = "paid" /\ ~Live(sub) THEN NoHook
               ELSE [at |-> "read", sub |-> event.sub, type |-> event.type, saw |-> sub,
                     clear |-> FALSE]
    /\ UNCHANGED <<customer, subs, sessions, row, env, tab, coupons, closed, requests>>

(* It mirrors the subscription, and leaves a pending change as it is.      *)
handleCheckout == hook.type = "checkout"

pendingDone ==
    /\ hook.at = "read"
    /\ hook' = [hook EXCEPT !.at = "write", !.clear =
                  ~handleCheckout /\ row.pending = hook.saw.plan]
    /\ UNCHANGED <<customer, stripeVars, sessions, row, env, tab, coupons, closed, requests>>

stripeEntitlement(sub) ==
    IF ~Live(sub) THEN "expired" ELSE IF sub.ending THEN "canceled" ELSE "active"

Mirror ==
    /\ hook.at = "write"
    /\ row' = [row EXCEPT !.plan = hook.saw.plan, !.status = stripeEntitlement(hook.saw),
                          !.stripe = hook.sub,
                          !.pending = IF hook.clear THEN "none" ELSE @]
    /\ IF hook.type = "paid" THEN Applied("stripe") ELSE UNCHANGED paying
    /\ hook' = NoHook
    /\ UNCHANGED <<customer, stripeVars, sessions, apple, turns, tab, coupons, closed, requests>>

(* Anything that fails is answered 500 and sent again.                     *)
HookFails ==
    /\ hook.at \in {"read", "write"}
    /\ due' = due \cup {[sub |-> hook.sub, type |-> hook.type]}
    /\ hook' = NoHook
    /\ UNCHANGED <<customer, subs, sessions, row, env, tab, coupons, closed, requests>>

Next ==
    \/ \E plan \in Plans :
         \/ Ask("subscribe", plan, "none")
         \/ \E when \in {"now", "period_end"} : Ask("change", plan, when)
    \/ \E kind \in {"cancel", "resume", "close"} : Ask(kind, "none", "none")
    \/ (subscribe \/ change_plan \/ cancel \/ resume \/ release \/ update \/ mirror
          \/ book \/ phases \/ promise \/ CallFails \/ reconcileStripeSubscriptions) /\ UNCHANGED turns
    \/ deleteAccount
    \/ \E s \in Subs :
         \/ \E session \in sessions : PaySession(session, s)
         \/ Renews(s) \/ PaymentFails(s)
    \/ AppStoreBuys
    \/ \E event \in due : Deliver(event)
    \/ pendingDone \/ Mirror \/ HookFails

Spec == Init /\ [][Next]_planVars

-----------------------------------------------------------------------------
(* The billing tab, just loaded.                                           *)

plan == IF isEntitled THEN row.plan ELSE "none"
managedInAppStore == subscriptionSource = "app_store"

EmptyOverview == appStoreOnly

stripeLive == ~EmptyOverview /\ \E s \in Of(customer) : Live(subs[s])
overviewEnding == stripeLive /\ \E s \in Of(customer) : Live(subs[s]) /\ subs[s].ending
twoSubscriptions == managedInAppStore /\ stripeLive
stripeControls == ~managedInAppStore \/ stripeLive
canceledPending == row.status = "canceled" /\ plan # "none"
stripeEnding == IF twoSubscriptions THEN overviewEnding ELSE canceledPending

AtRest == tab.at = "idle" /\ hook.at = "idle" /\ due = {}

(* One subscription at a time bills the customer, none bills a closed      *)
(* account, and the launch offer is given once, whatever order checkouts,  *)
(* dunning, webhooks and the App Store come in: the guards ask Stripe.     *)
BilledOnce ==
    /\ Cardinality({s \in Subs : Live(subs[s]) \/ subs[s].status = "unpaid"})
         <= IF closed THEN 0 ELSE 1
    /\ coupons <= 1

(* Whoever Stripe bills is offered to cancel or resume it, whichever fits, *)
(* even while the App Store bills them as well.                            *)
BilledIsCancellable ==
    AtRest => \A s \in Subs : Live(subs[s]) =>
        plan # "none" /\ stripeControls /\ (stripeEnding <=> subs[s].ending)

(* Both: Stripe bills a customer once, for what they can put an end to.    *)
BillsAreOurs == BilledOnce /\ BilledIsCancellable

(* A change announced for the renewal is booked with Stripe.               *)
PendingIsScheduled ==
    AtRest /\ ~closed /\ row.pending # "none" => \E s \in Subs : subs[s].booked = row.pending
=============================================================================
