------------------------ MODULE MCBillingFulfillment ------------------------
(* Bounds for TLC: payments of one customer, of either provider.           *)
EXTENDS BillingFulfillment, TLC

CONSTANTS h1, h2, in_1, in_2, cs_1, tx_1, tx_2

MCRuns == {h1, h2}

Term(source, kind, end, credits, upgrade) ==
    [source |-> source, kind |-> kind, end |-> end, credits |-> credits,
     upgrade |-> upgrade]

AllTerms ==
    in_1 :> Term("stripe", "subscription", 1, 1, FALSE)
      @@ in_2 :> Term("stripe", "subscription", 2, 2, TRUE)
      @@ cs_1 :> Term("stripe", "pack", 0, 1, FALSE)
      @@ tx_1 :> Term("apple", "subscription", 1, 1, FALSE)
      @@ tx_2 :> Term("apple", "pack", 0, 1, FALSE)

(* An App Store period, the Stripe period the customer also paid, and the  *)
(* next one, on a larger plan.                                             *)
CyclePayments == {tx_1, in_1, in_2}
CycleTerms == [p \in CyclePayments |-> AllTerms[p]]

(* The App Store period and the Stripe one the customer moves to.          *)
MovingPayments == {tx_1, in_2}
MovingTerms == [p \in MovingPayments |-> AllTerms[p]]

(* A Stripe and an App Store pack.                                         *)
PackPayments == {cs_1, tx_2}
PackTerms == [p \in PackPayments |-> AllTerms[p]]

Symmetry == Permutations(MCRuns)
=============================================================================
