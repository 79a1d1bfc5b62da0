-------------------------- MODULE MCSubscriptions --------------------------
(* Instances of Subscriptions for TLC: the provider's events about the      *)
(* first row, among them a failure it repeats, and one about the second.    *)
EXTENDS Subscriptions, TLC

Event(id, type, row, end) == [id |-> id, type |-> type, row |-> row, period_end |-> end]

MCEvents == {Event(1, "payment_failed", 1, None),
             Event(2, "payment_succeeded", 1, 3),
             Event(3, "payment_failed", 1, None),
             Event(4, "payment_failed", 2, None)}

Symmetry == Permutations(Deliveries) \cup Permutations(Cancels)
=============================================================================
