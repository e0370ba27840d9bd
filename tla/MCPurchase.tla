----------------------------- MODULE MCPurchase -----------------------------
\* Small instances of Purchase for TLC: two orders, the first with two payment
\* references, so that a retried checkout meets the sweeper and the other buyer.
EXTENDS Purchase, TLC

CONSTANTS o1, o2, p1, p3

QtyOne == [o \in Orders |-> 1]
QtyTwoOne == (o1 :> 2) @@ (o2 :> 1)

PayTwoOne == [p \in Payments |-> IF p = p3 THEN o2 ELSE o1]

\* Every payment may be approved ...
Approvals == Payments \X {"APPROVED"}

\* ... or the first reference is declined and the buyer's second one approved.
DeclinedThenApproved ==
    {<<p1, "DECLINED">>} \cup {<<p, "APPROVED">> : p \in Payments \ {p1}}

Symmetry == Permutations(Numbers) \cup Permutations(Hooks)
=============================================================================
