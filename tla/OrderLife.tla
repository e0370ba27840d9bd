------------------------------ MODULE OrderLife ------------------------------
(***************************************************************************)
(* What a buyer's page may count on of an order, whatever webhooks and     *)
(* sweepers do: it is made once, pending; it expires only while it is      *)
(* pending; and it is paid or failed only by a save begun while it was     *)
(* pending and had a checkout.  A save that is overtaken still happens: it *)
(* turns a closed order into a paid one, or a paid one into a failed one,  *)
(* but once no save is on its way a closed order stays closed.             *)
(* Purchase implements this specification, and Storefront follows orders   *)
(* that live by it.                                                        *)
(***************************************************************************)
CONSTANT Orders

VARIABLES
    order,       \* the status of each order; "absent" is: not created
    checkouts,   \* the orders for which a checkout was opened
    saving       \* the orders that a webhook found pending and is about to save

lifeVars == <<order, checkouts, saving>>

Init ==
    /\ order = [o \in Orders |-> "absent"]
    /\ checkouts = {}
    /\ saving = {}

Become(o, status) == order' = [order EXCEPT ![o] = status]

Create(o) ==
    /\ order[o] = "absent"
    /\ Become(o, "pending_payment")
    /\ UNCHANGED <<checkouts, saving>>

OpenCheckout(o) ==
    /\ order[o] = "pending_payment"
    /\ checkouts' = checkouts \cup {o}
    /\ UNCHANGED <<order, saving>>

Expire(o) ==
    /\ order[o] = "pending_payment"
    /\ Become(o, "expired")
    /\ UNCHANGED <<checkouts, saving>>

\* markPaid or markFailed of a webhook reads the order ...
Load(o) ==
    /\ order[o] = "pending_payment"
    /\ o \in checkouts
    /\ saving' = saving \cup {o}
    /\ UNCHANGED <<order, checkouts>>

\* ... and saves it, whatever it has become.  Another save of it may still be on its way.
Save(o) ==
    /\ o \in saving
    /\ \E status \in {"paid", "failed"} : Become(o, status)
    /\ saving' \in {saving, saving \ {o}}
    /\ UNCHANGED checkouts

GiveUp(o) ==
    /\ saving' = saving \ {o}
    /\ UNCHANGED <<order, checkouts>>

\* What goes on without the buyer.
Settle(o) == Expire(o) \/ Load(o) \/ Save(o) \/ GiveUp(o)

Next == \E o \in Orders : Create(o) \/ OpenCheckout(o) \/ Settle(o)

Spec == Init /\ [][Next]_lifeVars
===============================================================================
