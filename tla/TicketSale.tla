------------------------------ MODULE TicketSale ------------------------------
(***************************************************************************)
(* What the sale promises about numbers, whatever the handlers, sweepers   *)
(* and webhooks do: an order is served once, with numbers nobody holds; it *)
(* then either buys all of them or gives all of them back, and a number    *)
(* bought stays with its order.  Purchase implements this specification.   *)
(***************************************************************************)
CONSTANTS Orders, Numbers

VARIABLES
    holder,   \* {o} for the order that holds a number, {} for nobody
    bought,   \* the numbers sold for good
    served    \* the orders that have been given numbers

saleVars == <<holder, bought, served>>

Held(o) == {n \in Numbers : holder[n] = {o}}

Init ==
    /\ holder = [n \in Numbers |-> {}]
    /\ bought = {}
    /\ served = {}

Take(o, chosen) ==
    /\ o \notin served
    /\ chosen # {}
    /\ \A n \in chosen : holder[n] = {}
    /\ holder' = [n \in Numbers |-> IF n \in chosen THEN {o} ELSE holder[n]]
    /\ served' = served \cup {o}
    /\ UNCHANGED bought

BuyAll(o) ==
    /\ Held(o) # {}
    /\ Held(o) \cap bought = {}
    /\ bought' = bought \cup Held(o)
    /\ UNCHANGED <<holder, served>>

GiveBackAll(o) ==
    /\ Held(o) # {}
    /\ Held(o) \cap bought = {}
    /\ holder' = [n \in Numbers |-> IF holder[n] = {o} THEN {} ELSE holder[n]]
    /\ UNCHANGED <<bought, served>>

Next ==
    \E o \in Orders :
        \/ \E chosen \in SUBSET Numbers : Take(o, chosen)
        \/ BuyAll(o)
        \/ GiveBackAll(o)

Spec == Init /\ [][Next]_saleVars
===============================================================================
