----------------------------- MODULE TicketCounts -----------------------------
(***************************************************************************)
(* What the sale does to the three numbers a raffle's inventory is made    *)
(* of: the count of reserved tickets, the count of assigned ones, and the  *)
(* soldTickets the raffle shows.  Purchase implements this specification   *)
(* and AdminPanel reads the numbers while it goes on.                      *)
(***************************************************************************)
EXTENDS Integers

CONSTANT Limit   \* how many tickets there can be: one for each number

VARIABLES reserved, assigned, sold

countVars == <<reserved, assigned, sold>>

Init == reserved = 0 /\ assigned = 0 /\ sold = 0

\* An order reserves tickets; nothing keeps their number below the raffle's totalTickets.
Reserve(k) ==
    /\ reserved + assigned + k <= Limit
    /\ reserved' = reserved + k
    /\ UNCHANGED <<assigned, sold>>

\* Reserved tickets of an order are assigned ...
Assign(k) ==
    /\ k <= reserved
    /\ reserved' = reserved - k
    /\ assigned' = assigned + k
    /\ UNCHANGED sold

\* ... or released.  No assigned ticket ever is.
Release(k) ==
    /\ k <= reserved
    /\ reserved' = reserved - k
    /\ UNCHANGED <<assigned, sold>>

\* soldTickets is set to a count of assigned tickets made earlier.
SetSold(k) ==
    /\ k <= assigned
    /\ sold' = k
    /\ UNCHANGED <<reserved, assigned>>

Next == \E k \in 0..Limit : Reserve(k) \/ Assign(k) \/ Release(k) \/ SetSold(k)

Spec == Init /\ [][Next]_countVars
===============================================================================
