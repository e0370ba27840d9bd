------------------------------- MODULE DrawLife -------------------------------
(***************************************************************************)
(* The statuses a prize draw goes through, whoever changes it: created     *)
(* once, it is never scheduled again after it has been drawn or cancelled, *)
(* and a drawn one is cancelled only by a request that had found it not    *)
(* yet drawn.  PrizeSettlement implements this specification; AdminPanel   *)
(* lives with administrators elsewhere who do what it allows, and adds     *)
(* nothing to it.                                                          *)
(***************************************************************************)
CONSTANT Draws

VARIABLES
    status,       \* of each draw; "absent" is: not created
    cancelling    \* the draws that a request has found fit to be cancelled

lifeVars == <<status, cancelling>>

Statuses == {"absent", "scheduled", "drawn", "cancelled"}

Init ==
    /\ status = [d \in Draws |-> "absent"]
    /\ cancelling = {}

Become(d, next) == status' = [status EXCEPT ![d] = next]

Schedule(d) ==
    /\ status[d] = "absent"
    /\ Become(d, "scheduled")
    /\ UNCHANGED cancelling

\* The status of a draw that is settled is not looked at.
Settle(d) ==
    /\ status[d] # "absent"
    /\ Become(d, "drawn")
    /\ UNCHANGED cancelling

FindForCancel(d) ==
    /\ status[d] \in {"scheduled", "cancelled"}
    /\ cancelling' = cancelling \cup {d}
    /\ UNCHANGED status

\* Another request may still be about to cancel the same draw.
Cancel(d) ==
    /\ d \in cancelling
    /\ Become(d, "cancelled")
    /\ cancelling' \in {cancelling, cancelling \ {d}}

GiveUp(d) ==
    /\ cancelling' = cancelling \ {d}
    /\ UNCHANGED status

Next ==
    \E d \in Draws :
        Schedule(d) \/ Settle(d) \/ FindForCancel(d) \/ Cancel(d) \/ GiveUp(d)

Spec == Init /\ [][Next]_lifeVars
===============================================================================
