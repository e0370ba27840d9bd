--------------------------- MODULE PrizeSettlement ---------------------------
(***************************************************************************)
(* The settlement and the cancellation of the campaign's prize draws, as   *)
(* administrators' requests interleave with each other and with the sale.  *)
(*                                                                         *)
(* admin[a] is the request an administrator has in flight: it does one     *)
(* database statement per step and keeps the draw, the announced number    *)
(* and the ticket it found.  The process that serves it may die between    *)
(* two steps (Mortal), and the administrator may then start again.         *)
(*                                                                         *)
(* `assigned` is what the sale gives this part of the system: it only      *)
(* grows, as Purchase's theorem AssignedForever says.  A ticket's order is *)
(* never deleted, so the lookup of the winner's order is left out, and so  *)
(* are the other fields of a draw (PrizeDraws creates and edits them).     *)
(***************************************************************************)

CONSTANTS
    Draws,      \* ids of prize draws
    Numbers,    \* the numbers a ticket can carry
    Admins,     \* administrators' requests that can be in flight at once
    Settlers,   \* those of them that settle draws (the others only cancel)
    Mortal,     \* those of them that can be killed in mid-run
    NoDraw,     \* wonPrizeDrawId: null
    NoNumber    \* winningNumber: null, winningTicketId: null

ASSUME SettlementAssumption ==
    /\ Settlers \subseteq Admins
    /\ Mortal \subseteq Admins
    /\ NoDraw \notin Draws
    /\ NoNumber \notin Numbers

VARIABLES
    draws,      \* the prize draws: status, winningNumber, winningTicketId
    assigned,   \* the numbers whose ticket is assigned
    wonBy,      \* wonPrizeDrawId of each number's ticket
    admin,      \* the requests in flight
    overlapped  \* history: two settlements have been in flight at once

vars == <<draws, assigned, wonBy, admin, overlapped>>

NoPrize == [status |-> "absent", number |-> NoNumber, ticket |-> NoNumber]
Scheduled == [NoPrize EXCEPT !.status = "scheduled"]
Drawn(number, ticket) == [status |-> "drawn", number |-> number, ticket |-> ticket]

IdleAdmin == [pc |-> "idle", draw |-> NoDraw, number |-> NoNumber, ticket |-> NoNumber]

At(a, pc) == admin[a].pc = pc
Settling(a) == admin[a].pc \in {"find", "mark", "settle"}
Finish(a) == admin' = [admin EXCEPT ![a] = IdleAdmin]

Init ==
    /\ draws = [d \in Draws |-> NoPrize]
    /\ assigned = {}
    /\ wonBy = [n \in Numbers |-> NoDraw]
    /\ admin = [a \in Admins |-> IdleAdmin]
    /\ overlapped = FALSE

\* A prize draw is created.
Schedule(d) ==
    /\ draws[d] = NoPrize
    /\ draws' = [draws EXCEPT ![d] = Scheduled]
    /\ UNCHANGED <<assigned, wonBy, admin, overlapped>>

\* An approved payment assigns the tickets of an order.
AssignTickets(bought) ==
    /\ bought \cap assigned = {}
    /\ assigned' = assigned \cup bought
    /\ UNCHANGED <<draws, wonBy, admin, overlapped>>

-------------------------------------------------------------------------------
\* settleDraw

\* The draw is looked up; its status is not.
ReadDraw(a, d, n) ==
    /\ a \in Settlers
    /\ At(a, "idle")
    /\ draws[d] # NoPrize
    /\ admin' = [admin EXCEPT ![a] =
                   [pc |-> "find", draw |-> d, number |-> n, ticket |-> NoNumber]]
    /\ overlapped' = (overlapped \/ \E b \in Admins : Settling(b))
    /\ UNCHANGED <<draws, assigned, wonBy>>

\* Mutant of Eligible: a ticket that has won may win again.
EligibleAgain(n) == n \in assigned

\* findEligibleWinnerTicket: the number's ticket is sold and has not won.
Eligible(n) == n \in assigned /\ wonBy[n] = NoDraw

\* Mutants of FindEligible: a ticket not found is marked all the same; the ticket found is
\* not marked.
FindUnchecked(a) ==
    /\ At(a, "find")
    /\ LET n == admin[a].number IN
       admin' = [admin EXCEPT ![a].pc = "mark", ![a].ticket = IF Eligible(n) THEN n ELSE @]
    /\ UNCHANGED <<draws, assigned, wonBy, overlapped>>

FindEligibleOnly(a) ==
    /\ At(a, "find")
    /\ LET n == admin[a].number IN
       IF Eligible(n)
       THEN admin' = [admin EXCEPT ![a].pc = "settle", ![a].ticket = n]
       ELSE admin' = [admin EXCEPT ![a].pc = "settle"]
    /\ UNCHANGED <<draws, assigned, wonBy, overlapped>>

FindEligible(a) ==
    /\ At(a, "find")
    /\ LET n == admin[a].number IN
       IF Eligible(n)
       THEN admin' = [admin EXCEPT ![a].pc = "mark", ![a].ticket = n]
       ELSE admin' = [admin EXCEPT ![a].pc = "settle"]
    /\ UNCHANGED <<draws, assigned, wonBy, overlapped>>

\* Mutant of Won: no filter on wonPrizeDrawId: null.
WonAgain(n, d) == [wonBy EXCEPT ![n] = d]

Won(n, d) == [wonBy EXCEPT ![n] = IF @ = NoDraw THEN d ELSE @]

\* updateOne({_id, wonPrizeDrawId: null}, ...), whose count of matches nobody reads.
MarkTicketAsWinner(a) ==
    /\ At(a, "mark")
    /\ wonBy' = Won(admin[a].ticket, admin[a].draw)
    /\ admin' = [admin EXCEPT ![a].pc = "settle"]
    /\ UNCHANGED <<draws, assigned, overlapped>>

\* The draw takes the ticket found, or none, whatever it says already.
MarkAsSettled(a) ==
    /\ At(a, "settle")
    /\ draws' = [draws EXCEPT ![admin[a].draw] = Drawn(admin[a].number, admin[a].ticket)]
    /\ Finish(a)
    /\ UNCHANGED <<assigned, wonBy, overlapped>>

-------------------------------------------------------------------------------
\* cancelPrizeDraw

\* Mutant of ReadForCancel: a drawn draw is not refused.
ReadForCancelDrawn(a, d) ==
    /\ At(a, "idle")
    /\ draws[d] # NoPrize
    /\ admin' = [admin EXCEPT ![a] = [IdleAdmin EXCEPT !.pc = "cancel", !.draw = d]]
    /\ UNCHANGED <<draws, assigned, wonBy, overlapped>>

\* A draw already drawn is refused ...
ReadForCancel(a, d) ==
    /\ At(a, "idle")
    /\ draws[d].status \in {"scheduled", "cancelled"}
    /\ admin' = [admin EXCEPT ![a] = [IdleAdmin EXCEPT !.pc = "cancel", !.draw = d]]
    /\ UNCHANGED <<draws, assigned, wonBy, overlapped>>

\* ... when it was read; the update filters on the id only.
CancelPrizeDraw(a) ==
    /\ At(a, "cancel")
    /\ draws' = [draws EXCEPT ![admin[a].draw].status = "cancelled"]
    /\ Finish(a)
    /\ UNCHANGED <<assigned, wonBy, overlapped>>

\* The process serving the request dies.
Crash(a) ==
    /\ a \in Mortal
    /\ ~At(a, "idle")
    /\ Finish(a)
    /\ UNCHANGED <<draws, assigned, wonBy, overlapped>>

-------------------------------------------------------------------------------
Settle(a) ==
    \/ \E d \in Draws, n \in Numbers : ReadDraw(a, d, n)
    \/ FindEligible(a)
    \/ MarkTicketAsWinner(a)
    \/ MarkAsSettled(a)

Cancel(a) == (\E d \in Draws : ReadForCancel(a, d)) \/ CancelPrizeDraw(a)

Next ==
    \/ \E d \in Draws : Schedule(d)
    \/ \E bought \in SUBSET Numbers \ {{}} : AssignTickets(bought)
    \/ \E a \in Admins : Settle(a) \/ Cancel(a) \/ Crash(a)

Spec == Init /\ [][Next]_vars

-------------------------------------------------------------------------------
\* Properties

DrawRecords ==
    [status : {"absent", "scheduled", "drawn", "cancelled"},
     number : Numbers \cup {NoNumber}, ticket : Numbers \cup {NoNumber}]

AdminRecords ==
    [pc : {"idle", "find", "mark", "settle", "cancel"}, draw : Draws \cup {NoDraw},
     number : Numbers \cup {NoNumber}, ticket : Numbers \cup {NoNumber}]

\* Draws, winners and requests have the shape their schemas and the code give them; a
\* request in flight is about a draw, and one that marks a ticket has found it.
TypeOK ==
    /\ draws \in [Draws -> DrawRecords]
    /\ assigned \subseteq Numbers
    /\ wonBy \in [Numbers -> Draws \cup {NoDraw}]
    /\ overlapped \in BOOLEAN
    /\ admin \in [Admins -> AdminRecords]
    /\ \A a \in Admins :
         /\ ~At(a, "idle") => admin[a].draw \in Draws
         /\ At(a, "mark") => admin[a].ticket \in Numbers

\* The winner a draw shows is a sold ticket with the announced number, and that ticket is
\* marked as having won: the ticket is marked before the draw is, whoever else settles.
ShownWinnersHaveWon ==
    \A d \in Draws :
        LET shown == draws[d].ticket IN
        shown # NoNumber => /\ shown = draws[d].number
                            /\ shown \in assigned
                            /\ wonBy[shown] # NoDraw

\* The draw that shows a ticket and the ticket's own record agree on the prize it won,
\* across crashes, repeated settlements, cancellations and sales, as long as no two
\* settlements overlap.
WinnersAgree ==
    ~overlapped =>
        \A d \in Draws : draws[d].ticket # NoNumber => wonBy[draws[d].ticket] = d

\* A ticket wins at most one prize of the campaign.
OneTicketOnePrize ==
    \A d, other \in Draws :
        d # other /\ draws[d].ticket # NoNumber => draws[d].ticket # draws[other].ticket

\* A ticket that has won keeps the prize it won.
WinsAreForever ==
    [][\A n \in Numbers : wonBy[n] # NoDraw => wonBy'[n] = wonBy[n]]_vars

\* Settling a drawn draw again, with the number it was settled with, changes nothing.
SettlementIsIdempotent ==
    [][\A d \in Draws :
         /\ draws[d].status = "drawn"
         /\ draws'[d].status = "drawn"
         /\ draws'[d].number = draws[d].number
         => draws'[d] = draws[d]]_vars

\* The statuses of the draws go through what DrawLife allows: however requests interleave and
\* die, no draw is scheduled a second time, and a drawn one is cancelled only by a request that
\* had read it while it was not yet drawn (cancelPrizeDraw's check, and its update by id).
Life == INSTANCE DrawLife WITH
    status <- [d \in Draws |-> draws[d].status],
    cancelling <- {admin[a].draw : a \in {b \in Admins : At(b, "cancel")}}
LifeSpec == Life!Spec
===============================================================================
