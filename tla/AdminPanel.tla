------------------------------ MODULE AdminPanel ------------------------------
(***************************************************************************)
(* The operating panel of the web site (/admin) in one browser, and what   *)
(* the API answers it: login, the requests that fill the screen, and those *)
(* that create, settle and cancel prize draws.  The sale and the other     *)
(* administrators go on underneath (Sell, SetSoldTickets, Elsewhere): the  *)
(* sale as TicketCounts has it, which Purchase implements, and the draws   *)
(* as DrawLife has it, which PrizeSettlement implements.                   *)
(*                                                                         *)
(*   panel     its token, the call it waits for, the reads of its reload   *)
(*             that have been made, the data on the screen                 *)
(*   draws[d]  the status of a prize draw; cancelling, the draws that      *)
(*             requests from elsewhere have found fit to be cancelled      *)
(*   reserved, assigned, sold                                              *)
(*             the counts of tickets, and the raffle's soldTickets         *)
(*                                                                         *)
(* The panel's own requests are split as far as a draw's status goes: a    *)
(* cancellation looks before it writes.  PrizeDraws and PrizeSettlement    *)
(* split them further.  The request for the buyers (listBuyers) fails or   *)
(* not like the other two, and its rows are left out, as are the rows of   *)
(* the inventory.                                                          *)
(***************************************************************************)
EXTENDS Integers

CONSTANTS
    Draws,   \* ids of prize draws, those not yet created among them
    Total,   \* the raffle's totalTickets
    Limit    \* how many tickets there can be, more than the raffle has maybe

ASSUME PanelAssumption == Total \in Nat /\ Limit \in Nat /\ "none" \notin Draws

VARIABLES
    draws, cancelling, reserved, assigned, sold,
    role,       \* the role of the account the panel logs in with
    panel,
    settled,    \* history: the draws whose settlement by this panel was executed
    resettled,  \* history: it settled a draw it had settled before
    missed      \* history: it made a change and did not get the answer, or the reload

counts == <<reserved, assigned, sold>>
vars == <<draws, cancelling, counts, role, panel, settled, resettled, missed>>
world == <<draws, cancelling, counts, role, settled, resettled>>

Life == INSTANCE DrawLife WITH status <- draws
Counts == INSTANCE TicketCounts

Statuses == Life!Statuses
Changes == {"create", "settle", "cancel"}
Reads == {"draws", "raffle", "reserved", "assigned"}
NoDraw == "none"

Nothing == [d \in Draws |-> "absent"]
NoAnswer == [reads |-> {}, draws |-> Nothing, sold |-> 0, reserved |-> 0, assigned |-> 0]
NoData == [draws |-> Nothing, available |-> Total, reserved |-> 0, assigned |-> 0]

NewPanel ==
    [token |-> "null", loading |-> FALSE, error |-> FALSE, data |-> NoData,
     pc |-> "idle", op |-> "none", draw |-> NoDraw, got |-> NoAnswer]

At(pc) == panel.pc = pc

Init ==
    /\ Life!Init
    /\ Counts!Init
    /\ role \in {"owner", "viewer"}
    /\ panel = NewPanel
    /\ settled = {}
    /\ resettled = FALSE
    /\ missed = FALSE

-------------------------------------------------------------------------------
\* What the panel lets its user do: every submit button is disabled while a call is out.

MayLogin == panel.token = "null" /\ ~panel.loading
MaySubmit == panel.token # "null" /\ ~panel.loading

\* Mutant of MayActOn: the buttons of a draw come back before the reload.
MayActOnEarly(d) ==
    /\ panel.token # "null" /\ (panel.loading => At("reload"))
    /\ panel.data.draws[d] = "scheduled"

\* A scheduled draw on the screen has a settle form and a cancel button.
MayActOn(d) == MaySubmit /\ panel.data.draws[d] = "scheduled"

Submit(op, d) ==
    /\ panel' = [panel EXCEPT !.loading = TRUE, !.error = FALSE, !.got = NoAnswer,
                              !.pc = IF op = "search" THEN "reload" ELSE "sent",
                              !.op = op, !.draw = d]
    /\ UNCHANGED <<world, missed>>

SubmitLogin == MayLogin /\ Submit("login", NoDraw)
SubmitCreate == MaySubmit /\ Submit("create", NoDraw)
SubmitSettle == \E d \in Draws : MayActOn(d) /\ Submit("settle", d)
SubmitCancel == \E d \in Draws : MayActOn(d) /\ Submit("cancel", d)

\* searchInventory reloads everything.
Search == MaySubmit /\ Submit("search", NoDraw)

-------------------------------------------------------------------------------
\* The API

\* JwtStrategy and RolesGuard: support and viewers may look but not change anything.
Admitted == panel.token = "valid" /\ (panel.op \in Changes => role \in {"owner", "admin"})

\* cancelPrizeDraw refuses a drawn draw, and cancels one that is drawn after it has looked.
FindForCancel ==
    /\ At("sent")
    /\ panel.op = "cancel"
    /\ Admitted
    /\ draws[panel.draw] \in {"scheduled", "cancelled"}
    /\ panel' = [panel EXCEPT !.pc = "found"]
    /\ UNCHANGED <<world, missed>>

Execute(d, status) ==
    /\ draws' = [draws EXCEPT ![d] = status]
    /\ panel' = [panel EXCEPT !.pc = "executed", !.draw = d]
    /\ UNCHANGED <<cancelling, counts, role, missed>>

CreateDraw ==
    /\ At("sent")
    /\ panel.op = "create"
    /\ Admitted
    /\ \E d \in Draws : draws[d] = "absent" /\ Execute(d, "scheduled")
    /\ UNCHANGED <<settled, resettled>>

\* settleDraw looks for the draw, not at its status.
SettleDraw ==
    LET d == panel.draw IN
    /\ At("sent")
    /\ panel.op = "settle"
    /\ Admitted
    /\ draws[d] # "absent"
    /\ Execute(d, "drawn")
    /\ settled' = settled \cup {d}
    /\ resettled' = (resettled \/ d \in settled)

CancelDraw ==
    /\ At("found")
    /\ Execute(panel.draw, "cancelled")
    /\ UNCHANGED <<settled, resettled>>

\* The credentials are those of an active account, and the access token arrives.
AcceptLogin ==
    /\ At("sent")
    /\ panel.op = "login"
    /\ panel' = [panel EXCEPT !.pc = "reload", !.token = "valid"]
    /\ UNCHANGED <<world, missed>>

\* Mutant of Ended: the error path forgets setLoading(false).
EndedLoading(error) ==
    [panel EXCEPT !.loading = error, !.error = error, !.pc = "idle", !.got = NoAnswer]

\* catch and finally.
Ended(error) ==
    [panel EXCEPT !.loading = FALSE, !.error = error, !.pc = "idle", !.got = NoAnswer]

\* The API refuses the request or dies, or the request does not reach it.
Refused ==
    /\ panel.pc \in {"sent", "found"}
    /\ panel' = Ended(TRUE)
    /\ UNCHANGED <<world, missed>>

\* The change is made and its answer does not reach the panel, or is the error of a later
\* step of the request (its audit entry).
AnswerLost ==
    /\ At("executed")
    /\ panel' = Ended(TRUE)
    /\ missed' = TRUE
    /\ UNCHANGED world

\* The connection breaks while the API cancels: to the panel the request has failed.
AnswerBroken ==
    /\ At("found")
    /\ panel' = Ended(TRUE)
    /\ missed' = TRUE
    /\ cancelling' = cancelling \cup {panel.draw}
    /\ UNCHANGED <<draws, counts, role, settled, resettled>>

\* Mutant of Answered: the screen is not loaded again after a change.
AnsweredWithoutReload ==
    /\ At("executed")
    /\ panel' = Ended(FALSE)
    /\ UNCHANGED <<world, missed>>

\* The form is reset and the screen is loaded again.
Answered ==
    /\ At("executed")
    /\ panel' = [panel EXCEPT !.pc = "reload"]
    /\ UNCHANGED <<world, missed>>

-------------------------------------------------------------------------------
\* loadAdminData asks for dashboard and inventory at once; each reads in steps of its own.

Read(read, got) ==
    /\ At("reload")
    /\ read \notin panel.got.reads
    /\ panel' = [panel EXCEPT !.got = [got EXCEPT !.reads = @ \cup {read}]]
    /\ UNCHANGED <<world, missed>>

\* getDashboard lists the prize draws.
ReadDraws == Read("draws", [panel.got EXCEPT !.draws = draws])

\* listTicketInventory reads the raffle and then counts its tickets, in either order.
\* getDashboard counts in the same way.
ReadRaffle == Read("raffle", [panel.got EXCEPT !.sold = sold])
CountReserved ==
    "raffle" \in panel.got.reads /\ Read("reserved", [panel.got EXCEPT !.reserved = reserved])
CountAssigned ==
    "raffle" \in panel.got.reads /\ Read("assigned", [panel.got EXCEPT !.assigned = assigned])

\* Mutant of Available: soldTickets is read when the counts are in.
AvailableNow(got) ==
    LET left == Total - sold - got.reserved IN IF left > 0 THEN left ELSE 0

Available(got) ==
    LET left == Total - got.sold - got.reserved IN IF left > 0 THEN left ELSE 0

\* setData, once every answer is in.
Reloaded ==
    LET got == panel.got IN
    /\ At("reload")
    /\ got.reads = Reads
    /\ panel' = [Ended(FALSE) EXCEPT
          !.data = [draws |-> got.draws, available |-> Available(got),
                    reserved |-> got.reserved, assigned |-> got.assigned]]
    /\ UNCHANGED <<world, missed>>

\* One of the requests fails, for an expired token for instance: Promise.all rejects, and the
\* screen keeps what it shows.
ReloadFails ==
    /\ At("reload")
    /\ panel' = Ended(TRUE)
    /\ missed' = (missed \/ panel.op \in Changes)
    /\ UNCHANGED world

\* The access token is good for 30 minutes; the panel keeps it for good.
Expire ==
    /\ panel.token = "valid"
    /\ panel' = [panel EXCEPT !.token = "expired"]
    /\ UNCHANGED <<world, missed>>

-------------------------------------------------------------------------------
\* What goes on elsewhere

\* Other administrators' requests change draws.
Elsewhere ==
    /\ Life!Next
    /\ UNCHANGED <<counts, role, panel, settled, resettled, missed>>

\* Tickets of an order are reserved, released or assigned.
Sell ==
    /\ \E k \in 1..Limit : Counts!Reserve(k) \/ Counts!Assign(k) \/ Counts!Release(k)
    /\ UNCHANGED <<draws, cancelling, role, panel, settled, resettled, missed>>

\* Mutant of SetSoldTickets: incrementSoldTickets, once for every webhook.
IncrementSoldTickets ==
    /\ sold' = sold + 1
    /\ UNCHANGED <<draws, cancelling, reserved, assigned, role, panel, settled, resettled,
                   missed>>

\* The webhook sets the counter to a count of assigned tickets it made earlier.
SetSoldTickets ==
    /\ \E k \in 0..Limit : Counts!SetSold(k)
    /\ UNCHANGED <<draws, cancelling, role, panel, settled, resettled, missed>>

Use == SubmitLogin \/ SubmitCreate \/ SubmitSettle \/ SubmitCancel \/ Search
\* Everything that moves a call towards its end.
Advance ==
    \/ CreateDraw \/ SettleDraw \/ FindForCancel \/ CancelDraw \/ AcceptLogin
    \/ Refused \/ AnswerLost \/ AnswerBroken \/ Answered
    \/ ReadDraws \/ ReadRaffle \/ CountReserved \/ CountAssigned \/ Reloaded \/ ReloadFails

Next == Use \/ Advance \/ Expire \/ Elsewhere \/ Sell \/ SetSoldTickets

\* Every request gets an answer or an error in the end.
Spec == Init /\ [][Next]_vars /\ WF_vars(Advance)

-------------------------------------------------------------------------------
Screens ==
    [draws : [Draws -> Statuses], available : 0..Total, reserved : 0..Limit,
     assigned : 0..Limit]
Answers ==
    [reads : SUBSET Reads, draws : [Draws -> Statuses], sold : 0..Limit, reserved : 0..Limit,
     assigned : 0..Limit]
PanelRecords ==
    [token : {"null", "valid", "expired"}, loading : BOOLEAN, error : BOOLEAN, data : Screens,
     pc : {"idle", "sent", "found", "executed", "reload"},
     op : {"none", "login", "search"} \cup Changes,
     draw : Draws \cup {NoDraw}, got : Answers]

\* A request to settle or cancel is about a draw.
Targeted ==
    /\ panel.op \in {"settle", "cancel"} => panel.draw \in Draws
    /\ At("found") => panel.op = "cancel"

TypeOK ==
    /\ draws \in [Draws -> Statuses]
    /\ cancelling \subseteq Draws
    /\ reserved \in Nat /\ assigned \in Nat /\ reserved + assigned <= Limit
    /\ sold \in 0..assigned
    /\ role \in {"owner", "admin", "support", "viewer"}
    /\ panel \in PanelRecords
    /\ Targeted
    /\ settled \subseteq Draws
    /\ {resettled, missed} \subseteq BOOLEAN

\* The numbers on the screen leave no ticket out, oversold or not: while tickets move from
\* free to reserved to assigned between the reads of listTicketInventory, one may be counted
\* twice but never zero times.
InventoryLeavesNothingOut ==
    panel.data.available + panel.data.reserved + panel.data.assigned >= Total

\* A change that ended without an error is on the screen: the reload was begun after it.  A draw
\* settled may be shown cancelled, by a request that looked at it before.
ChangesAreShown ==
    At("idle") /\ ~panel.error /\ panel.op \in Changes =>
        panel.data.draws[panel.draw] \in
            IF panel.op = "create" THEN {"scheduled", "drawn", "cancelled"}
                                   ELSE {"drawn", "cancelled"}

\* settleDraw accepts a draw that is already drawn; it is the panel that keeps its user from
\* settling a draw a second time.  It does, unless an answer or a reload went missing.
SettlesOnceWhileAnswersArrive == resettled => missed

\* The panel's requests do to draws only what those of other administrators do: with its own
\* cancellation among the others', the draws still live by DrawLife.
Lives == INSTANCE DrawLife WITH
    status <- draws,
    cancelling <- cancelling \cup (IF At("found") THEN {panel.draw} ELSE {})
LivesSpec == Lives!Spec

\* The buttons come back: no failure leaves the panel loading for ever.
PanelComesBack == panel.loading ~> ~panel.loading
===============================================================================
