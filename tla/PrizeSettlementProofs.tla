------------------------ MODULE PrizeSettlementProofs ------------------------
(***************************************************************************)
(* Proofs about PrizeSettlement for every set of draws, numbers and        *)
(* administrators.                                                         *)
(***************************************************************************)
EXTENDS PrizeSettlement, TLAPS

-------------------------------------------------------------------------------
\* Where a step takes the requests: each lemma says it of one handler's step, field by field.

LEMMA FinishLemma ==
    ASSUME TypeOK, NEW a \in Admins, Finish(a)
    PROVE  /\ admin' \in [Admins -> AdminRecords]
           /\ admin'[a] = IdleAdmin /\ admin'[a].pc = "idle"
           /\ \A b \in Admins : b # a => admin'[b] = admin[b]
  BY DEF TypeOK, Finish, IdleAdmin, AdminRecords

LEMMA ReadDrawLemma ==
    ASSUME TypeOK, NEW a \in Admins, NEW d \in Draws, NEW n \in Numbers, ReadDraw(a, d, n)
    PROVE  /\ admin' \in [Admins -> AdminRecords]
           /\ admin'[a].pc = "find" /\ admin'[a].draw = d
           /\ admin'[a].number = n /\ admin'[a].ticket = NoNumber
           /\ \A b \in Admins : b # a => admin'[b] = admin[b]
  BY DEF TypeOK, ReadDraw, AdminRecords

LEMMA FindEligibleLemma ==
    ASSUME TypeOK, NEW a \in Admins, FindEligible(a)
    PROVE  /\ admin' \in [Admins -> AdminRecords]
           /\ admin'[a].draw = admin[a].draw /\ admin'[a].number = admin[a].number
           /\ \/ /\ Eligible(admin[a].number)
                 /\ admin'[a].pc = "mark" /\ admin'[a].ticket = admin[a].number
              \/ admin'[a].pc = "settle" /\ admin'[a].ticket = admin[a].ticket
           /\ \A b \in Admins : b # a => admin'[b] = admin[b]
<1>1. admin \in [Admins -> AdminRecords] /\ admin[a].number \in Numbers \cup {NoNumber}
  BY DEF TypeOK, AdminRecords
<1>2. CASE Eligible(admin[a].number)
  <2> DEFINE next == [admin[a] EXCEPT !.pc = "mark", !.ticket = admin[a].number]
  <2>1. admin' = [admin EXCEPT ![a] = next]
    BY <1>1, <1>2 DEF FindEligible
  <2>2. /\ next \in AdminRecords
        /\ next.pc = "mark" /\ next.ticket = admin[a].number
        /\ next.draw = admin[a].draw /\ next.number = admin[a].number
    BY <1>1 DEF AdminRecords
  <2> QED
    BY <1>1, <1>2, <2>1, <2>2
<1>3. CASE ~Eligible(admin[a].number)
  BY <1>1, <1>3 DEF FindEligible, AdminRecords
<1> QED
  BY <1>2, <1>3

LEMMA MarkLemma ==
    ASSUME TypeOK, NEW a \in Admins, MarkTicketAsWinner(a)
    PROVE  /\ admin' \in [Admins -> AdminRecords]
           /\ admin'[a].pc = "settle" /\ admin'[a].draw = admin[a].draw
           /\ admin'[a].number = admin[a].number /\ admin'[a].ticket = admin[a].ticket
           /\ \A b \in Admins : b # a => admin'[b] = admin[b]
  BY DEF TypeOK, MarkTicketAsWinner, AdminRecords

LEMMA ReadForCancelLemma ==
    ASSUME TypeOK, NEW a \in Admins, NEW d \in Draws, ReadForCancel(a, d)
    PROVE  /\ admin' \in [Admins -> AdminRecords]
           /\ admin'[a].pc = "cancel" /\ admin'[a].draw = d
           /\ \A b \in Admins : b # a => admin'[b] = admin[b]
<1> DEFINE next == [IdleAdmin EXCEPT !.pc = "cancel", !.draw = d]
<1>1. IdleAdmin \in AdminRecords
  BY DEF IdleAdmin, AdminRecords
<1>2. admin' = [admin EXCEPT ![a] = next]
  BY DEF ReadForCancel
<1>3. next \in AdminRecords /\ next.pc = "cancel" /\ next.draw = d
  BY <1>1 DEF AdminRecords
<1> HIDE DEF next
<1> QED
  BY <1>2, <1>3 DEF TypeOK

-------------------------------------------------------------------------------
\* Types

LEMMA InitTypeOK == Init => TypeOK
<1>1. NoPrize \in DrawRecords
  BY DEF NoPrize, DrawRecords
<1>2. IdleAdmin \in AdminRecords /\ IdleAdmin.pc = "idle"
  BY DEF IdleAdmin, AdminRecords
<1> QED
  BY <1>1, <1>2 DEF Init, TypeOK, At

\* Each step keeps the state well typed.
LEMMA StepTypeOK == TypeOK /\ [Next]_vars => TypeOK'
<1> SUFFICES ASSUME TypeOK, [Next]_vars
             PROVE  TypeOK'
  OBVIOUS
<1> USE SettlementAssumption
<1>1. CASE UNCHANGED vars
  BY <1>1 DEF vars, TypeOK, At
<1>2. ASSUME NEW d \in Draws, Schedule(d) PROVE TypeOK'
  <2>1. Scheduled \in DrawRecords
    BY DEF Scheduled, NoPrize, DrawRecords
  <2> QED
    BY <1>2, <2>1 DEF Schedule, TypeOK, At
<1>3. ASSUME NEW bought \in SUBSET Numbers, AssignTickets(bought) PROVE TypeOK'
  BY <1>3 DEF AssignTickets, TypeOK, At
<1>4. ASSUME NEW a \in Admins, NEW d \in Draws, NEW n \in Numbers, ReadDraw(a, d, n)
      PROVE  TypeOK'
  BY <1>4, ReadDrawLemma, ZenonT(60) DEF ReadDraw, TypeOK, At
<1>5. ASSUME NEW a \in Admins, FindEligible(a) PROVE TypeOK'
  <2>1. Eligible(admin[a].number) => admin[a].number \in Numbers
    BY DEF Eligible, TypeOK
  <2> QED
    BY <1>5, <2>1, FindEligibleLemma DEF FindEligible, TypeOK, At
<1>6. ASSUME NEW a \in Admins, MarkTicketAsWinner(a) PROVE TypeOK'
  <2>1. admin[a].ticket \in Numbers /\ admin[a].draw \in Draws
    BY <1>6 DEF MarkTicketAsWinner, TypeOK, At
  <2>2. wonBy' \in [Numbers -> Draws \cup {NoDraw}]
    BY <1>6, <2>1 DEF MarkTicketAsWinner, Won, TypeOK
  <2> QED
    BY <1>6, <2>1, <2>2, MarkLemma, ZenonT(60) DEF MarkTicketAsWinner, TypeOK, At
<1>7. ASSUME NEW a \in Admins, MarkAsSettled(a) PROVE TypeOK'
  <2>1. Drawn(admin[a].number, admin[a].ticket) \in DrawRecords
    BY DEF Drawn, DrawRecords, TypeOK, AdminRecords
  <2> QED
    BY <1>7, <2>1, FinishLemma DEF MarkAsSettled, TypeOK, At
<1>8. ASSUME NEW a \in Admins, NEW d \in Draws, ReadForCancel(a, d) PROVE TypeOK'
  BY <1>8, ReadForCancelLemma, ZenonT(60) DEF ReadForCancel, TypeOK, At
<1>9. ASSUME NEW a \in Admins, CancelPrizeDraw(a) PROVE TypeOK'
  <2>1. admin[a].draw \in Draws
    BY <1>9 DEF CancelPrizeDraw, TypeOK, At
  <2>2. draws' \in [Draws -> DrawRecords]
    BY <1>9, <2>1 DEF CancelPrizeDraw, TypeOK, DrawRecords
  <2> QED
    BY <1>9, <2>2, FinishLemma DEF CancelPrizeDraw, TypeOK, At
<1>10. ASSUME NEW a \in Admins, Crash(a) PROVE TypeOK'
  BY <1>10, FinishLemma DEF Crash, TypeOK, At
<1> QED
  BY <1>1, <1>2, <1>3, <1>4, <1>5, <1>6, <1>7, <1>8, <1>9, <1>10
  DEF Next, Settle, Cancel

\* Every document and request keeps its shape.
THEOREM TypeCorrect == Spec => []TypeOK
  BY InitTypeOK, StepTypeOK, PTL DEF Spec

-------------------------------------------------------------------------------
\* A ticket keeps the prize it won.

LEMMA StepWins ==
    ASSUME TypeOK, [Next]_vars, NEW n \in Numbers, wonBy[n] # NoDraw
    PROVE  wonBy'[n] = wonBy[n]
<1>1. CASE \E a \in Admins : MarkTicketAsWinner(a)
  BY <1>1 DEF MarkTicketAsWinner, Won, TypeOK
<1>2. CASE UNCHANGED wonBy
  BY <1>2
<1>3. UNCHANGED wonBy \/ \E a \in Admins : MarkTicketAsWinner(a)
  BY DEF Next, Settle, Cancel, vars, Schedule, AssignTickets, ReadDraw, FindEligible,
         MarkAsSettled, ReadForCancel, CancelPrizeDraw, Crash
<1> QED
  BY <1>1, <1>2, <1>3

\* The update of a ticket filters on wonPrizeDrawId: null, so a prize won is never replaced.
THEOREM PrizesKept == Spec => WinsAreForever
<1>1. TypeOK /\ [Next]_vars =>
        [\A n \in Numbers : wonBy[n] # NoDraw => wonBy'[n] = wonBy[n]]_vars
  BY StepWins
<1> QED
  BY <1>1, TypeCorrect, PTL DEF Spec, WinsAreForever

-------------------------------------------------------------------------------
\* Shown winners have won.

\* What a settlement in flight has found: nothing yet while it looks, then a sold ticket
\* with the announced number, marked as won before the draw takes it.
FoundTickets ==
    \A a \in Admins :
        /\ At(a, "find") => admin[a].ticket = NoNumber
        /\ Settling(a) /\ admin[a].ticket # NoNumber =>
             /\ admin[a].ticket = admin[a].number
             /\ admin[a].ticket \in assigned
        /\ At(a, "settle") /\ admin[a].ticket # NoNumber => wonBy[admin[a].ticket] # NoDraw

\* The sale only grows, and wins are kept.
LEMMA Monotone ==
    ASSUME TypeOK, [Next]_vars
    PROVE  /\ assigned \subseteq assigned'
           /\ \A n \in Numbers : wonBy[n] # NoDraw => wonBy'[n] = wonBy[n]
<1>1. assigned \subseteq assigned'
  BY DEF Next, Settle, Cancel, vars, Schedule, AssignTickets, ReadDraw, FindEligible,
         MarkTicketAsWinner, MarkAsSettled, ReadForCancel, CancelPrizeDraw, Crash
<1> QED
  BY <1>1, StepWins

\* What FoundTickets says of one request.
Found(a) ==
    /\ At(a, "find") => admin[a].ticket = NoNumber
    /\ Settling(a) /\ admin[a].ticket # NoNumber =>
         /\ admin[a].ticket = admin[a].number
         /\ admin[a].ticket \in assigned
    /\ At(a, "settle") /\ admin[a].ticket # NoNumber => wonBy[admin[a].ticket] # NoDraw

\* A step of others leaves a request what it has found.
LEMMA FoundKept ==
    ASSUME TypeOK, [Next]_vars, NEW b \in Admins, Found(b), admin'[b] = admin[b]
    PROVE  Found(b)'
<1>1. admin[b].ticket \in Numbers \cup {NoNumber}
  BY DEF TypeOK, AdminRecords
<1> QED
  BY <1>1, Monotone DEF Found, At, Settling

LEMMA StepFound ==
    TypeOK /\ FoundTickets /\ [Next]_vars => FoundTickets'
<1> SUFFICES ASSUME TypeOK, FoundTickets, [Next]_vars, NEW b \in Admins
             PROVE  Found(b)'
  BY DEF FoundTickets, Found
<1>a. Found(b)
  BY DEF FoundTickets, Found
<1>b. ASSUME admin'[b] = admin[b] PROVE Found(b)'
  BY <1>a, <1>b, FoundKept
<1>c. ASSUME admin'[b].pc \in {"idle", "cancel"} PROVE Found(b)'
  BY <1>c DEF Found, At, Settling
<1>1. CASE UNCHANGED admin
  BY <1>1, <1>b
<1>2. ASSUME NEW a \in Admins, NEW d \in Draws, NEW n \in Numbers, ReadDraw(a, d, n)
      PROVE  Found(b)'
  BY <1>2, <1>b, ReadDrawLemma DEF Found, At, Settling
<1>3. ASSUME NEW a \in Admins, FindEligible(a) PROVE Found(b)'
  <2>1. CASE b # a
    BY <1>3, <1>b, <2>1, FindEligibleLemma
  <2>2. CASE b = a
    <3>1. admin[a].ticket = NoNumber
      BY <1>3, <1>a, <2>2 DEF FindEligible, Found
    <3>2. UNCHANGED assigned
      BY <1>3 DEF FindEligible
    <3> QED
      BY <1>3, <2>2, <3>1, <3>2, FindEligibleLemma DEF Found, At, Settling, Eligible
  <2> QED
    BY <2>1, <2>2
<1>4. ASSUME NEW a \in Admins, MarkTicketAsWinner(a) PROVE Found(b)'
  <2>1. CASE b # a
    BY <1>4, <1>b, <2>1, MarkLemma
  <2>2. CASE b = a
    <3>1. admin[a].ticket \in Numbers /\ admin[a].draw \in Draws
      BY <1>4 DEF MarkTicketAsWinner, TypeOK, At
    <3>2. wonBy'[admin[a].ticket] # NoDraw
      BY <1>4, <3>1, SettlementAssumption DEF MarkTicketAsWinner, Won, TypeOK
    <3>3. Settling(a) /\ UNCHANGED assigned
      BY <1>4 DEF MarkTicketAsWinner, At, Settling
    <3> QED
      BY <1>4, <1>a, <2>2, <3>2, <3>3, MarkLemma DEF Found, At, Settling
  <2> QED
    BY <2>1, <2>2
<1>5. ASSUME NEW a \in Admins, Finish(a) PROVE Found(b)'
  BY <1>5, <1>b, <1>c, FinishLemma
<1>6. ASSUME NEW a \in Admins, NEW d \in Draws, ReadForCancel(a, d) PROVE Found(b)'
  BY <1>6, <1>b, <1>c, ReadForCancelLemma
<1> QED
  BY <1>1, <1>2, <1>3, <1>4, <1>5, <1>6
  DEF Next, Settle, Cancel, vars, Schedule, AssignTickets, MarkAsSettled, CancelPrizeDraw, Crash

\* A step changes the winner a draw shows in one way only: a settlement writes what it found.
LEMMA ShownSteps ==
    ASSUME TypeOK, [Next]_vars, NEW d \in Draws
    PROVE  \/ draws'[d].ticket = NoNumber
           \/ draws'[d].ticket = draws[d].ticket /\ draws'[d].number = draws[d].number
           \/ \E a \in Admins :
                /\ MarkAsSettled(a) /\ d = admin[a].draw
                /\ draws'[d].ticket = admin[a].ticket /\ draws'[d].number = admin[a].number
<1>0. draws \in [Draws -> DrawRecords]
  BY DEF TypeOK
<1>1. CASE UNCHANGED draws
  BY <1>1
<1>2. ASSUME NEW e \in Draws, Schedule(e)
      PROVE  draws'[d].ticket = NoNumber \/ draws'[d] = draws[d]
  BY <1>0, <1>2 DEF Schedule, Scheduled, NoPrize
<1>3. ASSUME NEW a \in Admins, CancelPrizeDraw(a)
      PROVE  draws'[d].ticket = draws[d].ticket /\ draws'[d].number = draws[d].number
  BY <1>0, <1>3 DEF CancelPrizeDraw, DrawRecords
<1>4. ASSUME NEW a \in Admins, MarkAsSettled(a)
      PROVE  \/ draws'[d] = draws[d]
             \/ /\ d = admin[a].draw
                /\ draws'[d].ticket = admin[a].ticket /\ draws'[d].number = admin[a].number
  BY <1>0, <1>4 DEF MarkAsSettled, Drawn
<1> QED
  BY <1>1, <1>2, <1>3, <1>4
  DEF Next, Settle, Cancel, vars, AssignTickets, ReadDraw, FindEligible,
      MarkTicketAsWinner, ReadForCancel, Crash

LEMMA StepShown ==
    TypeOK /\ FoundTickets /\ ShownWinnersHaveWon /\ [Next]_vars => ShownWinnersHaveWon'
<1> SUFFICES ASSUME TypeOK, FoundTickets, ShownWinnersHaveWon, [Next]_vars,
                    NEW d \in Draws, draws'[d].ticket # NoNumber
             PROVE  /\ draws'[d].ticket = draws'[d].number
                    /\ draws'[d].ticket \in assigned'
                    /\ wonBy'[draws'[d].ticket] # NoDraw
  BY DEF ShownWinnersHaveWon
<1>0. draws[d].ticket \in Numbers \cup {NoNumber}
  BY DEF TypeOK, DrawRecords
<1>1. CASE draws'[d].ticket = draws[d].ticket /\ draws'[d].number = draws[d].number
  BY <1>0, <1>1, Monotone DEF ShownWinnersHaveWon
<1>2. ASSUME NEW a \in Admins, MarkAsSettled(a),
             draws'[d].ticket = admin[a].ticket, draws'[d].number = admin[a].number
      PROVE  /\ draws'[d].ticket = draws'[d].number
             /\ draws'[d].ticket \in assigned'
             /\ wonBy'[draws'[d].ticket] # NoDraw
  <2>1. admin[a].ticket \in Numbers \cup {NoNumber} /\ At(a, "settle") /\ Settling(a)
    BY <1>2 DEF MarkAsSettled, TypeOK, AdminRecords, At, Settling
  <2> QED
    BY <1>2, <2>1, Monotone DEF FoundTickets
<1> QED
  BY <1>1, <1>2, ShownSteps

\* Whatever overlaps or crashes, a draw shows only a sold ticket with the announced number
\* that has won a prize.
THEOREM ShownHaveWon == Spec => []ShownWinnersHaveWon
<1>1. Init => FoundTickets /\ ShownWinnersHaveWon
  BY DEF Init, FoundTickets, ShownWinnersHaveWon, IdleAdmin, NoPrize, At, Settling
<1> QED
  BY <1>1, InitTypeOK, StepTypeOK, StepFound, StepShown, PTL DEF Spec

-------------------------------------------------------------------------------
\* Draws and tickets agree while settlements do not overlap.

\* The one settlement in flight has found a ticket that has not won; once marked, it has
\* won the draw being settled.
SoloSettlement ==
    ~overlapped =>
        /\ \A a, b \in Admins : Settling(a) /\ Settling(b) => a = b
        /\ \A a \in Admins : At(a, "mark") => wonBy[admin[a].ticket] = NoDraw
        /\ \A a \in Admins :
             At(a, "settle") /\ admin[a].ticket # NoNumber =>
               wonBy[admin[a].ticket] = admin[a].draw

\* A history variable is never reset.
LEMMA OverlapStays ==
    ASSUME TypeOK, [Next]_vars, overlapped
    PROVE  overlapped'
  BY DEF Next, Settle, Cancel, vars, Schedule, AssignTickets, ReadDraw, FindEligible,
         MarkTicketAsWinner, MarkAsSettled, ReadForCancel, CancelPrizeDraw, Crash

LEMMA StepSolo ==
    TypeOK /\ FoundTickets /\ SoloSettlement /\ [Next]_vars => SoloSettlement'
<1> SUFFICES ASSUME TypeOK, FoundTickets, SoloSettlement, [Next]_vars, ~overlapped'
             PROVE  SoloSettlement'
  BY DEF SoloSettlement
<1>a. overlapped = FALSE
  BY OverlapStays DEF TypeOK
<1>b. /\ \A a, b \in Admins : Settling(a) /\ Settling(b) => a = b
      /\ \A a \in Admins : At(a, "mark") => wonBy[admin[a].ticket] = NoDraw
      /\ \A a \in Admins :
           At(a, "settle") /\ admin[a].ticket # NoNumber =>
             wonBy[admin[a].ticket] = admin[a].draw
  BY <1>a DEF SoloSettlement
<1>c. ASSUME NEW a \in Admins, UNCHANGED wonBy, admin'[a].pc \in {"idle", "cancel"},
             \A b \in Admins : b # a => admin'[b] = admin[b]
      PROVE  SoloSettlement'
  BY <1>b, <1>c DEF SoloSettlement, At, Settling
<1>1. CASE UNCHANGED <<admin, wonBy>>
  BY <1>b, <1>1 DEF SoloSettlement, At, Settling
<1>2. ASSUME NEW a \in Admins, NEW d \in Draws, NEW n \in Numbers, ReadDraw(a, d, n)
      PROVE  SoloSettlement'
  <2>1. \A b \in Admins : ~Settling(b)
    BY <1>2 DEF ReadDraw
  <2>2. UNCHANGED wonBy
    BY <1>2 DEF ReadDraw
  <2> QED
    BY <1>2, <2>1, <2>2, ReadDrawLemma DEF SoloSettlement, At, Settling
<1>3. ASSUME NEW a \in Admins, FindEligible(a) PROVE SoloSettlement'
  <2>1. Settling(a) /\ admin[a].ticket = NoNumber /\ UNCHANGED wonBy
    BY <1>3 DEF FindEligible, FoundTickets, At, Settling
  <2>2. \A b \in Admins : b # a => ~Settling(b)
    BY <1>b, <2>1
  <2>3. \A b \in Admins : b # a => ~Settling(b)'
    BY <1>3, <2>2, FindEligibleLemma DEF Settling
  <2>4. /\ At(a, "mark")' => wonBy'[admin'[a].ticket] = NoDraw
        /\ At(a, "settle")' => admin'[a].ticket = NoNumber
    BY <1>3, <2>1, FindEligibleLemma DEF At, Eligible
  <2> QED
    BY <2>3, <2>4 DEF SoloSettlement, At, Settling
<1>4. ASSUME NEW a \in Admins, MarkTicketAsWinner(a) PROVE SoloSettlement'
  <2>1. Settling(a) /\ admin[a].ticket \in Numbers /\ wonBy[admin[a].ticket] = NoDraw
    BY <1>4, <1>b DEF MarkTicketAsWinner, At, Settling, TypeOK
  <2>2. wonBy'[admin[a].ticket] = admin[a].draw
    BY <1>4, <2>1 DEF MarkTicketAsWinner, Won, TypeOK
  <2>3. \A b \in Admins : b # a => ~Settling(b)'
    BY <1>b, <1>4, <2>1, MarkLemma DEF Settling
  <2> QED
    BY <1>4, <2>2, <2>3, MarkLemma DEF SoloSettlement, At, Settling
<1>5. ASSUME NEW a \in Admins, MarkAsSettled(a) \/ CancelPrizeDraw(a) \/ Crash(a)
      PROVE  SoloSettlement'
  BY <1>5, <1>c, FinishLemma DEF MarkAsSettled, CancelPrizeDraw, Crash
<1>6. ASSUME NEW a \in Admins, NEW d \in Draws, ReadForCancel(a, d) PROVE SoloSettlement'
  BY <1>6, <1>c, ReadForCancelLemma DEF ReadForCancel
<1> QED
  BY <1>1, <1>2, <1>3, <1>4, <1>5, <1>6
  DEF Next, Settle, Cancel, vars, Schedule, AssignTickets

LEMMA StepAgree ==
    TypeOK /\ ShownWinnersHaveWon /\ SoloSettlement /\ WinnersAgree /\ [Next]_vars
        => WinnersAgree'
<1> SUFFICES ASSUME TypeOK, ShownWinnersHaveWon, SoloSettlement, WinnersAgree, [Next]_vars,
                    ~overlapped', NEW d \in Draws, draws'[d].ticket # NoNumber
             PROVE  wonBy'[draws'[d].ticket] = d
  BY DEF WinnersAgree
<1>1. overlapped = FALSE
  BY OverlapStays DEF TypeOK
<1>2. draws[d].ticket \in Numbers \cup {NoNumber}
  BY DEF TypeOK, DrawRecords
<1>3. CASE draws'[d].ticket = draws[d].ticket
  <2>1. wonBy[draws[d].ticket] = d
    BY <1>1, <1>3 DEF WinnersAgree
  <2> QED
    BY <1>2, <1>3, <2>1, Monotone, SettlementAssumption
<1>4. ASSUME NEW a \in Admins, MarkAsSettled(a), d = admin[a].draw,
             draws'[d].ticket = admin[a].ticket
      PROVE  wonBy'[draws'[d].ticket] = d
  BY <1>1, <1>4 DEF SoloSettlement, MarkAsSettled
<1> QED
  BY <1>3, <1>4, ShownSteps

\* As long as no two settlements overlap, a draw and the ticket it shows agree on the prize.
THEOREM DrawsAndTicketsAgree == Spec => []WinnersAgree
<1>1. Init => FoundTickets /\ ShownWinnersHaveWon /\ SoloSettlement /\ WinnersAgree
  BY DEF Init, FoundTickets, ShownWinnersHaveWon, SoloSettlement, WinnersAgree, IdleAdmin,
         NoPrize, At, Settling
<1> QED
  BY <1>1, InitTypeOK, StepTypeOK, StepFound, StepShown, StepSolo, StepAgree, PTL DEF Spec

-------------------------------------------------------------------------------
\* The statuses of the draws.

\* A draw that has no status has nothing else, and requests are about draws that have one.
Created ==
    /\ \A d \in Draws : draws[d].status = "absent" => draws[d] = NoPrize
    /\ \A a \in Admins : ~At(a, "idle") => draws[admin[a].draw].status # "absent"

\* What Life is instantiated with.
StatusNow == [d \in Draws |-> draws[d].status]
CancellingNow == {admin[a].draw : a \in {b \in Admins : At(b, "cancel")}}

\* How a step moves the draw d: as one of the four statements that write a draw.
LEMMA DrawSteps ==
    ASSUME TypeOK, [Next]_vars
    PROVE  \/ UNCHANGED draws
           \/ \E d \in Draws : Schedule(d) /\ draws' = [draws EXCEPT ![d] = Scheduled]
           \/ \E a \in Admins : MarkAsSettled(a) /\ admin[a].draw \in Draws
           \/ \E a \in Admins : CancelPrizeDraw(a) /\ admin[a].draw \in Draws
<1>1. \A a \in Admins : MarkAsSettled(a) \/ CancelPrizeDraw(a) => admin[a].draw \in Draws
  BY DEF TypeOK, MarkAsSettled, CancelPrizeDraw, At
<1>2. \A d \in Draws : Schedule(d) => draws' = [draws EXCEPT ![d] = Scheduled]
  BY DEF Schedule
<1> QED
  BY <1>1, <1>2 DEF Next, Settle, Cancel, vars, AssignTickets, ReadDraw, FindEligible,
     MarkTicketAsWinner, ReadForCancel, Crash

\* No step takes a draw's status away or leaves a draw without a status other data.
LEMMA StatusSteps ==
    ASSUME TypeOK, Created, [Next]_vars, NEW d \in Draws
    PROVE  /\ draws[d].status # "absent" => draws'[d].status # "absent"
           /\ draws'[d].status = "absent" => draws'[d] = NoPrize
<1>0. draws \in [Draws -> DrawRecords]
  BY DEF TypeOK
<1>1. CASE UNCHANGED draws
  BY <1>1 DEF Created
<1>2. ASSUME NEW e \in Draws, draws' = [draws EXCEPT ![e] = Scheduled]
      PROVE  draws'[d] = draws[d] \/ draws'[d].status = "scheduled"
  BY <1>0, <1>2 DEF Scheduled, NoPrize
<1>3. ASSUME NEW a \in Admins, MarkAsSettled(a)
      PROVE  draws'[d] = draws[d] \/ draws'[d].status = "drawn"
  BY <1>0, <1>3 DEF MarkAsSettled, Drawn
<1>4. ASSUME NEW a \in Admins, CancelPrizeDraw(a)
      PROVE  draws'[d] = draws[d] \/ draws'[d].status = "cancelled"
  BY <1>0, <1>4 DEF CancelPrizeDraw, DrawRecords
<1> QED
  BY <1>1, <1>2, <1>3, <1>4, DrawSteps DEF Created

LEMMA StepCreated ==
    TypeOK /\ Created /\ [Next]_vars => Created'
<1> SUFFICES ASSUME TypeOK, Created, [Next]_vars, NEW b \in Admins
             PROVE  ~At(b, "idle")' => draws'[admin'[b].draw].status # "absent"
  BY StatusSteps DEF Created
<1>a. ASSUME admin'[b] = admin[b] \/ (~At(b, "idle") /\ admin'[b].draw = admin[b].draw)
      PROVE  ~At(b, "idle")' => draws'[admin'[b].draw].status # "absent"
  <2>1. ~At(b, "idle") => admin[b].draw \in Draws /\ draws[admin[b].draw].status # "absent"
    BY DEF TypeOK, Created
  <2> QED
    BY <1>a, <2>1, StatusSteps DEF At
<1>1. CASE UNCHANGED admin
  BY <1>1, <1>a
<1>2. ASSUME NEW a \in Admins, NEW d \in Draws, NEW n \in Numbers, ReadDraw(a, d, n)
      PROVE  ~At(b, "idle")' => draws'[admin'[b].draw].status # "absent"
  <2>1. draws[d].status # "absent"
    BY <1>2 DEF ReadDraw, Created
  <2> QED
    BY <1>2, <1>a, <2>1, ReadDrawLemma, StatusSteps
<1>3. ASSUME NEW a \in Admins, FindEligible(a)
      PROVE  ~At(b, "idle")' => draws'[admin'[b].draw].status # "absent"
  BY <1>3, <1>a, FindEligibleLemma DEF FindEligible, At
<1>4. ASSUME NEW a \in Admins, MarkTicketAsWinner(a)
      PROVE  ~At(b, "idle")' => draws'[admin'[b].draw].status # "absent"
  BY <1>4, <1>a, MarkLemma DEF MarkTicketAsWinner, At
<1>5. ASSUME NEW a \in Admins, Finish(a)
      PROVE  ~At(b, "idle")' => draws'[admin'[b].draw].status # "absent"
  BY <1>5, <1>a, FinishLemma DEF At
<1>6. ASSUME NEW a \in Admins, NEW d \in Draws, ReadForCancel(a, d)
      PROVE  ~At(b, "idle")' => draws'[admin'[b].draw].status # "absent"
  <2>1. draws[d].status # "absent"
    BY <1>6 DEF ReadForCancel
  <2> QED
    BY <1>6, <1>a, <2>1, ReadForCancelLemma, StatusSteps
<1> QED
  BY <1>1, <1>2, <1>3, <1>4, <1>5, <1>6
  DEF Next, Settle, Cancel, vars, Schedule, AssignTickets, MarkAsSettled, CancelPrizeDraw, Crash

\* A request that neither is about to cancel nor becomes so leaves CancellingNow alone; one that
\* ends takes at most its own draw out of it.
LEMMA CancellingSteps ==
    ASSUME TypeOK, NEW a \in Admins, admin' \in [Admins -> AdminRecords],
           \A b \in Admins : b # a => admin'[b] = admin[b]
    PROVE  /\ ~At(a, "cancel") /\ ~At(a, "cancel")' => UNCHANGED CancellingNow
           /\ At(a, "cancel") /\ ~At(a, "cancel")' =>
                CancellingNow' \in {CancellingNow, CancellingNow \ {admin[a].draw}}
           /\ ~At(a, "cancel") /\ At(a, "cancel")' =>
                CancellingNow' = CancellingNow \cup {admin'[a].draw}
  BY DEF CancellingNow, At

LEMMA StepLife ==
    TypeOK /\ Created /\ [Next]_vars => [Life!Next]_Life!lifeVars
<1> SUFFICES ASSUME TypeOK, Created, [Next]_vars
             PROVE  [Life!Next]_Life!lifeVars
  OBVIOUS
<1>0. draws \in [Draws -> DrawRecords]
  BY DEF TypeOK
<1>a. ASSUME UNCHANGED <<StatusNow, CancellingNow>> PROVE UNCHANGED Life!lifeVars
  BY <1>a DEF Life!lifeVars, StatusNow, CancellingNow
<1>b. UNCHANGED draws => UNCHANGED StatusNow
  BY DEF StatusNow
<1>c. UNCHANGED admin => UNCHANGED CancellingNow
  BY DEF CancellingNow, At
<1>1. ASSUME NEW d \in Draws, Schedule(d) PROVE Life!Schedule(d)
  <2>1. StatusNow' = [StatusNow EXCEPT ![d] = "scheduled"]
    <3>1. \A e \in Draws : draws'[e].status = IF e = d THEN "scheduled" ELSE draws[e].status
      BY <1>0, <1>1 DEF Schedule, Scheduled, NoPrize
    <3> QED
      BY <3>1 DEF StatusNow
  <2>2. draws[d].status = "absent" /\ UNCHANGED CancellingNow
    BY <1>1, <1>c DEF Schedule, NoPrize
  <2> QED
    BY <2>1, <2>2 DEF Life!Schedule, Life!Become, StatusNow, CancellingNow
<1>2. ASSUME NEW bought \in SUBSET Numbers, AssignTickets(bought) PROVE UNCHANGED Life!lifeVars
  BY <1>2, <1>a, <1>b, <1>c DEF AssignTickets
<1>3. ASSUME NEW a \in Admins, NEW d \in Draws, NEW n \in Numbers, ReadDraw(a, d, n)
      PROVE  UNCHANGED Life!lifeVars
  BY <1>3, <1>a, <1>b, ReadDrawLemma, CancellingSteps DEF ReadDraw, At
<1>4. ASSUME NEW a \in Admins, FindEligible(a) PROVE UNCHANGED Life!lifeVars
  BY <1>4, <1>a, <1>b, FindEligibleLemma, CancellingSteps DEF FindEligible, At
<1>5. ASSUME NEW a \in Admins, MarkTicketAsWinner(a) PROVE UNCHANGED Life!lifeVars
  BY <1>5, <1>a, <1>b, MarkLemma, CancellingSteps DEF MarkTicketAsWinner, At
<1>6. ASSUME NEW a \in Admins, MarkAsSettled(a)
      PROVE  \E d \in Draws : Life!Settle(d)
  <2>1. PICK d \in Draws : d = admin[a].draw /\ draws[d].status # "absent"
    BY <1>6 DEF MarkAsSettled, TypeOK, Created, At
  <2>2. \A e \in Draws : draws'[e].status = IF e = d THEN "drawn" ELSE draws[e].status
    BY <1>0, <1>6, <2>1 DEF MarkAsSettled, Drawn
  <2>3. UNCHANGED CancellingNow
    BY <1>6, FinishLemma, CancellingSteps DEF MarkAsSettled, At
  <2>4. StatusNow' = [StatusNow EXCEPT ![d] = "drawn"]
    BY <2>1, <2>2 DEF StatusNow
  <2>5. Life!Settle(d)
    BY <2>1, <2>3, <2>4 DEF Life!Settle, Life!Become, StatusNow, CancellingNow
  <2> QED
    BY <2>1, <2>5
<1>7. ASSUME NEW a \in Admins, NEW d \in Draws, ReadForCancel(a, d)
      PROVE  Life!FindForCancel(d)
  <2>1. CancellingNow' = CancellingNow \cup {d}
    BY <1>7, ReadForCancelLemma, CancellingSteps DEF ReadForCancel, At
  <2>2. draws[d].status \in {"scheduled", "cancelled"} /\ UNCHANGED StatusNow
    BY <1>7, <1>b DEF ReadForCancel
  <2> QED
    BY <2>1, <2>2 DEF Life!FindForCancel, StatusNow, CancellingNow
<1>8. ASSUME NEW a \in Admins, CancelPrizeDraw(a)
      PROVE  \E d \in Draws : Life!Cancel(d)
  <2>1. PICK d \in Draws : d = admin[a].draw /\ d \in CancellingNow
    BY <1>8 DEF CancelPrizeDraw, TypeOK, CancellingNow, At
  <2>2. \A e \in Draws : draws'[e].status = IF e = d THEN "cancelled" ELSE draws[e].status
    BY <1>0, <1>8, <2>1 DEF CancelPrizeDraw, DrawRecords
  <2>3. CancellingNow' \in {CancellingNow, CancellingNow \ {d}}
    BY <1>8, <2>1, FinishLemma, CancellingSteps DEF CancelPrizeDraw, At
  <2>4. StatusNow' = [StatusNow EXCEPT ![d] = "cancelled"]
    BY <2>1, <2>2 DEF StatusNow
  <2>5. Life!Cancel(d)
    BY <2>1, <2>3, <2>4 DEF Life!Cancel, Life!Become, StatusNow, CancellingNow
  <2> QED
    BY <2>1, <2>5
<1>9. ASSUME NEW a \in Admins, Crash(a)
      PROVE  UNCHANGED Life!lifeVars \/ \E d \in Draws : Life!GiveUp(d)
  <2>0. UNCHANGED StatusNow
    BY <1>9, <1>b DEF Crash
  <2>1. PICK d \in Draws : d = admin[a].draw
    BY <1>9 DEF Crash, TypeOK
  <2>2. CancellingNow' \in {CancellingNow, CancellingNow \ {d}}
    BY <1>9, <2>1, FinishLemma, CancellingSteps DEF Crash, At
  <2>3. CASE UNCHANGED CancellingNow
    BY <1>a, <2>0, <2>3
  <2>4. CASE CancellingNow' = CancellingNow \ {d}
    <3>1. Life!GiveUp(d)
      BY <2>0, <2>4 DEF Life!GiveUp, StatusNow, CancellingNow
    <3> QED
      BY <2>1, <3>1
  <2> QED
    BY <2>2, <2>3, <2>4
<1>10. CASE UNCHANGED vars
  BY <1>10, <1>a, <1>b, <1>c DEF vars
<1> QED
  BY <1>1, <1>2, <1>3, <1>4, <1>5, <1>6, <1>7, <1>8, <1>9, <1>10
  DEF Next, Settle, Cancel, Life!Next

\* However settlements, cancellations and crashes interleave, no draw is scheduled again, and a
\* drawn one is cancelled only by a request that had found it not yet drawn.
THEOREM DrawsLive == Spec => LifeSpec
<1>1. Init => Created /\ Life!Init
  <2> SUFFICES ASSUME Init PROVE Created /\ Life!Init
    OBVIOUS
  <2>1. Created /\ CancellingNow = {}
    BY DEF Init, Created, CancellingNow, At, IdleAdmin, NoPrize
  <2>2. StatusNow = [d \in Draws |-> "absent"]
    BY DEF Init, StatusNow, NoPrize
  <2> QED
    BY <2>1, <2>2 DEF Life!Init, StatusNow, CancellingNow
<1> QED
  BY <1>1, InitTypeOK, StepTypeOK, StepCreated, StepLife, PTL DEF Spec, LifeSpec, Life!Spec
===============================================================================
