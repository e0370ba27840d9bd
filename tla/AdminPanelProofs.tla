--------------------------- MODULE AdminPanelProofs ---------------------------
(***************************************************************************)
(* Proofs about AdminPanel for every set of prize draws and any numbers of *)
(* tickets the raffle and its inventory may have.                          *)
(***************************************************************************)
EXTENDS AdminPanel, TLAPS

-------------------------------------------------------------------------------
\* Where a step takes the panel.

LEMMA StatusSet == Statuses = {"absent", "scheduled", "drawn", "cancelled"}
  BY DEF Statuses, Life!Statuses

LEMMA EmptyAnswers == Nothing \in [Draws -> Statuses] /\ NoAnswer \in Answers /\ NoData \in Screens
  BY PanelAssumption, StatusSet DEF Nothing, NoAnswer, NoData, Answers, Screens, Reads

LEMMA SubmitLemma ==
    ASSUME TypeOK, NEW op \in {"login", "search"} \cup Changes, NEW d \in Draws \cup {NoDraw},
           Submit(op, d)
    PROVE  /\ panel' \in PanelRecords
           /\ panel'.pc = IF op = "search" THEN "reload" ELSE "sent"
           /\ panel'.op = op /\ panel'.draw = d /\ panel'.got = NoAnswer
           /\ panel'.loading = TRUE /\ panel'.error = FALSE
           /\ panel'.token = panel.token /\ panel'.data = panel.data
  BY EmptyAnswers DEF TypeOK, Submit, PanelRecords

LEMMA EndedLemma ==
    ASSUME TypeOK, NEW e \in BOOLEAN
    PROVE  /\ Ended(e) \in PanelRecords
           /\ Ended(e).pc = "idle" /\ Ended(e).loading = FALSE /\ Ended(e).error = e
           /\ Ended(e).op = panel.op /\ Ended(e).draw = panel.draw
           /\ Ended(e).data = panel.data /\ Ended(e).got = NoAnswer
  BY EmptyAnswers DEF TypeOK, Ended, PanelRecords

\* What an executed change has done to the draw d, and that the panel has got to that point.
LEMMA ExecuteLemma ==
    ASSUME TypeOK, NEW d \in Draws, NEW status \in Statuses, Execute(d, status)
    PROVE  /\ draws' \in [Draws -> Statuses] /\ draws'[d] = status
           /\ \A e \in Draws : e # d => draws'[e] = draws[e]
           /\ panel' \in PanelRecords
           /\ panel'.pc = "executed" /\ panel'.draw = d
           /\ panel'.op = panel.op /\ panel'.token = panel.token
           /\ panel'.loading = panel.loading /\ panel'.error = panel.error
           /\ panel'.data = panel.data /\ panel'.got = panel.got
<1>1. draws' \in [Draws -> Statuses] /\ draws'[d] = status
      /\ \A e \in Draws : e # d => draws'[e] = draws[e]
  BY DEF TypeOK, Execute
<1>2. panel' = [panel EXCEPT !.pc = "executed", !.draw = d] /\ panel \in PanelRecords
  BY DEF TypeOK, Execute
<1> QED
  BY <1>1, <1>2 DEF PanelRecords

Change == CreateDraw \/ SettleDraw \/ CancelDraw

\* A change is executed on one draw, which it leaves in a status of its own.
LEMMA ChangeLemma ==
    ASSUME TypeOK, Change
    PROVE  \E d \in Draws, status \in {"scheduled", "drawn", "cancelled"} :
             /\ Execute(d, status)
             /\ panel.op \in Changes
             /\ panel.op \in {"settle", "cancel"} => d = panel.draw /\ status # "scheduled"
             /\ panel.op = "settle" => draws[d] # "absent"
             /\ settled' = IF panel.op = "settle" THEN settled \cup {d} ELSE settled
             /\ resettled' = (resettled \/ (panel.op = "settle" /\ d \in settled))
             /\ panel.op = "create" => draws[d] = "absent" /\ status = "scheduled"
<1>0. panel.op \in {"settle", "cancel"} /\ panel.pc \in {"sent", "found"} => panel.draw \in Draws
  BY DEF TypeOK, Targeted
<1>r. resettled \in BOOLEAN
  BY DEF TypeOK
<1>1. CASE CreateDraw
  BY <1>1, <1>r DEF CreateDraw, Changes
<1>2. CASE SettleDraw
  <2>1. /\ panel.draw \in Draws /\ panel.op = "settle" /\ draws[panel.draw] # "absent"
        /\ Execute(panel.draw, "drawn") /\ settled' = settled \cup {panel.draw}
        /\ resettled' = (resettled \/ panel.draw \in settled)
    BY <1>0, <1>2 DEF SettleDraw, At
  <2> QED
    BY <2>1 DEF Changes
<1>3. CASE CancelDraw
  <2>1. /\ panel.draw \in Draws /\ panel.op = "cancel"
        /\ Execute(panel.draw, "cancelled") /\ settled' = settled /\ resettled' = resettled
    BY <1>0, <1>3 DEF CancelDraw, At, TypeOK, Targeted
  <2> QED
    BY <1>r, <2>1 DEF Changes
<1> QED
  BY <1>1, <1>2, <1>3 DEF Change

\* The steps that only move the panel on: to another place, or with another token.
LEMMA MoveLemma ==
    ASSUME TypeOK, FindForCancel \/ AcceptLogin \/ Answered \/ Expire
    PROVE  /\ panel' \in PanelRecords
           /\ panel'.op = panel.op /\ panel'.draw = panel.draw
           /\ panel'.loading = panel.loading /\ panel'.error = panel.error
           /\ panel'.data = panel.data /\ panel'.got = panel.got
           /\ UNCHANGED <<world, missed>>
           /\ FindForCancel => panel'.pc = "found"
           /\ AcceptLogin \/ Answered => panel'.pc = "reload"
           /\ Expire => panel'.pc = panel.pc
<1>1. panel \in PanelRecords
  BY DEF TypeOK
<1>2. CASE FindForCancel
  <2>1. panel' = [panel EXCEPT !.pc = "found"] /\ panel.pc = "sent" /\ UNCHANGED <<world, missed>>
    BY <1>2 DEF FindForCancel, At
  <2> QED
    BY <1>1, <2>1 DEF PanelRecords, AcceptLogin, Answered, Expire, At
<1>3. CASE AcceptLogin
  BY <1>1, <1>3 DEF PanelRecords, AcceptLogin, Answered, FindForCancel, Expire, At
<1>4. CASE Answered
  BY <1>1, <1>4 DEF PanelRecords, AcceptLogin, Answered, FindForCancel, Expire, At
<1>5. CASE Expire
  BY <1>1, <1>5 DEF PanelRecords, AcceptLogin, Answered, FindForCancel, Expire, At
<1> QED
  BY <1>2, <1>3, <1>4, <1>5

LEMMA ReadLemma ==
    ASSUME TypeOK, NEW read \in Reads, NEW got \in Answers, got.reads = panel.got.reads,
           Read(read, got)
    PROVE  /\ panel' \in PanelRecords
           /\ panel'.got \in Answers
           /\ panel'.got.reads = panel.got.reads \cup {read}
           /\ panel'.got.draws = got.draws /\ panel'.got.sold = got.sold
           /\ panel'.got.reserved = got.reserved /\ panel'.got.assigned = got.assigned
           /\ panel'.pc = "reload" /\ panel'.op = panel.op /\ panel'.draw = panel.draw
           /\ panel'.loading = panel.loading /\ panel'.error = panel.error
           /\ panel'.token = panel.token /\ panel'.data = panel.data
<1> DEFINE next == [got EXCEPT !.reads = @ \cup {read}]
<1>1. /\ next \in Answers /\ next.reads = panel.got.reads \cup {read}
      /\ next.draws = got.draws /\ next.sold = got.sold
      /\ next.reserved = got.reserved /\ next.assigned = got.assigned
  BY DEF Answers
<1>2. panel' = [panel EXCEPT !.got = next] /\ panel.pc = "reload"
  BY DEF Read, At
<1> HIDE DEF next
<1> QED
  BY <1>1, <1>2 DEF TypeOK, PanelRecords

\* The four reads, each with the answer it gives.
LEMMA ReadsLemma ==
    ASSUME TypeOK, ReadDraws \/ ReadRaffle \/ CountReserved \/ CountAssigned
    PROVE  \E read \in Reads, got \in Answers :
             /\ Read(read, got) /\ got.reads = panel.got.reads
             /\ got.draws = IF read = "draws" THEN draws ELSE panel.got.draws
             /\ got.sold = IF read = "raffle" THEN sold ELSE panel.got.sold
             /\ got.reserved = IF read = "reserved" THEN reserved ELSE panel.got.reserved
             /\ got.assigned = IF read = "assigned" THEN assigned ELSE panel.got.assigned
             /\ read \in {"reserved", "assigned"} => "raffle" \in panel.got.reads
<1>a. panel.got \in Answers /\ draws \in [Draws -> Statuses]
  BY DEF TypeOK, PanelRecords
<1>b. sold \in 0..Limit /\ reserved \in 0..Limit /\ assigned \in 0..Limit
  BY PanelAssumption DEF TypeOK
<1>1. CASE ReadDraws
  <2>1. [panel.got EXCEPT !.draws = draws] \in Answers
    BY <1>a DEF Answers
  <2> QED
    BY <1>1, <1>a, <2>1 DEF ReadDraws, Answers, Reads
<1>2. CASE ReadRaffle
  <2>1. [panel.got EXCEPT !.sold = sold] \in Answers
    BY <1>a, <1>b DEF Answers
  <2> QED
    BY <1>2, <1>a, <2>1 DEF ReadRaffle, Answers, Reads
<1>3. CASE CountReserved
  <2>1. [panel.got EXCEPT !.reserved = reserved] \in Answers
    BY <1>a, <1>b DEF Answers
  <2> QED
    BY <1>3, <1>a, <2>1 DEF CountReserved, Answers, Reads
<1>4. CASE CountAssigned
  <2>1. [panel.got EXCEPT !.assigned = assigned] \in Answers
    BY <1>a, <1>b DEF Answers
  <2> QED
    BY <1>4, <1>a, <2>1 DEF CountAssigned, Answers, Reads
<1> QED
  BY <1>1, <1>2, <1>3, <1>4

LEMMA ReloadedLemma ==
    ASSUME TypeOK, Reloaded
    PROVE  /\ panel' \in PanelRecords
           /\ panel'.pc = "idle" /\ panel'.loading = FALSE /\ panel'.error = FALSE
           /\ panel'.op = panel.op /\ panel'.draw = panel.draw /\ panel'.got = NoAnswer
           /\ panel'.data.draws = panel.got.draws
           /\ panel'.data.available = Available(panel.got)
           /\ panel'.data.reserved = panel.got.reserved
           /\ panel'.data.assigned = panel.got.assigned
<1> DEFINE data == [draws |-> panel.got.draws, available |-> Available(panel.got),
                    reserved |-> panel.got.reserved, assigned |-> panel.got.assigned]
<1>1. panel.got \in Answers
  BY DEF TypeOK, PanelRecords
<1>2. Available(panel.got) \in 0..Total
  BY <1>1, PanelAssumption DEF Answers, Available
<1>3. data \in Screens
  BY <1>1, <1>2 DEF Answers, Screens
<1>4. panel' = [Ended(FALSE) EXCEPT !.data = data]
  BY DEF Reloaded
<1>5. /\ data.draws = panel.got.draws /\ data.available = Available(panel.got)
      /\ data.reserved = panel.got.reserved /\ data.assigned = panel.got.assigned
  OBVIOUS
<1> HIDE DEF data
<1> QED
  BY <1>3, <1>4, <1>5, EndedLemma DEF PanelRecords

-------------------------------------------------------------------------------
\* Types

LEMMA InitTypeOK == Init => TypeOK
<1> SUFFICES ASSUME Init PROVE TypeOK
  OBVIOUS
<1>1. panel \in PanelRecords /\ Targeted
  BY EmptyAnswers DEF Init, NewPanel, PanelRecords, Targeted, At
<1>2. draws \in [Draws -> Statuses] /\ cancelling \subseteq Draws
  BY StatusSet DEF Init, Life!Init
<1>3. reserved \in Nat /\ assigned \in Nat /\ reserved + assigned <= Limit /\ sold \in 0..assigned
  BY PanelAssumption DEF Init, Counts!Init
<1>4. settled \subseteq Draws /\ {resettled, missed} \subseteq BOOLEAN
  BY DEF Init
<1>5. role \in {"owner", "admin", "support", "viewer"}
  BY DEF Init
<1> QED
  BY <1>1, <1>2, <1>3, <1>4, <1>5 DEF TypeOK

\* The sale keeps the counts in their bounds; the count of assigned tickets only grows.
LEMMA CountSteps ==
    ASSUME TypeOK, Sell \/ SetSoldTickets
    PROVE  /\ reserved' \in Nat /\ assigned' \in Nat /\ reserved' + assigned' <= Limit
           /\ sold' \in 0..assigned'
           /\ assigned <= assigned'
           /\ UNCHANGED <<draws, cancelling, role, panel, settled, resettled, missed>>
<1>1. reserved \in Nat /\ assigned \in Nat /\ reserved + assigned <= Limit /\ sold \in 0..assigned
  BY DEF TypeOK
<1>2. PICK k \in 0..Limit :
        Counts!Reserve(k) \/ Counts!Assign(k) \/ Counts!Release(k) \/ Counts!SetSold(k)
  BY PanelAssumption DEF Sell, SetSoldTickets
<1>3. reserved' \in Nat /\ assigned' \in Nat /\ reserved' + assigned' <= Limit
      /\ sold' \in 0..assigned' /\ assigned <= assigned'
  BY <1>1, <1>2, PanelAssumption
  DEF Counts!Reserve, Counts!Assign, Counts!Release, Counts!SetSold
<1> QED
  BY <1>3 DEF Sell, SetSoldTickets

\* What can become of a draw's status.
LEMMA LifeSteps ==
    ASSUME TypeOK, Life!Next
    PROVE  /\ draws' \in [Draws -> Statuses] /\ cancelling' \subseteq Draws
           /\ \A d \in Draws : \/ draws'[d] = draws[d]
                               \/ draws[d] = "absent" /\ draws'[d] = "scheduled"
                               \/ draws'[d] \in {"drawn", "cancelled"}
<1>1. draws \in [Draws -> Statuses] /\ cancelling \subseteq Draws
  BY DEF TypeOK
<1>2. PICK d \in Draws : \/ Life!Schedule(d) \/ Life!Settle(d) \/ Life!FindForCancel(d)
                         \/ Life!Cancel(d) \/ Life!GiveUp(d)
  BY DEF Life!Next
<1> QED
  BY <1>1, <1>2, StatusSet
  DEF Life!Schedule, Life!Settle, Life!FindForCancel, Life!Cancel, Life!GiveUp, Life!Become

\* Each step keeps the state well typed.
LEMMA StepTypeOK == TypeOK /\ [Next]_vars => TypeOK'
<1> SUFFICES ASSUME TypeOK, [Next]_vars
             PROVE  TypeOK'
  OBVIOUS
<1> USE PanelAssumption
<1>t. panel \in PanelRecords /\ Targeted
  BY DEF TypeOK
<1>u. ASSUME UNCHANGED world, panel' \in PanelRecords, Targeted', missed' \in BOOLEAN
      PROVE  TypeOK'
  BY <1>u DEF world, counts, TypeOK
<1>1. CASE UNCHANGED vars
  BY <1>1 DEF vars, counts, TypeOK, Targeted, At
<1>2. ASSUME NEW op \in {"login", "search"} \cup Changes, NEW d \in Draws \cup {NoDraw},
             Submit(op, d), op \in {"settle", "cancel"} => d \in Draws
      PROVE  TypeOK'
  <2>1. panel' \in PanelRecords /\ Targeted'
    BY <1>2, SubmitLemma DEF Targeted, At
  <2> QED
    BY <1>2, <1>u, <2>1 DEF Submit, TypeOK
<1>3. CASE Change
  <2>1. PICK d \in Draws, status \in {"scheduled", "drawn", "cancelled"} :
          /\ Execute(d, status)
          /\ settled' = IF panel.op = "settle" THEN settled \cup {d} ELSE settled
          /\ resettled' = (resettled \/ (panel.op = "settle" /\ d \in settled))
    BY <1>3, ChangeLemma
  <2>2. draws' \in [Draws -> Statuses] /\ panel' \in PanelRecords /\ Targeted'
    BY <2>1, ExecuteLemma, StatusSet DEF Targeted, At
  <2>3. settled' \subseteq Draws /\ resettled' \in BOOLEAN
    BY <2>1 DEF TypeOK
  <2>4. UNCHANGED <<cancelling, counts, role, missed>>
    BY <2>1 DEF Execute
  <2> QED
    BY <2>2, <2>3, <2>4 DEF TypeOK, counts
<1>4. CASE FindForCancel \/ AcceptLogin \/ Answered \/ Expire
  <2>1. panel' \in PanelRecords /\ UNCHANGED <<world, missed>>
    BY <1>4, MoveLemma
  <2>2. Targeted'
    <3>1. panel'.op = panel.op /\ panel'.draw = panel.draw
      BY <1>4, MoveLemma
    <3>2. panel'.pc = "found" => panel.op = "cancel"
      BY <1>4, <1>t, MoveLemma DEF Targeted, FindForCancel, AcceptLogin, Answered, Expire, At
    <3> QED
      BY <1>t, <3>1, <3>2 DEF Targeted, At
  <2> QED
    BY <1>u, <2>1, <2>2 DEF TypeOK
<1>5. CASE Refused \/ AnswerLost \/ ReloadFails \/ AnswerBroken
  <2>1. /\ missed' \in BOOLEAN /\ panel' = Ended(TRUE)
        /\ UNCHANGED <<draws, counts, role, settled, resettled>>
    BY <1>5 DEF Refused, AnswerLost, ReloadFails, AnswerBroken, TypeOK, world
  <2>2. panel' \in PanelRecords /\ Targeted'
    BY <1>t, <2>1, EndedLemma DEF Targeted, At
  <2>3. cancelling' \subseteq Draws
    BY <1>5 DEF Refused, AnswerLost, ReloadFails, AnswerBroken, TypeOK, Targeted, world
  <2> QED
    BY <2>1, <2>2, <2>3 DEF TypeOK, counts
<1>6. CASE ReadDraws \/ ReadRaffle \/ CountReserved \/ CountAssigned
  <2>1. panel' \in PanelRecords /\ panel'.pc = "reload" /\ panel'.op = panel.op
        /\ panel'.draw = panel.draw
    BY <1>6, ReadsLemma, ReadLemma
  <2>2. UNCHANGED <<world, missed>>
    BY <1>6 DEF ReadDraws, ReadRaffle, CountReserved, CountAssigned, Read
  <2>3. Targeted'
    BY <1>t, <2>1 DEF Targeted, At
  <2> QED
    BY <1>u, <2>1, <2>2, <2>3 DEF TypeOK
<1>7. CASE Reloaded
  <2>1. panel' \in PanelRecords /\ Targeted'
    BY <1>7, <1>t, ReloadedLemma DEF Targeted, At
  <2> QED
    BY <1>7, <1>u, <2>1 DEF Reloaded, TypeOK
<1>8. CASE Elsewhere
  <2>1. draws' \in [Draws -> Statuses] /\ cancelling' \subseteq Draws
    BY <1>8, LifeSteps DEF Elsewhere
  <2>2. UNCHANGED <<counts, role, panel, settled, resettled, missed>>
    BY <1>8 DEF Elsewhere
  <2> QED
    BY <2>1, <2>2 DEF TypeOK, Targeted, At, counts
<1>9. CASE Sell \/ SetSoldTickets
  BY <1>9, CountSteps DEF TypeOK, Targeted, At
<1>10. Use => \E op \in {"login", "search"} \cup Changes, d \in Draws \cup {NoDraw} :
                Submit(op, d) /\ (op \in {"settle", "cancel"} => d \in Draws)
  BY DEF Use, SubmitLogin, SubmitCreate, SubmitSettle, SubmitCancel, Search, Changes
<1> QED
  BY <1>1, <1>2, <1>3, <1>4, <1>5, <1>6, <1>7, <1>8, <1>9, <1>10 DEF Next, Advance, Change

\* The data of the world, the panel and its screen keep their shape.
THEOREM TypeCorrect == Spec => []TypeOK
  BY InitTypeOK, StepTypeOK, PTL DEF Spec

-------------------------------------------------------------------------------
\* The inventory leaves no ticket out.

\* The count of sold tickets a reload has read is not above the assigned tickets, nor above
\* the number of them it counts later.
CountsInOrder ==
    /\ "raffle" \in panel.got.reads => panel.got.sold <= assigned
    /\ "assigned" \in panel.got.reads =>
         "raffle" \in panel.got.reads /\ panel.got.sold <= panel.got.assigned

LEMMA StepCounts ==
    TypeOK /\ CountsInOrder /\ InventoryLeavesNothingOut /\ [Next]_vars =>
        CountsInOrder' /\ InventoryLeavesNothingOut'
<1> SUFFICES ASSUME TypeOK, CountsInOrder, InventoryLeavesNothingOut, [Next]_vars
             PROVE  CountsInOrder' /\ InventoryLeavesNothingOut'
  OBVIOUS
<1>a. /\ panel.got.sold \in 0..Limit /\ panel.got.reserved \in 0..Limit
      /\ panel.got.assigned \in 0..Limit /\ panel.got.reads \subseteq Reads
  BY DEF TypeOK, PanelRecords, Answers
<1>b. sold \in 0..assigned /\ assigned \in Nat /\ Total \in Nat /\ Limit \in Nat
  BY PanelAssumption DEF TypeOK
<1>c. ASSUME panel'.got = panel.got, panel'.data = panel.data, assigned' \in Nat,
             assigned' >= assigned
      PROVE  CountsInOrder' /\ InventoryLeavesNothingOut'
  BY <1>a, <1>b, <1>c DEF CountsInOrder, InventoryLeavesNothingOut
<1>d. ASSUME panel'.got = NoAnswer, panel'.data = panel.data
      PROVE  CountsInOrder' /\ InventoryLeavesNothingOut'
  BY <1>d DEF CountsInOrder, InventoryLeavesNothingOut, NoAnswer
<1>1. CASE UNCHANGED vars
  BY <1>1, <1>b, <1>c DEF vars, counts
<1>2. CASE Use
  BY <1>2, <1>d, SubmitLemma
  DEF Use, SubmitLogin, SubmitCreate, SubmitSettle, SubmitCancel, Search, Changes
<1>3. CASE Change
  <2>1. panel'.got = panel.got /\ panel'.data = panel.data
    BY <1>3, ChangeLemma, ExecuteLemma, StatusSet
  <2>2. UNCHANGED assigned
    BY <1>3, ChangeLemma DEF Execute, counts
  <2> QED
    BY <1>b, <1>c, <2>1, <2>2
<1>4. CASE FindForCancel \/ AcceptLogin \/ Answered \/ Expire
  <2>1. panel'.got = panel.got /\ panel'.data = panel.data
    BY <1>4, MoveLemma
  <2>2. UNCHANGED assigned
    BY <1>4, MoveLemma DEF world, counts
  <2> QED
    BY <1>b, <1>c, <2>1, <2>2
<1>5. CASE Refused \/ AnswerLost \/ ReloadFails \/ AnswerBroken
  BY <1>5, <1>d, EndedLemma DEF Refused, AnswerLost, ReloadFails, AnswerBroken
<1>6. CASE ReadDraws \/ ReadRaffle \/ CountReserved \/ CountAssigned
  <2>1. UNCHANGED assigned
    BY <1>6 DEF ReadDraws, ReadRaffle, CountReserved, CountAssigned, Read, world, counts
  <2>2. PICK read \in Reads, got \in Answers :
          /\ Read(read, got) /\ got.reads = panel.got.reads
          /\ got.sold = IF read = "raffle" THEN sold ELSE panel.got.sold
          /\ got.assigned = IF read = "assigned" THEN assigned ELSE panel.got.assigned
          /\ read \in {"reserved", "assigned"} => "raffle" \in panel.got.reads
    BY <1>6, ReadsLemma
  <2>3. /\ panel'.got.reads = panel.got.reads \cup {read}
        /\ panel'.got.sold = got.sold /\ panel'.got.assigned = got.assigned
        /\ panel'.data = panel.data /\ read \notin panel.got.reads
    BY <2>2, ReadLemma DEF Read
  <2>4. read = "raffle" => "assigned" \notin panel.got.reads
    BY <2>3 DEF CountsInOrder
  <2> QED
    BY <1>a, <1>b, <2>1, <2>2, <2>3, <2>4 DEF CountsInOrder, InventoryLeavesNothingOut
<1>7. CASE Reloaded
  <2>1. panel.got.reads = Reads /\ UNCHANGED assigned
    BY <1>7 DEF Reloaded, world, counts
  <2>2. panel.got.sold <= panel.got.assigned
    BY <2>1 DEF CountsInOrder, Reads
  <2>3. Available(panel.got) + panel.got.reserved + panel.got.assigned >= Total
    BY <1>a, <1>b, <2>2 DEF Available
  <2>4. InventoryLeavesNothingOut'
    BY <1>7, <2>3, ReloadedLemma DEF InventoryLeavesNothingOut
  <2>5. CountsInOrder'
    BY <1>7, ReloadedLemma DEF CountsInOrder, NoAnswer
  <2> QED
    BY <2>4, <2>5
<1>8. CASE Elsewhere
  BY <1>8, <1>b, <1>c DEF Elsewhere, counts
<1>9. CASE Sell \/ SetSoldTickets
  BY <1>9, <1>c, CountSteps
<1> QED
  BY <1>1, <1>2, <1>3, <1>4, <1>5, <1>6, <1>7, <1>8, <1>9 DEF Next, Advance, Change

\* However the reads of a reload interleave with the sale, the free, reserved and sold tickets
\* on the screen add up to the raffle's tickets at least.
THEOREM InventoryIsComplete == Spec => []InventoryLeavesNothingOut
<1>1. Init => CountsInOrder /\ InventoryLeavesNothingOut
  BY PanelAssumption
  DEF Init, CountsInOrder, InventoryLeavesNothingOut, NewPanel, NoAnswer, NoData
<1> QED
  BY <1>1, InitTypeOK, StepTypeOK, StepCounts, PTL DEF Spec

-------------------------------------------------------------------------------
\* A change that ended well is on the screen.

\* What a draw can be after the panel's change, whatever others do to it since.
KeptAfter(op) ==
    IF op = "create" THEN {"scheduled", "drawn", "cancelled"} ELSE {"drawn", "cancelled"}

\* From the execution of a change to the end of its reload the draw has one of these statuses,
\* and so has it in what the reload has read.
ChangeOnItsWay ==
    /\ panel.pc \in {"sent", "found", "executed"} => panel.got.reads = {}
    /\ panel.pc \in {"executed", "reload"} /\ panel.op \in Changes =>
         /\ panel.draw \in Draws
         /\ draws[panel.draw] \in KeptAfter(panel.op)
         /\ "draws" \in panel.got.reads => panel.got.draws[panel.draw] \in KeptAfter(panel.op)

\* A step leaves the status of a draw, or schedules an absent one, or settles or cancels it.
LEMMA DrawSteps ==
    ASSUME TypeOK, [Next]_vars, NEW d \in Draws
    PROVE  \/ draws'[d] = draws[d]
           \/ draws[d] = "absent" /\ draws'[d] = "scheduled"
           \/ draws'[d] \in {"drawn", "cancelled"}
<1>1. CASE Change
  <2>1. PICK e \in Draws, status \in {"scheduled", "drawn", "cancelled"} :
          /\ Execute(e, status)
          /\ panel.op \in Changes
          /\ panel.op \in {"settle", "cancel"} => status # "scheduled"
          /\ panel.op = "create" => draws[e] = "absent" /\ status = "scheduled"
    BY <1>1, ChangeLemma
  <2>2. draws'[e] = status /\ (d # e => draws'[d] = draws[d])
    BY <2>1, ExecuteLemma, StatusSet
  <2> QED
    BY <2>1, <2>2 DEF Changes
<1>2. CASE Elsewhere
  BY <1>2, LifeSteps DEF Elsewhere
<1>3. CASE Sell \/ SetSoldTickets
  BY <1>3, CountSteps
<1>4. CASE UNCHANGED draws
  BY <1>4
<1> QED
  BY <1>1, <1>2, <1>3, <1>4
  DEF Next, vars, world, Use, SubmitLogin, SubmitCreate, SubmitSettle, SubmitCancel, Search,
      Submit, Advance, Change, FindForCancel, AcceptLogin, Refused, AnswerLost, AnswerBroken,
      Answered, ReadDraws, ReadRaffle, CountReserved, CountAssigned, Read, Reloaded,
      ReloadFails, Expire

LEMMA StepShown ==
    TypeOK /\ ChangeOnItsWay /\ ChangesAreShown /\ [Next]_vars =>
        ChangeOnItsWay' /\ ChangesAreShown'
<1> SUFFICES ASSUME TypeOK, ChangeOnItsWay, ChangesAreShown, [Next]_vars
             PROVE  ChangeOnItsWay' /\ ChangesAreShown'
  OBVIOUS
<1>a. ASSUME panel.op \in Changes, panel.draw \in Draws,
             draws[panel.draw] \in KeptAfter(panel.op)
      PROVE  draws'[panel.draw] \in KeptAfter(panel.op)
  BY <1>a, DrawSteps DEF KeptAfter, Changes
<1>b. ASSUME UNCHANGED <<panel.pc, panel.op, panel.draw, panel.got, panel.data, panel.error>>
      PROVE  ChangeOnItsWay' /\ ChangesAreShown'
  BY <1>a, <1>b DEF ChangeOnItsWay, ChangesAreShown, At
<1>1. CASE UNCHANGED vars
  BY <1>1, <1>b DEF vars
<1>2. ASSUME NEW op \in {"login", "search"} \cup Changes, NEW d \in Draws \cup {NoDraw},
             Submit(op, d)
      PROVE  ChangeOnItsWay' /\ ChangesAreShown'
  <2>0. /\ panel'.got = NoAnswer /\ panel'.op = op
        /\ panel'.pc = IF op = "search" THEN "reload" ELSE "sent"
    BY <1>2, SubmitLemma
  <2>1. panel'.pc # "idle" /\ panel'.got.reads = {}
    BY <2>0 DEF NoAnswer
  <2>2. panel'.pc \in {"executed", "reload"} => panel'.op \notin Changes
    BY <2>0 DEF Changes
  <2> QED
    BY <2>1, <2>2 DEF ChangeOnItsWay, ChangesAreShown, At
<1>3. CASE Change
  <2>1. panel.got.reads = {}
    BY <1>3 DEF Change, CreateDraw, SettleDraw, CancelDraw, At, ChangeOnItsWay
  <2>2. PICK d \in Draws, status \in {"scheduled", "drawn", "cancelled"} :
          /\ Execute(d, status)
          /\ panel.op \in Changes
          /\ panel.op \in {"settle", "cancel"} => status # "scheduled"
    BY <1>3, ChangeLemma
  <2>3. /\ draws'[d] = status
        /\ panel'.pc = "executed" /\ panel'.draw = d /\ panel'.op = panel.op
        /\ panel'.got = panel.got
    BY <2>2, ExecuteLemma, StatusSet
  <2>4. draws'[d] \in KeptAfter(panel.op)
    BY <2>2, <2>3 DEF KeptAfter, Changes
  <2> QED
    BY <2>1, <2>2, <2>3, <2>4 DEF ChangeOnItsWay, ChangesAreShown, At
<1>4. CASE AcceptLogin
  <2>1. panel'.pc = "reload" /\ panel'.op = "login"
    BY <1>4, MoveLemma DEF AcceptLogin
  <2> QED
    BY <2>1 DEF ChangeOnItsWay, ChangesAreShown, At, Changes
<1>f. CASE FindForCancel
  <2>1. /\ panel.pc = "sent" /\ panel'.pc = "found" /\ panel'.got = panel.got
    BY <1>f, MoveLemma DEF FindForCancel, At
  <2> QED
    BY <2>1 DEF ChangeOnItsWay, ChangesAreShown, At
<1>5. CASE Answered
  <2>1. /\ panel.pc = "executed" /\ panel'.pc = "reload" /\ panel'.op = panel.op
        /\ panel'.draw = panel.draw /\ panel'.got = panel.got
    BY <1>5, MoveLemma DEF Answered, At
  <2> QED
    BY <1>a, <2>1 DEF ChangeOnItsWay, ChangesAreShown, At
<1>6. CASE Refused \/ AnswerLost \/ ReloadFails \/ AnswerBroken
  <2>1. panel' = Ended(TRUE)
    BY <1>6 DEF Refused, AnswerLost, ReloadFails, AnswerBroken
  <2> QED
    BY <2>1, EndedLemma DEF ChangeOnItsWay, ChangesAreShown, At
<1>7. CASE ReadDraws \/ ReadRaffle \/ CountReserved \/ CountAssigned
  <2>1. PICK read \in Reads, got \in Answers :
          /\ Read(read, got) /\ got.reads = panel.got.reads
          /\ got.draws = IF read = "draws" THEN draws ELSE panel.got.draws
    BY <1>7, ReadsLemma
  <2>2. /\ panel'.got.reads = panel.got.reads \cup {read} /\ panel'.got.draws = got.draws
        /\ panel.pc = "reload" /\ panel'.pc = "reload"
        /\ panel'.op = panel.op /\ panel'.draw = panel.draw
        /\ UNCHANGED draws
    BY <2>1, ReadLemma DEF Read, At, world
  <2> QED
    BY <1>a, <2>1, <2>2 DEF ChangeOnItsWay, ChangesAreShown, At
<1>8. CASE Reloaded
  <2>1. panel.pc = "reload" /\ "draws" \in panel.got.reads
    BY <1>8 DEF Reloaded, At, Reads
  <2>2. panel.op \in Changes => panel.got.draws[panel.draw] \in KeptAfter(panel.op)
    BY <2>1 DEF ChangeOnItsWay
  <2> QED
    BY <1>8, <2>2, ReloadedLemma DEF ChangeOnItsWay, ChangesAreShown, At, KeptAfter
<1>9. CASE Expire
  BY <1>9, <1>b, MoveLemma
<1>10. CASE Elsewhere
  BY <1>10, <1>b DEF Elsewhere
<1>11. CASE Sell \/ SetSoldTickets
  BY <1>11, <1>b, CountSteps
<1>12. Use => \E op \in {"login", "search"} \cup Changes, d \in Draws \cup {NoDraw} :
                Submit(op, d)
  BY DEF Use, SubmitLogin, SubmitCreate, SubmitSettle, SubmitCancel, Search, Changes
<1> QED
  BY <1>1, <1>2, <1>3, <1>4, <1>f, <1>5, <1>6, <1>7, <1>8, <1>9, <1>10, <1>11, <1>12
  DEF Next, Advance, Change

\* The reload of a change that ended without an error was begun after it: the screen shows the
\* change, or what another administrator made of the draw since.
THEOREM ChangesReachTheScreen == Spec => []ChangesAreShown
<1>1. Init => ChangeOnItsWay /\ ChangesAreShown
  BY DEF Init, ChangeOnItsWay, ChangesAreShown, NewPanel, At, Changes
<1> QED
  BY <1>1, InitTypeOK, StepTypeOK, StepShown, PTL DEF Spec

-------------------------------------------------------------------------------
\* The panel settles a draw once.

\* A draw the panel has settled is drawn, or cancelled since, and so it is in what a reload
\* reads of it and, while no answer has been missed, on the screen as soon as the reload is over:
\* until then the panel is loading and its user can submit nothing.
SettledAreShown ==
    /\ panel.loading = (panel.pc # "idle")
    /\ \A d \in settled : draws[d] \in KeptAfter("settle")
    /\ "draws" \in panel.got.reads => \A d \in settled : panel.got.draws[d] \in KeptAfter("settle")
    /\ ~missed =>
         /\ \A d \in settled :
              \/ panel.data.draws[d] \in KeptAfter("settle")
              \/ panel.pc \in {"executed", "reload"} /\ panel.op = "settle" /\ panel.draw = d
         /\ panel.pc = "sent" /\ panel.op = "settle" => panel.draw \in Draws \ settled

LEMMA SettledStay ==
    ASSUME TypeOK, [Next]_vars, NEW d \in Draws, draws[d] \in KeptAfter("settle")
    PROVE  draws'[d] \in KeptAfter("settle")
  BY DrawSteps DEF KeptAfter

LEMMA StepSettled ==
    TypeOK /\ ChangeOnItsWay /\ SettledAreShown /\ SettlesOnceWhileAnswersArrive /\ [Next]_vars =>
        SettledAreShown' /\ SettlesOnceWhileAnswersArrive'
<1> SUFFICES ASSUME TypeOK, ChangeOnItsWay, SettledAreShown, SettlesOnceWhileAnswersArrive,
                    [Next]_vars
             PROVE  SettledAreShown' /\ SettlesOnceWhileAnswersArrive'
  OBVIOUS
<1>a. settled \subseteq Draws /\ panel \in PanelRecords
  BY DEF TypeOK
<1>b. ASSUME UNCHANGED <<settled, resettled, missed>>,
             UNCHANGED <<panel.loading, panel.pc, panel.op, panel.draw, panel.got, panel.data>>
      PROVE  SettledAreShown' /\ SettlesOnceWhileAnswersArrive'
  BY <1>a, <1>b, SettledStay DEF SettledAreShown, SettlesOnceWhileAnswersArrive
<1>1. CASE UNCHANGED vars
  BY <1>1, <1>b DEF vars
<1>2. CASE Use
  <2>1. PICK op \in {"login", "search"} \cup Changes, d \in Draws \cup {NoDraw} :
          /\ Submit(op, d)
          /\ ~panel.loading
          /\ op = "settle" => d \in Draws /\ panel.data.draws[d] = "scheduled"
    BY <1>2 DEF Use, SubmitLogin, SubmitCreate, SubmitSettle, SubmitCancel, Search,
                MayLogin, MaySubmit, MayActOn, Changes
  <2>2. /\ panel'.got = NoAnswer /\ panel'.op = op /\ panel'.draw = d
        /\ panel'.pc = IF op = "search" THEN "reload" ELSE "sent"
        /\ panel'.loading = TRUE /\ panel'.data = panel.data
    BY <2>1, SubmitLemma
  <2>3. UNCHANGED <<draws, settled, resettled, missed>>
    BY <2>1 DEF Submit, world
  <2>4. panel.pc = "idle"
    BY <2>1 DEF SettledAreShown
  <2>5. ~missed => \A e \in settled : panel.data.draws[e] \in KeptAfter("settle")
    BY <2>4 DEF SettledAreShown
  <2>6. ~missed /\ op = "settle" => d \notin settled
    BY <2>1, <2>5 DEF KeptAfter
  <2>7. "draws" \notin panel'.got.reads
    BY <2>2 DEF NoAnswer
  <2>8. SettlesOnceWhileAnswersArrive'
    BY <2>3 DEF SettlesOnceWhileAnswersArrive
  <2> QED
    BY <2>1, <2>2, <2>3, <2>5, <2>6, <2>7, <2>8 DEF SettledAreShown
<1>3. CASE Change
  <2>0. /\ panel.pc \in {"sent", "found"} /\ panel.got.reads = {} /\ UNCHANGED missed
        /\ panel.op = "settle" => panel.pc = "sent"
    BY <1>3 DEF Change, CreateDraw, SettleDraw, CancelDraw, Execute, At, ChangeOnItsWay,
                TypeOK, Targeted
  <2>1. PICK d \in Draws, status \in {"scheduled", "drawn", "cancelled"} :
          /\ Execute(d, status)
          /\ panel.op \in {"settle", "cancel"} => d = panel.draw /\ status # "scheduled"
          /\ settled' = IF panel.op = "settle" THEN settled \cup {d} ELSE settled
          /\ resettled' = (resettled \/ (panel.op = "settle" /\ d \in settled))
    BY <1>3, ChangeLemma
  <2>2. /\ draws'[d] = status
        /\ panel'.pc = "executed" /\ panel'.draw = d /\ panel'.op = panel.op
        /\ panel'.loading = panel.loading
        /\ panel'.data = panel.data /\ panel'.got = panel.got
    BY <2>1, ExecuteLemma, StatusSet
  <2>3. \A e \in settled : draws'[e] \in KeptAfter("settle")
    BY <1>a, SettledStay DEF SettledAreShown
  <2>4. ~missed /\ panel.op = "settle" => d \notin settled
    BY <2>0, <2>1 DEF SettledAreShown
  <2>5. ~missed => \A e \in settled : panel.data.draws[e] \in KeptAfter("settle")
    BY <2>0 DEF SettledAreShown
  <2>6. SettlesOnceWhileAnswersArrive'
    BY <2>0, <2>1, <2>4 DEF SettlesOnceWhileAnswersArrive
  <2>7. panel'.loading = (panel'.pc # "idle")
    BY <2>0, <2>2 DEF SettledAreShown
  <2>8. \A e \in settled' : draws'[e] \in KeptAfter("settle")
    BY <2>1, <2>2, <2>3 DEF KeptAfter
  <2>9. ~missed' => \A e \in settled' :
          \/ panel'.data.draws[e] \in KeptAfter("settle")
          \/ panel'.pc = "executed" /\ panel'.op = "settle" /\ panel'.draw = e
    BY <2>0, <2>1, <2>2, <2>5
  <2> QED
    BY <2>0, <2>2, <2>6, <2>7, <2>8, <2>9 DEF SettledAreShown
<1>4. CASE AcceptLogin
  <2>1. /\ panel.pc = "sent" /\ panel.op = "login"
        /\ panel'.pc = "reload" /\ panel'.op = "login" /\ panel'.got = panel.got
        /\ panel'.loading = panel.loading /\ panel'.data = panel.data
        /\ UNCHANGED <<draws, settled, resettled, missed>>
    BY <1>4, MoveLemma DEF AcceptLogin, At, world
  <2> QED
    BY <2>1 DEF SettledAreShown, SettlesOnceWhileAnswersArrive
<1>f. CASE FindForCancel
  <2>1. /\ panel.pc = "sent" /\ panel'.pc = "found" /\ panel'.got = panel.got
        /\ panel'.loading = panel.loading /\ panel'.data = panel.data
        /\ UNCHANGED <<draws, settled, resettled, missed>>
    BY <1>f, MoveLemma DEF FindForCancel, At, world
  <2> QED
    BY <2>1 DEF SettledAreShown, SettlesOnceWhileAnswersArrive
<1>5. CASE Answered
  <2>1. /\ panel.pc = "executed" /\ panel'.pc = "reload" /\ panel'.op = panel.op
        /\ panel'.draw = panel.draw /\ panel'.got = panel.got
        /\ panel'.loading = panel.loading /\ panel'.data = panel.data
        /\ UNCHANGED <<draws, settled, resettled, missed>>
    BY <1>5, MoveLemma DEF Answered, At, world
  <2> QED
    BY <2>1 DEF SettledAreShown, SettlesOnceWhileAnswersArrive
<1>6. CASE Refused \/ AnswerLost \/ ReloadFails \/ AnswerBroken
  <2>1. panel' = Ended(TRUE) /\ UNCHANGED <<draws, settled, resettled>>
    BY <1>6 DEF Refused, AnswerLost, ReloadFails, AnswerBroken, world
  <2>2. panel'.pc = "idle" /\ panel'.loading = FALSE /\ panel'.got = NoAnswer
        /\ panel'.data = panel.data
    BY <2>1, EndedLemma
  <2>3. missed => missed'
    BY <1>6 DEF Refused, AnswerLost, ReloadFails, AnswerBroken
  <2>4. ~missed' => ~(panel.pc \in {"executed", "reload"} /\ panel.op = "settle")
    BY <1>6 DEF Refused, AnswerLost, ReloadFails, AnswerBroken, At, Changes
  <2>5. "draws" \notin panel'.got.reads
    BY <2>2 DEF NoAnswer
  <2>6. SettlesOnceWhileAnswersArrive'
    BY <2>1, <2>3 DEF SettlesOnceWhileAnswersArrive
  <2> QED
    BY <2>1, <2>2, <2>3, <2>4, <2>5, <2>6 DEF SettledAreShown
<1>7. CASE ReadDraws \/ ReadRaffle \/ CountReserved \/ CountAssigned
  <2>1. PICK read \in Reads, got \in Answers :
          /\ Read(read, got) /\ got.reads = panel.got.reads
          /\ got.draws = IF read = "draws" THEN draws ELSE panel.got.draws
    BY <1>7, ReadsLemma
  <2>2. /\ panel'.got.reads = panel.got.reads \cup {read} /\ panel'.got.draws = got.draws
        /\ panel.pc = "reload" /\ panel'.pc = "reload"
        /\ panel'.op = panel.op /\ panel'.draw = panel.draw
        /\ panel'.loading = panel.loading /\ panel'.data = panel.data
    BY <2>1, ReadLemma DEF Read, At
  <2>3. UNCHANGED <<draws, settled, resettled, missed>>
    BY <2>1 DEF Read, world
  <2>4. "draws" \in panel'.got.reads => \A d \in settled : panel'.got.draws[d] \in KeptAfter("settle")
    BY <2>1, <2>2 DEF SettledAreShown
  <2> QED
    BY <2>2, <2>3, <2>4 DEF SettledAreShown, SettlesOnceWhileAnswersArrive
<1>8. CASE Reloaded
  <2>1. /\ panel'.pc = "idle" /\ panel'.loading = FALSE /\ panel'.got = NoAnswer
        /\ panel'.data.draws = panel.got.draws
    BY <1>8, ReloadedLemma
  <2>2. /\ "draws" \in panel.got.reads
        /\ UNCHANGED <<draws, settled, resettled, missed>>
    BY <1>8 DEF Reloaded, world, Reads
  <2>3. \A d \in settled : panel'.data.draws[d] \in KeptAfter("settle")
    BY <2>1, <2>2 DEF SettledAreShown
  <2>4. "draws" \notin panel'.got.reads
    BY <2>1 DEF NoAnswer
  <2> QED
    BY <2>1, <2>2, <2>3, <2>4 DEF SettledAreShown, SettlesOnceWhileAnswersArrive
<1>9. CASE Expire
  BY <1>9, <1>b, MoveLemma DEF world
<1>10. CASE Elsewhere
  BY <1>10, <1>b DEF Elsewhere
<1>11. CASE Sell \/ SetSoldTickets
  BY <1>11, <1>b, CountSteps
<1> QED
  BY <1>1, <1>2, <1>3, <1>4, <1>f, <1>5, <1>6, <1>7, <1>8, <1>9, <1>10, <1>11
  DEF Next, Advance, Change

LEMMA SettledInvariant == Spec => [](SettledAreShown /\ SettlesOnceWhileAnswersArrive)
<1>1. Init => ChangeOnItsWay /\ ChangesAreShown
  BY DEF Init, ChangeOnItsWay, ChangesAreShown, NewPanel, At, Changes
<1>2. ASSUME Init PROVE SettledAreShown /\ SettlesOnceWhileAnswersArrive
  <2>1. /\ panel.loading = FALSE /\ panel.pc = "idle" /\ panel.got.reads = {}
        /\ settled = {} /\ resettled = FALSE
    BY <1>2 DEF Init, NewPanel, NoAnswer
  <2> QED
    BY <2>1 DEF SettledAreShown, SettlesOnceWhileAnswersArrive
<1> QED
  BY <1>1, <1>2, InitTypeOK, StepTypeOK, StepShown, StepSettled, PTL DEF Spec

\* settleDraw would settle a drawn draw again; the panel does not ask it to unless an answer or
\* a reload of its own went missing.
THEOREM SettlesOnce == Spec => []SettlesOnceWhileAnswersArrive
  BY SettledInvariant, PTL

-------------------------------------------------------------------------------
\* The panel is one more administrator.

\* What Lives is instantiated with.
CancellingNow == cancelling \cup (IF At("found") THEN {panel.draw} ELSE {})

\* A step that stays away from "found" leaves the cancellations to those elsewhere.
LEMMA StillCancelling ==
    ~At("found") /\ ~At("found")' /\ UNCHANGED cancelling => UNCHANGED CancellingNow
  BY DEF CancellingNow

\* A step of the others is the same step with the panel's own cancellation among theirs.
LEMMA ElsewhereLives ==
    ASSUME TypeOK, Elsewhere
    PROVE  [Lives!Next]_Lives!lifeVars
<1> DEFINE own == IF At("found") THEN {panel.draw} ELSE {}
<1>1. UNCHANGED panel
  BY DEF Elsewhere
<1>2. CancellingNow = cancelling \cup own /\ CancellingNow' = cancelling' \cup own
  BY <1>1 DEF CancellingNow, At
<1> HIDE DEF own
<1>3. PICK d \in Draws : \/ Life!Schedule(d) \/ Life!Settle(d) \/ Life!FindForCancel(d)
                         \/ Life!Cancel(d) \/ Life!GiveUp(d)
  BY DEF Elsewhere, Life!Next
<1>4. CASE Life!Schedule(d)
  <2>1. Lives!Schedule(d)
    BY <1>2, <1>4 DEF Life!Schedule, Life!Become, Lives!Schedule, Lives!Become, CancellingNow
  <2> QED
    BY <2>1 DEF Lives!Next
<1>5. CASE Life!Settle(d)
  <2>1. Lives!Settle(d)
    BY <1>2, <1>5 DEF Life!Settle, Life!Become, Lives!Settle, Lives!Become, CancellingNow
  <2> QED
    BY <2>1 DEF Lives!Next
<1>6. CASE Life!FindForCancel(d)
  <2>1. CancellingNow' = CancellingNow \cup {d}
    BY <1>2, <1>6 DEF Life!FindForCancel
  <2>2. Lives!FindForCancel(d)
    BY <1>6, <2>1 DEF Life!FindForCancel, Lives!FindForCancel, CancellingNow
  <2> QED
    BY <2>2 DEF Lives!Next
<1>7. CASE Life!Cancel(d)
  <2>1. d \in CancellingNow /\ CancellingNow' \in {CancellingNow, CancellingNow \ {d}}
    BY <1>2, <1>7 DEF Life!Cancel
  <2>2. Lives!Cancel(d)
    BY <1>7, <2>1 DEF Life!Cancel, Life!Become, Lives!Cancel, Lives!Become, CancellingNow
  <2> QED
    BY <2>2 DEF Lives!Next
<1>8. CASE Life!GiveUp(d)
  <2>1. CancellingNow' \in {CancellingNow, CancellingNow \ {d}} /\ UNCHANGED draws
    BY <1>2, <1>8 DEF Life!GiveUp
  <2>2. CASE CancellingNow' = CancellingNow
    BY <2>1, <2>2 DEF Lives!lifeVars, CancellingNow
  <2>3. CASE CancellingNow' = CancellingNow \ {d}
    <3>1. Lives!GiveUp(d)
      BY <2>1, <2>3 DEF Lives!GiveUp, CancellingNow
    <3> QED
      BY <3>1 DEF Lives!Next
  <2> QED
    BY <2>1, <2>2, <2>3
<1> QED
  BY <1>3, <1>4, <1>5, <1>6, <1>7, <1>8

LEMMA StepLives == TypeOK /\ SettledAreShown /\ [Next]_vars => [Lives!Next]_Lives!lifeVars
<1> SUFFICES ASSUME TypeOK, SettledAreShown, [Next]_vars
             PROVE  [Lives!Next]_Lives!lifeVars
  OBVIOUS
<1>t. /\ panel.op \in {"settle", "cancel"} => panel.draw \in Draws
      /\ At("found") => panel.op = "cancel"
  BY DEF TypeOK, Targeted
<1>a. ASSUME UNCHANGED <<draws, CancellingNow>> PROVE UNCHANGED Lives!lifeVars
  BY <1>a DEF Lives!lifeVars, CancellingNow
<1>1. CASE UNCHANGED vars
  BY <1>1, <1>a DEF vars, CancellingNow, At
<1>2. CASE Use
  <2>1. ~At("found") /\ ~At("found")'
    <3>1. \E op \in {"login", "search"} \cup Changes, d \in Draws \cup {NoDraw} : Submit(op, d)
      BY <1>2 DEF Use, SubmitLogin, SubmitCreate, SubmitSettle, SubmitCancel, Search, Changes
    <3>2. panel'.pc \in {"sent", "reload"}
      BY <3>1, SubmitLemma
    <3>3. panel.pc # "found"
      BY <1>2 DEF Use, SubmitLogin, SubmitCreate, SubmitSettle, SubmitCancel, Search, MayLogin,
                  MaySubmit, MayActOn, SettledAreShown
    <3> QED
      BY <3>2, <3>3 DEF At
  <2>2. UNCHANGED <<draws, cancelling>>
    BY <1>2 DEF Use, SubmitLogin, SubmitCreate, SubmitSettle, SubmitCancel, Search, Submit, world
  <2> QED
    BY <1>a, <2>1, <2>2, StillCancelling
<1>3. CASE CreateDraw
  <2>1. PICK d \in Draws : draws[d] = "absent" /\ Execute(d, "scheduled")
    BY <1>3 DEF CreateDraw
  <2>2. ~At("found") /\ ~At("found")'
    BY <1>3, <2>1, ExecuteLemma, StatusSet DEF CreateDraw, At
  <2>3. UNCHANGED CancellingNow
    BY <2>1, <2>2, StillCancelling DEF Execute
  <2>4. Lives!Schedule(d)
    BY <2>1, <2>3 DEF Execute, Lives!Schedule, Lives!Become, CancellingNow
  <2> QED
    BY <2>4 DEF Lives!Next
<1>4. CASE SettleDraw
  <2>1. PICK d \in Draws : d = panel.draw /\ draws[d] # "absent" /\ Execute(d, "drawn")
    BY <1>4, <1>t DEF SettleDraw
  <2>2. ~At("found") /\ ~At("found")'
    BY <1>4, <2>1, ExecuteLemma, StatusSet DEF SettleDraw, At
  <2>3. UNCHANGED CancellingNow
    BY <2>1, <2>2, StillCancelling DEF Execute
  <2>4. Lives!Settle(d)
    BY <2>1, <2>3 DEF Execute, Lives!Settle, Lives!Become, CancellingNow
  <2> QED
    BY <2>4 DEF Lives!Next
<1>5. CASE FindForCancel
  <2>1. PICK d \in Draws : d = panel.draw /\ draws[d] \in {"scheduled", "cancelled"}
    BY <1>5, <1>t DEF FindForCancel
  <2>2. /\ ~At("found") /\ At("found")' /\ panel'.draw = panel.draw
        /\ UNCHANGED <<draws, cancelling>>
    BY <1>5, MoveLemma DEF FindForCancel, At, world
  <2>3. CancellingNow' = CancellingNow \cup {d}
    BY <2>1, <2>2 DEF CancellingNow
  <2>4. Lives!FindForCancel(d)
    BY <2>1, <2>2, <2>3 DEF Lives!FindForCancel, CancellingNow
  <2> QED
    BY <2>4 DEF Lives!Next
<1>6. CASE CancelDraw
  <2>1. PICK d \in Draws : d = panel.draw /\ At("found") /\ Execute(d, "cancelled")
    BY <1>6, <1>t DEF CancelDraw
  <2>2. ~At("found")' /\ UNCHANGED cancelling
    BY <2>1, ExecuteLemma, StatusSet DEF At, Execute
  <2>3. d \in CancellingNow /\ CancellingNow' \in {CancellingNow, CancellingNow \ {d}}
    BY <2>1, <2>2 DEF CancellingNow
  <2>4. Lives!Cancel(d)
    BY <2>1, <2>3 DEF Execute, Lives!Cancel, Lives!Become, CancellingNow
  <2> QED
    BY <2>4 DEF Lives!Next
<1>7. CASE Refused \/ AnswerLost \/ ReloadFails
  <2>1. ~At("found")' /\ UNCHANGED <<draws, cancelling>>
    BY <1>7, EndedLemma DEF Refused, AnswerLost, ReloadFails, At, world
  <2>2. CASE UNCHANGED CancellingNow
    BY <1>a, <2>1, <2>2
  <2>3. CASE CancellingNow' # CancellingNow
    <3>1. At("found")
      BY <2>1, <2>3, StillCancelling
    <3>2. PICK d \in Draws : d = panel.draw
      BY <1>t, <3>1
    <3>3. CancellingNow' = CancellingNow \ {d}
      BY <2>1, <2>3, <3>1, <3>2 DEF CancellingNow
    <3>4. Lives!GiveUp(d)
      BY <2>1, <3>3 DEF Lives!GiveUp, CancellingNow
    <3> QED
      BY <3>4 DEF Lives!Next
  <2> QED
    BY <2>2, <2>3
<1>8. CASE AnswerBroken
  <2>1. /\ At("found") /\ ~At("found")' /\ UNCHANGED draws
        /\ cancelling' = cancelling \cup {panel.draw}
    BY <1>8, EndedLemma DEF AnswerBroken, At
  <2>2. UNCHANGED CancellingNow
    BY <2>1 DEF CancellingNow
  <2> QED
    BY <1>a, <2>1, <2>2
<1>9. CASE AcceptLogin \/ Answered
  <2>1. ~At("found") /\ ~At("found")' /\ UNCHANGED <<draws, cancelling>>
    BY <1>9, MoveLemma DEF AcceptLogin, Answered, At, world
  <2> QED
    BY <1>a, <2>1, StillCancelling
<1>10. CASE Expire
  <2>1. /\ panel'.pc = panel.pc /\ panel'.draw = panel.draw
        /\ UNCHANGED <<draws, cancelling>>
    BY <1>10, MoveLemma DEF world
  <2>2. UNCHANGED CancellingNow
    BY <2>1 DEF CancellingNow, At
  <2> QED
    BY <1>a, <2>1, <2>2
<1>11. CASE ReadDraws \/ ReadRaffle \/ CountReserved \/ CountAssigned
  <2>1. panel.pc = "reload" /\ UNCHANGED <<draws, cancelling>>
    BY <1>11 DEF ReadDraws, ReadRaffle, CountReserved, CountAssigned, Read, At, world
  <2>2. panel'.pc = "reload"
    BY <1>11, ReadsLemma, ReadLemma
  <2> QED
    BY <1>a, <2>1, <2>2, StillCancelling DEF At
<1>12. CASE Reloaded
  <2>1. ~At("found") /\ ~At("found")' /\ UNCHANGED <<draws, cancelling>>
    BY <1>12, ReloadedLemma DEF Reloaded, At, world
  <2> QED
    BY <1>a, <2>1, StillCancelling
<1>13. CASE Elsewhere
  BY <1>13, ElsewhereLives
<1>14. CASE Sell \/ SetSoldTickets
  <2>1. UNCHANGED <<draws, cancelling, panel>>
    BY <1>14, CountSteps
  <2> QED
    BY <1>a, <2>1 DEF CancellingNow, At
<1> QED
  BY <1>1, <1>2, <1>3, <1>4, <1>5, <1>6, <1>7, <1>8, <1>9, <1>10, <1>11, <1>12, <1>13, <1>14
  DEF Next, Advance

\* What the panel assumes of other administrators it keeps itself: with its requests among
\* theirs, draws go through the statuses DrawLife allows.
THEOREM DrawsLiveWithThePanel == Spec => LivesSpec
<1>1. Init => Lives!Init
  BY DEF Init, Life!Init, Lives!Init, NewPanel, At
<1> QED
  BY <1>1, TypeCorrect, SettledInvariant, StepLives, PTL DEF Spec, LivesSpec, Lives!Spec
===============================================================================
