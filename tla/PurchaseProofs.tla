---------------------------- MODULE PurchaseProofs ----------------------------
(***************************************************************************)
(* Proofs about Purchase for every set of orders, payments, numbers,       *)
(* webhook requests and sweepers.                                          *)
(***************************************************************************)
EXTENDS Purchase, FiniteSetTheorems, TLAPS

-------------------------------------------------------------------------------
\* Counting

\* However the numbers are filtered, the count is a natural number at most their number.
LEMMA CountBounded ==
    ASSUME NEW S, S \subseteq Numbers
    PROVE  /\ IsFiniteSet(S)
           /\ Cardinality(S) \in 0..Cardinality(Numbers)
<1>1. IsFiniteSet(Numbers)
  BY PurchaseAssumption
<1>2. IsFiniteSet(S) /\ Cardinality(S) <= Cardinality(Numbers)
  BY <1>1, FS_Subset
<1>3. Cardinality(S) \in Nat /\ Cardinality(Numbers) \in Nat
  BY <1>1, <1>2, FS_CardinalityType
<1> QED
  BY <1>2, <1>3

\* A set of numbers that grows does not get fewer.
LEMMA CountGrows ==
    ASSUME NEW S, NEW T, S \subseteq T, T \subseteq Numbers
    PROVE  Cardinality(S) <= Cardinality(T)
  BY CountBounded, FS_Subset

\* mapWompiStatus returns a payment status.
LEMMA MapType ==
    ASSUME NEW st
    PROVE  MapWompiStatus(st) \in PaymentStatuses
  BY DEF MapWompiStatus, PaymentStatuses

-------------------------------------------------------------------------------
\* Types

TicketsTyped == tickets \in [Numbers -> TicketDocs]

LEMMA TicketTypes ==
    ASSUME NEW o \in Orders
    PROVE  Free \in TicketDocs /\ Reserved(o) \in TicketDocs /\ Assigned(o) \in TicketDocs
  BY DEF TicketDocs

\* The initial state is well typed.
LEMMA InitTypeOK == Init => TypeOK
<1> SUFFICES ASSUME Init PROVE TypeOK
  OBVIOUS
<1>1. 0 \in 0..Cardinality(Numbers)
  BY CountBounded
<1>2. MailCap \in Nat
  BY PurchaseAssumption
<1>3. IdleHook \in HookRecords
  BY <1>1 DEF IdleHook, HookRecords, HookPlaces, PaymentStatuses
<1>4. IdleRequest \in RequestRecords
  BY <1>1 DEF IdleRequest, RequestRecords
<1>5. tickets \in [Numbers -> TicketDocs]
  BY DEF Init, TicketDocs
<1> QED
  BY <1>1, <1>2, <1>3, <1>4, <1>5
  DEF Init, TypeOK, NoOrder, IdleHook, IdleSweep

\* What TypeOK says of the webhook requests.
HookTyped ==
    /\ hook \in [Hooks -> HookRecords]
    /\ \A h \in Hooks : hook[h].pc # "idle" => hook[h].pay \in Payments

LEMMA IdleHookType == IdleHook \in HookRecords
  BY CountBounded DEF IdleHook, HookRecords, HookPlaces, PaymentStatuses

LEMMA FinishType ==
    ASSUME HookTyped, NEW h \in Hooks, Finish(h)
    PROVE  HookTyped'
  BY IdleHookType DEF HookTyped, Finish, IdleHook

LEMMA GotoType ==
    ASSUME HookTyped, NEW h \in Hooks, NEW pc \in HookPlaces, hook[h].pc # "idle",
           Goto(h, pc)
    PROVE  HookTyped'
  BY DEF HookTyped, Goto, HookRecords

LEMMA NumsType ==
    ASSUME HookTyped, NEW h \in Hooks, NEW pc \in HookPlaces, hook[h].pc # "idle",
           NEW nums \in SUBSET Numbers,
           hook' = [hook EXCEPT ![h].pc = pc, ![h].nums = nums]
    PROVE  HookTyped'
<1> DEFINE next == [hook[h] EXCEPT !.pc = pc, !.nums = nums]
<1>1. hook[h] \in HookRecords
  BY DEF HookTyped
<1>2. next \in HookRecords /\ next.pay = hook[h].pay
  BY <1>1 DEF HookRecords
<1>3. hook' = [hook EXCEPT ![h] = next]
  BY DEF HookTyped
<1> QED
  BY <1>2, <1>3 DEF HookTyped

LEMMA SeenType ==
    ASSUME HookTyped, NEW h \in Hooks, NEW pc \in HookPlaces, hook[h].pc # "idle",
           NEW seen \in OrderStatuses \cup {"absent"},
           hook' = [hook EXCEPT ![h].pc = pc, ![h].seen = seen]
    PROVE  HookTyped'
<1> DEFINE next == [hook[h] EXCEPT !.pc = pc, !.seen = seen]
<1>1. hook[h] \in HookRecords
  BY DEF HookTyped
<1>2. next \in HookRecords /\ next.pay = hook[h].pay
  BY <1>1 DEF HookRecords
<1>3. hook' = [hook EXCEPT ![h] = next]
  BY DEF HookTyped
<1> QED
  BY <1>2, <1>3 DEF HookTyped

LEMMA CountType ==
    ASSUME HookTyped, NEW h \in Hooks, NEW pc \in HookPlaces, hook[h].pc # "idle",
           NEW count \in 0..Cardinality(Numbers),
           hook' = [hook EXCEPT ![h].pc = pc, ![h].count = count]
    PROVE  HookTyped'
<1> DEFINE next == [hook[h] EXCEPT !.pc = pc, !.count = count]
<1>1. hook[h] \in HookRecords
  BY DEF HookTyped
<1>2. next \in HookRecords /\ next.pay = hook[h].pay
  BY <1>1 DEF HookRecords
<1>3. hook' = [hook EXCEPT ![h] = next]
  BY DEF HookTyped
<1> QED
  BY <1>2, <1>3 DEF HookTyped

LEMMA ReplayType ==
    ASSUME HookTyped, NEW h \in Hooks, NEW pc \in HookPlaces, hook[h].pc # "idle",
           hook' = [hook EXCEPT ![h].pc = pc, ![h].replay = TRUE]
    PROVE  HookTyped'
<1> DEFINE next == [hook[h] EXCEPT !.pc = pc, !.replay = TRUE]
<1>1. hook[h] \in HookRecords
  BY DEF HookTyped
<1>2. next \in HookRecords /\ next.pay = hook[h].pay
  BY <1>1 DEF HookRecords
<1>3. hook' = [hook EXCEPT ![h] = next]
  BY DEF HookTyped
<1> QED
  BY <1>2, <1>3 DEF HookTyped

LEMMA BranchType == \A verdict : Branch(verdict) \in HookPlaces \ {"idle"}
  BY DEF Branch, HookPlaces

\* A request that is being served is about a payment, hence about an order.
LEMMA OrderOnType ==
    ASSUME HookTyped, NEW h \in Hooks, hook[h].pc # "idle"
    PROVE  OrderOn(h) \in Orders /\ hook[h].pay \in Payments
  BY PurchaseAssumption DEF HookTyped, OrderOn

LEMMA ReceiveType ==
    ASSUME HookTyped, NEW h \in Hooks, NEW event \in Events, Receive(h, event)
    PROVE  HookTyped'
<1> DEFINE p == event[1]
           verdict == MapWompiStatus(event[2])
           start == [IdleHook EXCEPT !.pay = p, !.verdict = verdict]
<1>1. p \in Payments
  BY PurchaseAssumption
<1>2. verdict \in PaymentStatuses
  BY MapType
<1> HIDE DEF verdict
<1>3. \A pc \in HookPlaces : [start EXCEPT !.pc = pc] \in HookRecords
  BY <1>1, <1>2, IdleHookType DEF HookRecords, IdleHook
<1>4. PICK pc \in HookPlaces : hook' = [hook EXCEPT ![h] = [start EXCEPT !.pc = pc]]
  BY BranchType DEF Receive, HookPlaces, verdict
<1>5. [start EXCEPT !.pc = pc].pay = p
  BY DEF IdleHook
<1> QED
  BY <1>1, <1>3, <1>4, <1>5 DEF HookTyped

\* A release or an assignment leaves a ticket document for every number.
LEMMA ReleasedType ==
    ASSUME TicketsTyped, NEW o \in Orders
    PROVE  Released(o) \in [Numbers -> TicketDocs]
  BY TicketTypes DEF TicketsTyped, Released

\* Each step keeps the state well typed.
LEMMA StepTypeOK == TypeOK /\ [Next]_vars => TypeOK'
<1> SUFFICES ASSUME TypeOK, [Next]_vars
             PROVE  TypeOK'
  OBVIOUS
<1> USE DEF TypeOK
<1>a. HookTyped /\ TicketsTyped
  BY DEF HookTyped, TicketsTyped
<1>b. ASSUME HookTyped'
      PROVE  /\ hook' \in [Hooks -> HookRecords]
             /\ \A h \in Hooks : hook'[h].pc # "idle" => hook'[h].pay \in Payments
  BY <1>b DEF HookTyped
<1>c. \A S : S \subseteq Numbers => Cardinality(S) \in 0..Cardinality(Numbers)
  BY CountBounded
<1>d. 0 \in 0..Cardinality(Numbers)
  BY CountBounded
<1>1. CASE UNCHANGED vars
  BY <1>1 DEF vars
<1>2. ASSUME NEW o \in Orders, ReadRaffle(o) PROVE TypeOK'
  BY <1>2 DEF ReadRaffle, RequestRecords
<1>3. ASSUME NEW o \in Orders, Admit(o) \/ Refuse(o) \/ AbortReserve(o) PROVE TypeOK'
  <2>1. \A pc \in {"idle", "reserve"} : [pc |-> pc, sold |-> 0] \in RequestRecords
    BY <1>d DEF RequestRecords
  <2>2. request' \in [Orders -> RequestRecords]
    BY <1>3, <2>1 DEF Admit, Refuse, AbortReserve, IdleRequest
  <2> QED
    BY <1>3, <2>2 DEF Admit, Refuse, AbortReserve
<1>4. ASSUME NEW o \in Orders, Reserve(o) PROVE TypeOK'
  <2>1. PICK chosen \in SUBSET InStatus("free") :
          /\ tickets' = [n \in Numbers |->
                           IF n \in chosen THEN Reserved(o) ELSE tickets[n]]
          /\ orders' = [orders EXCEPT ![o] =
                          [status |-> "pending_payment", numbers |-> chosen,
                           paidBy |-> NoPayment]]
    BY <1>4 DEF Reserve
  <2>2. chosen \subseteq Numbers
    BY DEF InStatus
  <2>3. tickets' \in [Numbers -> TicketDocs]
    BY <2>1, TicketTypes
  <2>4. orders' \in [Orders -> [status : OrderStatuses \cup {"absent"},
                                numbers : SUBSET Numbers,
                                paidBy : Payments \cup {NoPayment}]]
    BY <2>1, <2>2 DEF OrderStatuses
  <2>5. request' \in [Orders -> RequestRecords]
    BY <1>4, <1>d DEF Reserve, RequestRecords, IdleRequest
  <2> QED
    BY <1>4, <2>3, <2>4, <2>5 DEF Reserve
<1>5. ASSUME NEW p \in Payments, Checkout(p) PROVE TypeOK'
  BY <1>5 DEF Checkout, OpenCheckout, CreatePayment, PaymentStatuses
<1>6. ASSUME NEW h \in Hooks, NEW event \in Events, Receive(h, event) PROVE TypeOK'
  BY <1>6, <1>a, <1>b, ReceiveType DEF Receive
<1>7. ASSUME NEW h \in Hooks, RecordPayment(h) PROVE TypeOK'
  <2>1. hook[h].verdict \in PaymentStatuses /\ hook[h].pc # "idle"
    BY <1>7 DEF RecordPayment, At, HookRecords
  <2>2. payments' \in [Payments -> PaymentStatuses \cup {"absent", "opening"}]
    BY <1>7, <2>1 DEF RecordPayment
  <2>3. HookTyped'
    BY <1>7, <1>a, <2>1, GotoType, BranchType DEF RecordPayment
  <2> QED
    BY <1>7, <1>b, <2>2, <2>3 DEF RecordPayment
<1>8. ASSUME NEW h \in Hooks, ReadOrder(h) PROVE TypeOK'
  <2>1. hook[h].pc # "idle"
    BY <1>8 DEF ReadOrder, At
  <2>2. HookTyped'
    BY <1>8, <1>a, <2>1, ReplayType, GotoType DEF ReadOrder, HookPlaces
  <2> QED
    BY <1>8, <1>b, <2>2 DEF ReadOrder
<1>9. ASSUME NEW h \in Hooks, FindReserved(h) PROVE TypeOK'
  <2>1. ReservedOf(OrderOn(h)) \subseteq Numbers
    BY DEF ReservedOf
  <2>2. hook[h].pc # "idle"
    BY <1>9 DEF FindReserved, At
  <2>3. HookTyped'
    BY <1>9, <1>a, <2>1, <2>2, NumsType, GotoType, ZenonT(60) DEF FindReserved, HookPlaces
  <2> QED
    BY <1>9, <1>b, <2>3 DEF FindReserved
<1>10. ASSUME NEW h \in Hooks, AssignTickets(h) PROVE TypeOK'
  <2>1. OrderOn(h) \in Orders /\ hook[h].pc # "idle"
    BY <1>10, <1>a, OrderOnType DEF AssignTickets, At
  <2>2. tickets' \in [Numbers -> TicketDocs]
    BY <1>10, <2>1, TicketTypes DEF AssignTickets
  <2>3. HookTyped'
    BY <1>10, <1>a, <2>1, GotoType DEF AssignTickets, HookPlaces
  <2> QED
    BY <1>10, <1>b, <2>2, <2>3 DEF AssignTickets
<1>11. ASSUME NEW h \in Hooks, ListAssigned(h) PROVE TypeOK'
  <2>1. AssignedOf(OrderOn(h)) \subseteq Numbers
    BY DEF AssignedOf
  <2>2. CASE AssignedOf(OrderOn(h)) = {}
    BY <1>11, <1>a, <1>b, <2>2, FinishType DEF ListAssigned
  <2>3. CASE AssignedOf(OrderOn(h)) # {}
    <3>1. HookTyped'
      BY <1>11, <1>a, <2>1, <2>3, NumsType DEF ListAssigned, At, HookPlaces
    <3> QED
      BY <1>11, <1>b, <3>1 DEF ListAssigned
  <2> QED
    BY <2>2, <2>3
<1>12. ASSUME NEW h \in Hooks, LoadForPaid(h) PROVE TypeOK'
  <2>1. OrderOn(h) \in Orders
    BY <1>12, <1>a, OrderOnType DEF LoadForPaid, At
  <2> DEFINE st == orders[OrderOn(h)].status
  <2>2. st \in OrderStatuses \cup {"absent"}
    BY <2>1
  <2>3. CASE st = "paid" \/ CanOrderMove(st, "paid")
    <3>1. hook' = [hook EXCEPT ![h].pc = "savePaid", ![h].seen = st]
      BY <1>12, <2>3 DEF LoadForPaid
    <3> HIDE DEF st
    <3>2. HookTyped'
      BY <1>12, <1>a, <2>2, <3>1, SeenType DEF LoadForPaid, At, HookPlaces
    <3> QED
      BY <1>12, <1>b, <3>2 DEF LoadForPaid
  <2>4. CASE ~(st = "paid" \/ CanOrderMove(st, "paid"))
    BY <1>12, <1>a, <1>b, <2>4, FinishType DEF LoadForPaid
  <2> QED
    BY <2>3, <2>4
<1>13. ASSUME NEW h \in Hooks, SavePaid(h) PROVE TypeOK'
  <2>1. OrderOn(h) \in Orders /\ hook[h].pay \in Payments /\ hook[h].pc # "idle"
    BY <1>13, <1>a, OrderOnType DEF SavePaid, At
  <2>2. hook[h].nums \in SUBSET Numbers
    BY DEF HookRecords
  <2>3. orders' \in [Orders -> [status : OrderStatuses \cup {"absent"},
                                numbers : SUBSET Numbers,
                                paidBy : Payments \cup {NoPayment}]]
    <3>1. orders[OrderOn(h)].status \in OrderStatuses \cup {"absent"}
      BY <2>1
    <3>2. "paid" \in OrderStatuses
      BY DEF OrderStatuses
    <3> QED
      BY <1>13, <2>1, <2>2, <3>1, <3>2 DEF SavePaid
  <2>4. HookTyped'
    BY <1>13, <1>a, <2>1, GotoType DEF SavePaid, HookPlaces
  <2> QED
    BY <1>13, <1>b, <2>3, <2>4 DEF SavePaid
<1>14. ASSUME NEW h \in Hooks, CountAssigned(h) PROVE TypeOK'
  <2> DEFINE count == Cardinality(InStatus("assigned"))
  <2>1. count \in 0..Cardinality(Numbers)
    BY <1>c DEF InStatus
  <2>2. hook' = [hook EXCEPT ![h].pc = "setSold", ![h].count = count]
    BY <1>14 DEF CountAssigned
  <2> HIDE DEF count
  <2>3. HookTyped'
    BY <1>14, <1>a, <2>1, <2>2, CountType DEF CountAssigned, At, HookPlaces
  <2> QED
    BY <1>14, <1>b, <2>3 DEF CountAssigned
<1>15. ASSUME NEW h \in Hooks, SetSold(h) PROVE TypeOK'
  <2>1. hook[h].pc # "idle" /\ hook[h].count \in 0..Cardinality(Numbers)
    BY <1>15 DEF SetSold, At, HookRecords
  <2>2. HookTyped'
    BY <1>15, <1>a, <2>1, FinishType, GotoType DEF SetSold, HookPlaces
  <2> QED
    BY <1>15, <1>b, <2>1, <2>2 DEF SetSold
<1>16. ASSUME NEW h \in Hooks, SendMail(h) PROVE TypeOK'
  <2>1. OrderOn(h) \in Orders
    BY <1>16, <1>a, OrderOnType DEF SendMail, At
  <2>2. MailCap \in Nat
    BY PurchaseAssumption
  <2>3. mailed' \in [Orders -> 0..MailCap]
    BY <1>16, <2>1, <2>2 DEF SendMail
  <2> QED
    BY <1>16, <1>a, <1>b, <2>3, FinishType DEF SendMail
<1>17. ASSUME NEW h \in Hooks, FailMail(h) \/ CrashHook(h) PROVE TypeOK'
  BY <1>17, <1>a, <1>b, FinishType DEF FailMail, CrashHook
<1>18. ASSUME NEW h \in Hooks, ReleaseRefused(h) PROVE TypeOK'
  <2>1. OrderOn(h) \in Orders /\ hook[h].pc # "idle"
    BY <1>18, <1>a, OrderOnType DEF ReleaseRefused, At
  <2>2. tickets' \in [Numbers -> TicketDocs]
    BY <1>18, <1>a, <2>1, ReleasedType DEF ReleaseRefused
  <2>3. HookTyped'
    BY <1>18, <1>a, <2>1, GotoType DEF ReleaseRefused, HookPlaces
  <2> QED
    BY <1>18, <1>b, <2>2, <2>3 DEF ReleaseRefused
<1>19. ASSUME NEW h \in Hooks, LoadForFailed(h) PROVE TypeOK'
  <2>1. hook[h].pc # "idle"
    BY <1>19 DEF LoadForFailed, At
  <2>2. HookTyped'
    BY <1>19, <1>a, <2>1, GotoType, FinishType DEF LoadForFailed, HookPlaces
  <2> QED
    BY <1>19, <1>b, <2>2 DEF LoadForFailed
<1>20. ASSUME NEW h \in Hooks, SaveFailed(h) PROVE TypeOK'
  <2>1. OrderOn(h) \in Orders
    BY <1>20, <1>a, OrderOnType DEF SaveFailed, At
  <2>2. orders' \in [Orders -> [status : OrderStatuses \cup {"absent"},
                                numbers : SUBSET Numbers,
                                paidBy : Payments \cup {NoPayment}]]
    <3>1. "failed" \in OrderStatuses
      BY DEF OrderStatuses
    <3>2. PICK st \in OrderStatuses, o \in Orders :
            orders' = [orders EXCEPT ![o].status = st]
      BY <1>20, <2>1, <3>1 DEF SaveFailed
    <3> QED
      BY <3>2, ZenonT(60)
  <2> QED
    BY <1>20, <1>a, <1>b, <2>2, FinishType DEF SaveFailed
<1>21. ASSUME NEW o \in Orders, Lapse(o) PROVE TypeOK'
  BY <1>21 DEF Lapse
<1>22. ASSUME NEW s \in Sweepers, FindLapsed(s) \/ CrashSweep(s) PROVE TypeOK'
  BY <1>22 DEF FindLapsed, Lapsed, CrashSweep, IdleSweep
<1>23. ASSUME NEW s \in Sweepers, NEW o \in Orders, Expire(s, o) PROVE TypeOK'
  <2>1. orders' \in [Orders -> [status : OrderStatuses \cup {"absent"},
                                numbers : SUBSET Numbers,
                                paidBy : Payments \cup {NoPayment}]]
    <3>1. "expired" \in OrderStatuses
      BY DEF OrderStatuses
    <3>2. PICK st \in OrderStatuses \cup {"absent"} :
            orders' = [orders EXCEPT ![o].status = st]
      BY <1>23, <3>1 DEF Expire
    <3> QED
      BY <3>2, ZenonT(60)
  <2>2. sweep' \in [Sweepers -> [todo : SUBSET Orders, releasing : SUBSET Orders]]
    BY <1>23 DEF Expire
  <2> QED
    BY <1>23, <2>1, <2>2 DEF Expire
<1>24. ASSUME NEW s \in Sweepers, NEW o \in Orders, ReleaseLapsed(s, o) PROVE TypeOK'
  <2>1. tickets' \in [Numbers -> TicketDocs]
    BY <1>24, <1>a, ReleasedType DEF ReleaseLapsed
  <2> QED
    BY <1>24, <2>1 DEF ReleaseLapsed
<1> QED
  BY <1>1, <1>2, <1>3, <1>4, <1>5, <1>6, <1>7, <1>8, <1>9, <1>10, <1>11, <1>12, <1>13,
     <1>14, <1>15, <1>16, <1>17, <1>18, <1>19, <1>20, <1>21, <1>22, <1>23, <1>24
  DEF Next, Buy, Approve, Decline, Sweep

\* Purchase is type correct.
THEOREM TypeCorrect == Spec => []TypeOK
  BY InitTypeOK, StepTypeOK, PTL DEF Spec

-------------------------------------------------------------------------------
\* soldTickets and assigned tickets

\* Only three kinds of step touch a ticket: a reservation takes free numbers, an assignment
\* moves reserved ones, a release deletes reserved ones.
LEMMA TicketSteps ==
    ASSUME [Next]_vars
    PROVE  \/ UNCHANGED tickets
           \/ \E o \in Orders : Reserve(o)
           \/ \E h \in Hooks : AssignTickets(h) \/ ReleaseRefused(h)
           \/ \E s \in Sweepers, o \in Orders : ReleaseLapsed(s, o)
<1> USE DEF Next, vars
<1>1. ASSUME NEW o \in Orders, Buy(o), ~Reserve(o) PROVE UNCHANGED tickets
  BY <1>1 DEF Buy, ReadRaffle, Admit, Refuse, AbortReserve
<1>2. ASSUME NEW o \in Orders, Lapse(o) PROVE UNCHANGED tickets
  BY <1>2 DEF Lapse
<1>3. ASSUME NEW p \in Payments, Checkout(p) PROVE UNCHANGED tickets
  BY <1>3 DEF Checkout, OpenCheckout, CreatePayment
<1>4. ASSUME NEW h \in Hooks, NEW event \in Events, Receive(h, event)
      PROVE  UNCHANGED tickets
  BY <1>4 DEF Receive
<1>5. ASSUME NEW h \in Hooks, RecordPayment(h) \/ CrashHook(h) PROVE UNCHANGED tickets
  BY <1>5 DEF RecordPayment, CrashHook
<1>6. ASSUME NEW h \in Hooks, Approve(h), ~AssignTickets(h) PROVE UNCHANGED tickets
  BY <1>6 DEF Approve, ReadOrder, FindReserved, ListAssigned, LoadForPaid, SavePaid,
              CountAssigned, SetSold, SendMail, FailMail
<1>7. ASSUME NEW h \in Hooks, Decline(h), ~ReleaseRefused(h) PROVE UNCHANGED tickets
  BY <1>7 DEF Decline, LoadForFailed, SaveFailed
<1>8. ASSUME NEW s \in Sweepers, Sweep(s), ~(\E o \in Orders : ReleaseLapsed(s, o))
      PROVE  UNCHANGED tickets
  BY <1>8 DEF Sweep, FindLapsed, Expire
<1>9. ASSUME NEW s \in Sweepers, CrashSweep(s) PROVE UNCHANGED tickets
  BY <1>9 DEF CrashSweep
<1> QED
  BY <1>1, <1>2, <1>3, <1>4, <1>5, <1>6, <1>7, <1>8, <1>9

\* A release never touches an assigned ticket.
LEMMA ReleaseSparesAssigned ==
    ASSUME NEW o, NEW n \in Numbers, tickets[n].status = "assigned"
    PROVE  Released(o)[n] = tickets[n]
  BY DEF Released, Reserved

\* No step takes an assigned ticket from its order.
LEMMA StepAssigned == [Next]_vars => AssignedStep
<1> SUFFICES ASSUME [Next]_vars, NEW n \in Numbers, tickets[n].status = "assigned"
             PROVE  tickets'[n] = tickets[n]
  BY DEF AssignedStep
<1>1. CASE UNCHANGED tickets
  BY <1>1
<1>2. ASSUME NEW o \in Orders, Reserve(o) PROVE tickets'[n] = tickets[n]
  BY <1>2 DEF Reserve, InStatus
<1>3. ASSUME NEW h \in Hooks, AssignTickets(h) PROVE tickets'[n] = tickets[n]
  BY <1>3 DEF AssignTickets, Reserved
<1>4. ASSUME NEW h \in Hooks, ReleaseRefused(h) PROVE tickets'[n] = tickets[n]
  BY <1>4, ReleaseSparesAssigned DEF ReleaseRefused
<1>5. ASSUME NEW s \in Sweepers, NEW o \in Orders, ReleaseLapsed(s, o)
      PROVE  tickets'[n] = tickets[n]
  BY <1>5, ReleaseSparesAssigned DEF ReleaseLapsed
<1> QED
  BY <1>1, <1>2, <1>3, <1>4, <1>5, TicketSteps

\* An assigned ticket is its order's for good.
THEOREM AssignedForever == Spec => AssignedIsForever
  BY StepAssigned, PTL DEF Spec, AssignedIsForever

\* soldTickets is written from a count a webhook took earlier, so the counts in flight are
\* bounded too.
CountsBounded ==
    /\ SoldNeverExceedsAssigned
    /\ \A h \in Hooks :
         hook[h].pc = "setSold" => hook[h].count <= Cardinality(InStatus("assigned"))

\* The assigned tickets never get fewer.
LEMMA AssignedGrows ==
    ASSUME [Next]_vars
    PROVE  /\ Cardinality(InStatus("assigned")) \in Nat
           /\ Cardinality(InStatus("assigned"))' \in Nat
           /\ Cardinality(InStatus("assigned")) <= Cardinality(InStatus("assigned"))'
<1>1. InStatus("assigned") \subseteq InStatus("assigned")'
  BY StepAssigned DEF AssignedStep, InStatus
<1>2. InStatus("assigned") \subseteq Numbers /\ InStatus("assigned")' \subseteq Numbers
  BY DEF InStatus
<1> QED
  BY <1>1, <1>2, CountBounded, CountGrows

\* The only steps that give a webhook request a count, or soldTickets a value.
LEMMA CountSteps ==
    ASSUME TypeOK, [Next]_vars
    PROVE  /\ \/ UNCHANGED sold
              \/ \E h \in Hooks : At(h, "setSold") /\ sold' = hook[h].count
           /\ \A h \in Hooks :
                hook'[h].pc = "setSold" =>
                  \/ hook'[h] = hook[h]
                  \/ hook'[h].count = Cardinality(InStatus("assigned"))
<1> DEFINE Counted(g) ==
             hook'[g].pc = "setSold" =>
               \/ hook'[g] = hook[g]
               \/ hook'[g].count = Cardinality(InStatus("assigned"))
<1>0. hook \in [Hooks -> HookRecords]
  BY DEF TypeOK
<1>1. ASSUME UNCHANGED hook PROVE \A g \in Hooks : Counted(g)
  BY <1>1
<1>2. ASSUME NEW h \in Hooks, Finish(h) PROVE \A g \in Hooks : Counted(g)
  BY <1>0, <1>2 DEF Finish, IdleHook
<1>3. ASSUME NEW h \in Hooks, NEW pc, pc # "setSold", Goto(h, pc)
      PROVE  \A g \in Hooks : Counted(g)
  BY <1>0, <1>3 DEF Goto, HookRecords
<1>4. ASSUME NEW h \in Hooks, NEW next, next.pc # "setSold", hook' = [hook EXCEPT ![h] = next]
      PROVE  \A g \in Hooks : Counted(g)
  BY <1>0, <1>4
<1>5. ASSUME NEW o \in Orders, Buy(o) \/ Lapse(o) PROVE UNCHANGED <<hook, sold>>
  BY <1>5 DEF Buy, ReadRaffle, Admit, Refuse, Reserve, AbortReserve, Lapse
<1>6. ASSUME NEW p \in Payments, Checkout(p) PROVE UNCHANGED <<hook, sold>>
  BY <1>6 DEF Checkout, OpenCheckout, CreatePayment
<1>7. ASSUME NEW s \in Sweepers, Sweep(s) \/ CrashSweep(s) PROVE UNCHANGED <<hook, sold>>
  BY <1>7 DEF Sweep, FindLapsed, Expire, ReleaseLapsed, CrashSweep
<1>8. ASSUME NEW h \in Hooks, NEW event \in Events, Receive(h, event)
      PROVE  UNCHANGED sold /\ \A g \in Hooks : Counted(g)
  <2>1. PICK next : /\ hook' = [hook EXCEPT ![h] = next]
                    /\ next.pc \in {"record", "order", "release"}
    <3> DEFINE start == [IdleHook EXCEPT !.pay = event[1],
                                         !.verdict = MapWompiStatus(event[2])]
    <3>1. \A pc : [start EXCEPT !.pc = pc].pc = pc
      BY DEF IdleHook
    <3>2. \A verdict : Branch(verdict) \in {"order", "release"}
      BY DEF Branch
    <3>3. \/ hook' = [hook EXCEPT ![h] =
                        [start EXCEPT !.pc = Branch(MapWompiStatus(event[2]))]]
          \/ hook' = [hook EXCEPT ![h] = [start EXCEPT !.pc = "record"]]
      BY <1>8 DEF Receive
    <3> HIDE DEF start
    <3> QED
      BY <3>1, <3>2, <3>3
  <2> QED
    BY <1>4, <1>8, <2>1 DEF Receive
<1>9. ASSUME NEW h \in Hooks, RecordPayment(h)
      PROVE  UNCHANGED sold /\ \A g \in Hooks : Counted(g)
  BY <1>3, <1>9 DEF RecordPayment, Branch
<1>10. ASSUME NEW h \in Hooks, ReadOrder(h)
       PROVE  UNCHANGED sold /\ \A g \in Hooks : Counted(g)
  BY <1>0, <1>3, <1>10 DEF ReadOrder, HookRecords
<1>11. ASSUME NEW h \in Hooks, FindReserved(h)
       PROVE  UNCHANGED sold /\ \A g \in Hooks : Counted(g)
  BY <1>0, <1>3, <1>11 DEF FindReserved, HookRecords
<1>12. ASSUME NEW h \in Hooks, AssignTickets(h)
       PROVE  UNCHANGED sold /\ \A g \in Hooks : Counted(g)
  BY <1>3, <1>12 DEF AssignTickets
<1>13. ASSUME NEW h \in Hooks, ListAssigned(h)
       PROVE  UNCHANGED sold /\ \A g \in Hooks : Counted(g)
  BY <1>0, <1>2, <1>13 DEF ListAssigned, HookRecords
<1>14. ASSUME NEW h \in Hooks, LoadForPaid(h)
       PROVE  UNCHANGED sold /\ \A g \in Hooks : Counted(g)
  BY <1>0, <1>2, <1>14 DEF LoadForPaid, HookRecords
<1>15. ASSUME NEW h \in Hooks, SavePaid(h)
       PROVE  UNCHANGED sold /\ \A g \in Hooks : Counted(g)
  BY <1>3, <1>15 DEF SavePaid
<1>16. ASSUME NEW h \in Hooks, CountAssigned(h)
       PROVE  UNCHANGED sold /\ \A g \in Hooks : Counted(g)
  BY <1>0, <1>16 DEF CountAssigned, HookRecords
<1>17. ASSUME NEW h \in Hooks, SetSold(h)
       PROVE  /\ At(h, "setSold") /\ sold' = hook[h].count
              /\ \A g \in Hooks : Counted(g)
  BY <1>2, <1>3, <1>17 DEF SetSold
<1>18. ASSUME NEW h \in Hooks, SendMail(h) \/ FailMail(h) \/ CrashHook(h) \/ SaveFailed(h)
       PROVE  UNCHANGED sold /\ \A g \in Hooks : Counted(g)
  BY <1>2, <1>18 DEF SendMail, FailMail, CrashHook, SaveFailed
<1>19. ASSUME NEW h \in Hooks, ReleaseRefused(h) \/ LoadForFailed(h)
       PROVE  UNCHANGED sold /\ \A g \in Hooks : Counted(g)
  BY <1>2, <1>3, <1>19 DEF ReleaseRefused, LoadForFailed
<1>20. CASE UNCHANGED vars
  BY <1>1, <1>20 DEF vars
<1> QED
  BY <1>1, <1>5, <1>6, <1>7, <1>8, <1>9, <1>10, <1>11, <1>12, <1>13, <1>14, <1>15, <1>16,
     <1>17, <1>18, <1>19, <1>20 DEF Next, Approve, Decline

\* The bound on soldTickets and on the counts in flight is kept by every step: a count
\* taken is exact, and what it is compared with only grows.
LEMMA StepCounts == TypeOK /\ CountsBounded /\ [Next]_vars => CountsBounded'
<1> SUFFICES ASSUME TypeOK, CountsBounded, [Next]_vars
             PROVE  CountsBounded'
  OBVIOUS
<1> DEFINE now == Cardinality(InStatus("assigned"))
           then == Cardinality(InStatus("assigned"))'
<1>1. now \in Nat /\ then \in Nat /\ now <= then
  BY AssignedGrows
<1>2. sold \in Nat /\ \A h \in Hooks : hook[h].count \in Nat
  BY CountBounded DEF TypeOK, HookRecords
<1>3. sold <= now
  BY DEF CountsBounded, SoldNeverExceedsAssigned
<1>4. \A h \in Hooks : hook[h].pc = "setSold" => hook[h].count <= now
  BY DEF CountsBounded
<1>5. \A h \in Hooks : hook'[h].pc = "setSold" =>
        hook'[h] = hook[h] \/ hook'[h].count = now
  BY CountSteps
<1>6. UNCHANGED sold \/ \E h \in Hooks : hook[h].pc = "setSold" /\ sold' = hook[h].count
  BY CountSteps DEF At
<1> HIDE DEF now, then
<1>7. sold' <= then
  BY <1>1, <1>2, <1>3, <1>4, <1>6
<1>8. \A h \in Hooks : hook'[h].pc = "setSold" => hook'[h].count <= then
  BY <1>1, <1>2, <1>4, <1>5
<1> QED
  BY <1>7, <1>8 DEF CountsBounded, SoldNeverExceedsAssigned, then

LEMMA InitCountsBounded == Init => CountsBounded
<1> SUFFICES ASSUME Init PROVE CountsBounded
  OBVIOUS
<1>1. Cardinality(InStatus("assigned")) \in Nat
  BY CountBounded DEF InStatus
<1>2. \A h \in Hooks : hook[h].pc = "idle"
  BY DEF Init, IdleHook
<1> QED
  BY <1>1, <1>2 DEF Init, CountsBounded, SoldNeverExceedsAssigned

\* soldTickets is at most the number of assigned tickets, whatever stale count is written.
THEOREM SoldBounded == Spec => []SoldNeverExceedsAssigned
<1>1. CountsBounded => SoldNeverExceedsAssigned
  BY DEF CountsBounded
<1> QED
  BY <1>1, InitCountsBounded, InitTypeOK, StepTypeOK, StepCounts, PTL DEF Spec

-------------------------------------------------------------------------------
\* Purchase implements TicketCounts

\* Disjoint sets of numbers are counted one after the other, and together are no more than all.
LEMMA CountsAdd ==
    ASSUME NEW S, NEW T, S \subseteq Numbers, T \subseteq Numbers, S \cap T = {}
    PROVE  /\ Cardinality(S \cup T) = Cardinality(S) + Cardinality(T)
           /\ Cardinality(S) + Cardinality(T) <= Cardinality(Numbers)
<1>1. IsFiniteSet(S) /\ IsFiniteSet(T)
  BY CountBounded
<1>2. /\ Cardinality(S) \in Nat /\ Cardinality(T) \in Nat
      /\ Cardinality(S \cup T) = Cardinality(S) + Cardinality(T) - Cardinality({})
  BY <1>1, FS_Union, FS_CardinalityType
<1>3. Cardinality({}) = 0
  BY FS_EmptySet
<1>4. S \cup T \subseteq Numbers
  OBVIOUS
<1>5. Cardinality(S \cup T) <= Cardinality(Numbers)
  BY <1>4, CountBounded
<1> QED
  BY <1>2, <1>3, <1>5

\* The two counts of the inventory, and their limit.
LEMMA CountTypes ==
    /\ Cardinality(InStatus("reserved")) \in 0..Cardinality(Numbers)
    /\ Cardinality(InStatus("assigned")) \in 0..Cardinality(Numbers)
    /\ Cardinality(Numbers) \in Nat
<1>1. InStatus("reserved") \subseteq Numbers /\ InStatus("assigned") \subseteq Numbers
  BY DEF InStatus
<1>2. Cardinality(Numbers) \in Nat
  BY PurchaseAssumption, FS_CardinalityType
<1> QED
  BY <1>1, <1>2, CountBounded

\* A step that takes `moved` from the reserved tickets takes as many as there are in it.
LEMMA CountsMove ==
    ASSUME NEW moved \in SUBSET Numbers,
           InStatus("reserved") = InStatus("reserved")' \cup moved,
           InStatus("reserved")' \cap moved = {}
    PROVE  /\ Cardinality(moved) \in 0..Cardinality(Numbers)
           /\ Cardinality(moved) <= Cardinality(InStatus("reserved"))
           /\ Cardinality(InStatus("reserved"))'
                = Cardinality(InStatus("reserved")) - Cardinality(moved)
<1>1. InStatus("reserved")' \subseteq Numbers
  BY DEF InStatus
<1>2. Cardinality(InStatus("reserved"))
        = Cardinality(InStatus("reserved")') + Cardinality(moved)
  BY <1>1, CountsAdd
<1>3. /\ Cardinality(moved) \in 0..Cardinality(Numbers)
      /\ Cardinality(InStatus("reserved")') \in 0..Cardinality(Numbers)
      /\ Cardinality(Numbers) \in Nat
  BY <1>1, CountBounded, CountTypes
<1> QED
  BY <1>2, <1>3

\* The ticket steps, as steps of the counts.
LEMMA ReserveCounts ==
    ASSUME NEW o \in Orders, Reserve(o)
    PROVE  Counts!Next
<1>1. PICK chosen \in SUBSET InStatus("free") :
        tickets' = [n \in Numbers |-> IF n \in chosen THEN Reserved(o) ELSE tickets[n]]
  BY DEF Reserve
<1>2. /\ InStatus("reserved")' = InStatus("reserved") \cup chosen
      /\ InStatus("reserved") \cap chosen = {}
      /\ InStatus("assigned")' = InStatus("assigned")
      /\ InStatus("reserved")' \cap InStatus("assigned") = {}
  BY <1>1 DEF InStatus, Reserved
<1>3. /\ chosen \subseteq Numbers /\ InStatus("reserved") \subseteq Numbers
      /\ InStatus("reserved")' \subseteq Numbers /\ InStatus("assigned") \subseteq Numbers
  BY DEF InStatus
<1> DEFINE k == Cardinality(chosen)
<1>4. /\ Cardinality(InStatus("reserved")') = Cardinality(InStatus("reserved")) + k
      /\ Cardinality(InStatus("reserved")') + Cardinality(InStatus("assigned"))
           <= Cardinality(Numbers)
      /\ k \in 0..Cardinality(Numbers)
  <2>1. Cardinality(InStatus("reserved") \cup chosen) = Cardinality(InStatus("reserved")) + k
    BY <1>2, <1>3, CountsAdd
  <2>2. Cardinality(InStatus("reserved")') + Cardinality(InStatus("assigned"))
          <= Cardinality(Numbers)
    BY <1>2, <1>3, CountsAdd
  <2>3. k \in 0..Cardinality(Numbers)
    BY <1>3, CountBounded
  <2> QED
    BY <1>2, <2>1, <2>2, <2>3
<1>5. /\ Cardinality(InStatus("assigned"))' = Cardinality(InStatus("assigned"))
      /\ UNCHANGED sold
  BY <1>2 DEF Reserve
<1>6. Cardinality(InStatus("reserved"))' = Cardinality(InStatus("reserved")')
  OBVIOUS
<1> HIDE DEF k
<1>7. Cardinality(InStatus("reserved")) + Cardinality(InStatus("assigned")) + k
        <= Cardinality(Numbers)
  BY <1>4, CountTypes
<1> QED
  BY <1>4, <1>5, <1>6, <1>7 DEF Counts!Next, Counts!Reserve

LEMMA AssignCounts ==
    ASSUME TypeOK, NEW h \in Hooks, AssignTickets(h)
    PROVE  Counts!Next
<1> DEFINE o == OrderOn(h)
           moved == {n \in hook[h].nums \cap Numbers : tickets[n] = Reserved(o)}
<1>1. tickets' = [n \in Numbers |-> IF n \in moved THEN Assigned(o) ELSE tickets[n]]
  BY DEF AssignTickets
<1>2. /\ InStatus("reserved") = InStatus("reserved")' \cup moved
      /\ InStatus("reserved")' \cap moved = {}
      /\ InStatus("assigned")' = InStatus("assigned") \cup moved
      /\ InStatus("assigned") \cap moved = {}
      /\ moved \subseteq Numbers /\ InStatus("assigned") \subseteq Numbers
  BY <1>1 DEF InStatus, Reserved, Assigned
<1>3. /\ Cardinality(moved) \in 0..Cardinality(Numbers)
      /\ Cardinality(moved) <= Cardinality(InStatus("reserved"))
      /\ Cardinality(InStatus("reserved"))'
           = Cardinality(InStatus("reserved")) - Cardinality(moved)
  BY <1>2, CountsMove
<1>4. Cardinality(InStatus("assigned"))' = Cardinality(InStatus("assigned")) + Cardinality(moved)
  <2>1. Cardinality(InStatus("assigned") \cup moved)
          = Cardinality(InStatus("assigned")) + Cardinality(moved)
    BY <1>2, CountsAdd
  <2> QED
    BY <1>2, <2>1
<1>5. UNCHANGED sold
  BY DEF AssignTickets
<1> QED
  BY <1>3, <1>4, <1>5 DEF Counts!Next, Counts!Assign

LEMMA ReleaseCounts ==
    ASSUME NEW o, tickets' = Released(o), UNCHANGED sold
    PROVE  Counts!Next
<1> DEFINE moved == ReservedOf(o)
<1>1. /\ InStatus("reserved") = InStatus("reserved")' \cup moved
      /\ InStatus("reserved")' \cap moved = {}
      /\ InStatus("assigned")' = InStatus("assigned")
      /\ moved \subseteq Numbers
  BY DEF InStatus, Released, ReservedOf, Reserved, Free
<1>2. /\ Cardinality(moved) \in 0..Cardinality(Numbers)
      /\ Cardinality(moved) <= Cardinality(InStatus("reserved"))
      /\ Cardinality(InStatus("reserved"))'
           = Cardinality(InStatus("reserved")) - Cardinality(moved)
  BY <1>1, CountsMove
<1>3. Cardinality(InStatus("assigned"))' = Cardinality(InStatus("assigned"))
  BY <1>1
<1> HIDE DEF moved
<1> QED
  BY <1>2, <1>3 DEF Counts!Next, Counts!Release

\* Every step moves the counts as TicketCounts says, or leaves them alone.
LEMMA StepCountsSpec == TypeOK /\ CountsBounded /\ [Next]_vars => [Counts!Next]_Counts!countVars
<1> SUFFICES ASSUME TypeOK, CountsBounded, [Next]_vars
             PROVE  [Counts!Next]_Counts!countVars
  OBVIOUS
<1>1. CASE UNCHANGED tickets
  <2>1. /\ Cardinality(InStatus("reserved"))' = Cardinality(InStatus("reserved"))
        /\ Cardinality(InStatus("assigned"))' = Cardinality(InStatus("assigned"))
    BY <1>1 DEF InStatus
  <2>2. CASE UNCHANGED sold
    BY <2>1, <2>2 DEF Counts!countVars
  <2>3. ASSUME NEW h \in Hooks, At(h, "setSold"), sold' = hook[h].count
        PROVE  Counts!Next
    <3>1. /\ hook[h].count <= Cardinality(InStatus("assigned"))
          /\ hook[h].count \in 0..Cardinality(Numbers)
      BY <2>3 DEF CountsBounded, At, TypeOK, HookRecords
    <3> QED
      BY <2>1, <2>3, <3>1 DEF Counts!Next, Counts!SetSold
  <2> QED
    BY <2>2, <2>3, CountSteps
<1>2. ASSUME NEW h \in Hooks, ReleaseRefused(h) PROVE Counts!Next
  BY <1>2, ReleaseCounts DEF ReleaseRefused
<1>3. ASSUME NEW s \in Sweepers, NEW o \in Orders, ReleaseLapsed(s, o) PROVE Counts!Next
  BY <1>3, ReleaseCounts DEF ReleaseLapsed
<1> QED
  BY <1>1, <1>2, <1>3, ReserveCounts, AssignCounts, TicketSteps

\* The sale moves reserved tickets, assigned tickets and soldTickets as TicketCounts says: this
\* is what AdminPanel's reads run against.
THEOREM CountsAreImplemented == Spec => CountsSpec
<1>1. ASSUME Init PROVE Counts!Init
  <2>1. InStatus("reserved") = {} /\ InStatus("assigned") = {}
    BY <1>1 DEF Init, InStatus, Free
  <2> QED
    BY <1>1, <2>1, FS_EmptySet DEF Init, Counts!Init
<1>2. Init => CountsBounded
  BY InitCountsBounded
<1> QED
  BY <1>1, <1>2, InitTypeOK, StepTypeOK, StepCounts, StepCountsSpec, PTL
  DEF Spec, CountsSpec, Counts!Spec

-------------------------------------------------------------------------------
\* A paid order does not expire.

\* The only steps that write an order's status.
LEMMA StatusSteps ==
    ASSUME [Next]_vars
    PROVE  \/ UNCHANGED orders
           \/ \E o \in Orders : Reserve(o)
           \/ \E h \in Hooks : SavePaid(h) \/ SaveFailed(h)
           \/ \E s \in Sweepers, o \in Orders : Expire(s, o)
<1>1. ASSUME NEW o \in Orders, Buy(o) \/ Lapse(o), ~Reserve(o) PROVE UNCHANGED orders
  BY <1>1 DEF Buy, ReadRaffle, Admit, Refuse, AbortReserve, Lapse
<1>2. ASSUME NEW p \in Payments, Checkout(p) PROVE UNCHANGED orders
  BY <1>2 DEF Checkout, OpenCheckout, CreatePayment
<1>3. ASSUME NEW h \in Hooks, NEW event \in Events, Receive(h, event) PROVE UNCHANGED orders
  BY <1>3 DEF Receive
<1>4. ASSUME NEW h \in Hooks, RecordPayment(h) \/ Approve(h), ~SavePaid(h)
      PROVE  UNCHANGED orders
  BY <1>4 DEF Approve, RecordPayment, ReadOrder, FindReserved, AssignTickets, ListAssigned,
              LoadForPaid, CountAssigned, SetSold, SendMail, FailMail
<1>5. ASSUME NEW h \in Hooks, Decline(h) \/ CrashHook(h), ~SaveFailed(h)
      PROVE  UNCHANGED orders
  BY <1>5 DEF Decline, ReleaseRefused, LoadForFailed, CrashHook
<1>6. ASSUME NEW s \in Sweepers, Sweep(s) \/ CrashSweep(s),
             ~(\E o \in Orders : Expire(s, o))
      PROVE  UNCHANGED orders
  BY <1>6 DEF Sweep, FindLapsed, ReleaseLapsed, CrashSweep
<1> QED
  BY <1>1, <1>2, <1>3, <1>4, <1>5, <1>6 DEF Next, vars

LEMMA StepPaid ==
    ASSUME TypeOK, [Next]_vars, NEW o \in Orders, orders[o].status = "paid"
    PROVE  orders'[o].status # "expired"
<1>0. orders \in [Orders -> [status : OrderStatuses \cup {"absent"},
                            numbers : SUBSET Numbers, paidBy : Payments \cup {NoPayment}]]
  BY DEF TypeOK
<1>1. CASE UNCHANGED orders
  BY <1>1
<1>2. ASSUME NEW other \in Orders, Reserve(other) PROVE orders'[o].status # "expired"
  BY <1>0, <1>2 DEF Reserve
<1>3. ASSUME NEW h \in Hooks, SavePaid(h) PROVE orders'[o].status # "expired"
  BY <1>0, <1>3 DEF SavePaid
<1>4. ASSUME NEW h \in Hooks, SaveFailed(h) PROVE orders'[o].status # "expired"
  BY <1>0, <1>4 DEF SaveFailed
<1>5. ASSUME NEW s \in Sweepers, NEW other \in Orders, Expire(s, other)
      PROVE  orders'[o].status # "expired"
  BY <1>0, <1>5 DEF Expire
<1> QED
  BY <1>1, <1>2, <1>3, <1>4, <1>5, StatusSteps

\* The update of a sweep filters on pending_payment, so an order paid since it was found is
\* left alone.
THEOREM PaidStaysUnexpired == Spec => PaidNeverExpires
<1>1. TypeOK /\ [Next]_vars =>
        [\A o \in Orders : orders[o].status = "paid" => orders'[o].status # "expired"]_vars
  BY StepPaid
<1> QED
  BY <1>1, TypeCorrect, PTL DEF Spec, PaidNeverExpires
===============================================================================
