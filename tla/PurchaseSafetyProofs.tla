-------------------------- MODULE PurchaseSafetyProofs --------------------------
(***************************************************************************)
(* Proofs that orders, their tickets and their payments agree: how the     *)
(* tickets of an order move, what a paid order owns and owes, what a       *)
(* closed one leaves behind, and that Purchase implements TicketSale.      *)
(***************************************************************************)
EXTENDS PurchaseProofs

-------------------------------------------------------------------------------
\* What a step does to one webhook request

Approving == {"order", "find", "assign", "list", "loadPaid", "savePaid"}
Refusing == {"release", "loadFailed", "saveFailed"}

StepOf(h) == RecordPayment(h) \/ Approve(h) \/ Decline(h) \/ CrashHook(h)

\* A webhook request stays where it is unless it is its turn.
LEMMA HookSteps ==
    ASSUME TypeOK, [Next]_vars, NEW h \in Hooks
    PROVE  \/ hook'[h] = hook[h]
           \/ \E event \in Events : Receive(h, event)
           \/ StepOf(h)
<1>0. hook \in [Hooks -> HookRecords]
  BY DEF TypeOK
<1>1. CASE UNCHANGED hook
  BY <1>1
<1>2. ASSUME NEW g \in Hooks, g # h, \E next : hook' = [hook EXCEPT ![g] = next]
      PROVE  hook'[h] = hook[h]
  BY <1>0, <1>2
<1>3. ASSUME NEW g \in Hooks, g # h, NEW event \in Events, Receive(g, event)
      PROVE  hook'[h] = hook[h]
  BY <1>2, <1>3 DEF Receive
<1>4. ASSUME NEW g \in Hooks, g # h, StepOf(g)
      PROVE  hook'[h] = hook[h]
  BY <1>0, <1>4
  DEF StepOf, RecordPayment, Approve, Decline, CrashHook, ReadOrder, FindReserved, AssignTickets,
      ListAssigned, LoadForPaid, SavePaid, CountAssigned, SetSold, SendMail, FailMail,
      ReleaseRefused, LoadForFailed, SaveFailed, Goto, Finish
<1>5. ASSUME NEW o \in Orders, Buy(o) \/ Lapse(o) PROVE UNCHANGED hook
  BY <1>5 DEF Buy, ReadRaffle, Admit, Refuse, Reserve, AbortReserve, Lapse
<1>6. ASSUME NEW p \in Payments, Checkout(p) PROVE UNCHANGED hook
  BY <1>6 DEF Checkout, OpenCheckout, CreatePayment
<1>7. ASSUME NEW s \in Sweepers, Sweep(s) \/ CrashSweep(s) PROVE UNCHANGED hook
  BY <1>7 DEF Sweep, FindLapsed, Expire, ReleaseLapsed, CrashSweep
<1> QED
  BY <1>1, <1>3, <1>4, <1>5, <1>6, <1>7 DEF Next, vars, StepOf

\* A request that starts has read a payment that is there; the event says more than pending.
LEMMA ReceiveLemma ==
    ASSUME TypeOK, NEW h \in Hooks, NEW event \in Events, Receive(h, event)
    PROVE  /\ hook'[h].pay = event[1] /\ event[1] \in Payments
           /\ hook'[h].verdict = MapWompiStatus(event[2])
           /\ hook'[h].verdict # "pending"
           /\ payments[event[1]] \notin {"absent", "opening"}
           /\ \/ hook'[h].pc = "record"
              \/ /\ hook'[h].pc = Branch(hook'[h].verdict)
                 /\ payments[event[1]] = hook'[h].verdict
           /\ UNCHANGED <<orders, tickets, payments, sold, due, request, sweep, mailed>>
<1> DEFINE p == event[1]
           verdict == MapWompiStatus(event[2])
           start == [IdleHook EXCEPT !.pay = p, !.verdict = verdict]
<1>1. \A pc : /\ [start EXCEPT !.pc = pc].pc = pc /\ [start EXCEPT !.pc = pc].pay = p
              /\ [start EXCEPT !.pc = pc].verdict = verdict
  BY DEF IdleHook
<1>2. /\ verdict # "pending" /\ payments[p] \notin {"absent", "opening"}
      /\ \/ /\ payments[p] = verdict
            /\ hook' = [hook EXCEPT ![h] = [start EXCEPT !.pc = Branch(verdict)]]
         \/ hook' = [hook EXCEPT ![h] = [start EXCEPT !.pc = "record"]]
      /\ UNCHANGED <<orders, tickets, payments, sold, due, request, sweep, mailed>>
  BY DEF Receive
<1>3. p \in Payments
  BY PurchaseAssumption
<1> HIDE DEF p, verdict, start
<1>4. \A next : hook' = [hook EXCEPT ![h] = next] => hook'[h] = next
  BY DEF TypeOK
<1>5. PICK pc : /\ hook' = [hook EXCEPT ![h] = [start EXCEPT !.pc = pc]]
                /\ pc = "record" \/ (pc = Branch(verdict) /\ payments[p] = verdict)
  BY <1>2
<1>6. hook'[h] = [start EXCEPT !.pc = pc]
  BY <1>4, <1>5
<1>7. hook'[h].pc = pc /\ hook'[h].pay = p /\ hook'[h].verdict = verdict
  BY <1>1, <1>6
<1> QED
  BY <1>2, <1>3, <1>5, <1>7 DEF p, verdict

\* Where a request that is being served goes, and what it then holds.
LEMMA StepLemma ==
    ASSUME TypeOK, NEW h \in Hooks, StepOf(h)
    PROVE  /\ hook[h].pc # "idle"
           /\ \/ hook'[h].pc = "idle"
              \/ hook'[h].pay = hook[h].pay /\ hook'[h].verdict = hook[h].verdict
           /\ hook'[h].pc # "record"
           /\ hook'[h].pc \in Approving =>
                hook[h].pc \in Approving \/ (RecordPayment(h) /\ hook[h].verdict = "approved")
           /\ hook'[h].pc \in Refusing =>
                hook[h].pc \in Refusing \/ (RecordPayment(h) /\ hook[h].verdict # "approved")
           /\ hook'[h].pc = "assign" =>
                /\ hook'[h].nums = ReservedOf(OrderOn(h)) /\ hook'[h].nums # {}
                /\ UNCHANGED <<orders, tickets>>
           /\ hook'[h].pc = "loadPaid" =>
                \/ AssignTickets(h) /\ hook'[h].nums = hook[h].nums
                \/ /\ hook'[h].nums = AssignedOf(OrderOn(h)) /\ hook'[h].nums # {}
                   /\ UNCHANGED <<orders, tickets>>
           /\ hook'[h].pc = "savePaid" =>
                /\ hook[h].pc = "loadPaid" /\ hook'[h].nums = hook[h].nums
                /\ orders[OrderOn(h)].status \in {"paid", "pending_payment"}
                /\ UNCHANGED <<orders, tickets>>
           /\ hook'[h].pc = "loadFailed" => ReleaseRefused(h)
           /\ hook'[h].pc = "saveFailed" => hook[h].pc = "loadFailed" /\ UNCHANGED <<orders, tickets>>
<1>0. hook \in [Hooks -> HookRecords] /\ hook[h] \in HookRecords
  BY DEF TypeOK
<1> USE DEF Approving, Refusing
<1>1. CASE RecordPayment(h)
  <2>1. /\ hook[h].pc = "record" /\ hook'[h].pc = Branch(hook[h].verdict)
        /\ hook'[h].pay = hook[h].pay /\ hook'[h].verdict = hook[h].verdict
    BY <1>0, <1>1 DEF RecordPayment, At, Goto, HookRecords
  <2> QED
    BY <1>1, <2>1 DEF Branch
<1>2. CASE ReadOrder(h)
  <2>1. /\ hook[h].pc = "order" /\ hook'[h].pc \in {"count", "find"}
        /\ hook'[h].pay = hook[h].pay /\ hook'[h].verdict = hook[h].verdict
    BY <1>0, <1>2 DEF ReadOrder, At, Goto, HookRecords
  <2> QED
    BY <2>1
<1>3. CASE FindReserved(h)
  <2>1. /\ hook[h].pc = "find"
        /\ \/ hook'[h].pc = "list"
           \/ /\ hook'[h].pc = "assign" /\ hook'[h].nums = ReservedOf(OrderOn(h))
              /\ hook'[h].nums # {}
        /\ hook'[h].pay = hook[h].pay /\ hook'[h].verdict = hook[h].verdict
        /\ UNCHANGED <<orders, tickets>>
    <3> DEFINE found == ReservedOf(OrderOn(h))
    <3>1. /\ hook[h].pc = "find" /\ UNCHANGED <<orders, tickets>>
          /\ IF found = {}
             THEN Goto(h, "list")
             ELSE hook' = [hook EXCEPT ![h].pc = "assign", ![h].nums = found]
      BY <1>3 DEF FindReserved, At
    <3> HIDE DEF found
    <3>2. CASE found = {}
      BY <1>0, <3>1, <3>2 DEF Goto, HookRecords
    <3>3. CASE found # {}
      <4>1. hook' = [hook EXCEPT ![h].pc = "assign", ![h].nums = found]
        BY <3>1, <3>3
      <4>2. /\ hook'[h].pc = "assign" /\ hook'[h].nums = found
            /\ hook'[h].pay = hook[h].pay /\ hook'[h].verdict = hook[h].verdict
        BY <1>0, <4>1 DEF HookRecords
      <4> QED
        BY <3>1, <3>3, <4>2 DEF found
    <3> QED
      BY <3>2, <3>3
  <2> QED
    BY <2>1
<1>4. CASE AssignTickets(h)
  <2>1. /\ hook[h].pc = "assign" /\ hook'[h].pc = "loadPaid" /\ hook'[h].nums = hook[h].nums
        /\ hook'[h].pay = hook[h].pay /\ hook'[h].verdict = hook[h].verdict
    BY <1>0, <1>4 DEF AssignTickets, At, Goto, HookRecords
  <2> QED
    BY <1>4, <2>1
<1>5. CASE ListAssigned(h)
  <2> DEFINE found == AssignedOf(OrderOn(h))
  <2>1. /\ hook[h].pc = "list" /\ UNCHANGED <<orders, tickets>>
        /\ IF found = {}
           THEN Finish(h)
           ELSE hook' = [hook EXCEPT ![h].pc = "loadPaid", ![h].nums = found]
    BY <1>5 DEF ListAssigned, At
  <2> HIDE DEF found
  <2>2. CASE found = {}
    BY <1>0, <2>1, <2>2 DEF Finish, IdleHook
  <2>3. CASE found # {}
    <3>1. hook' = [hook EXCEPT ![h].pc = "loadPaid", ![h].nums = found]
      BY <2>1, <2>3
    <3>2. /\ hook'[h].pc = "loadPaid" /\ hook'[h].nums = found
          /\ hook'[h].pay = hook[h].pay /\ hook'[h].verdict = hook[h].verdict
      BY <1>0, <3>1 DEF HookRecords
    <3> QED
      BY <2>1, <2>3, <3>2 DEF found
  <2> QED
    BY <2>2, <2>3
<1>6. CASE LoadForPaid(h)
  <2> DEFINE st == orders[OrderOn(h)].status
  <2>1. /\ hook[h].pc = "loadPaid" /\ UNCHANGED <<orders, tickets>>
        /\ IF st = "paid" \/ CanOrderMove(st, "paid")
           THEN hook' = [hook EXCEPT ![h].pc = "savePaid", ![h].seen = st]
           ELSE Finish(h)
    BY <1>6 DEF LoadForPaid, At
  <2>2. CanOrderMove(st, "paid") => st = "pending_payment"
    BY DEF CanOrderMove, OrderTransitions
  <2> HIDE DEF st
  <2>3. CASE st = "paid" \/ CanOrderMove(st, "paid")
    <3>1. hook' = [hook EXCEPT ![h].pc = "savePaid", ![h].seen = st]
      BY <2>1, <2>3
    <3>2. /\ hook'[h].pc = "savePaid" /\ hook'[h].nums = hook[h].nums
          /\ hook'[h].pay = hook[h].pay /\ hook'[h].verdict = hook[h].verdict
      BY <1>0, <3>1 DEF HookRecords
    <3> QED
      BY <2>1, <2>2, <2>3, <3>2 DEF st
  <2>4. CASE ~(st = "paid" \/ CanOrderMove(st, "paid"))
    BY <1>0, <2>1, <2>4 DEF Finish, IdleHook
  <2> QED
    BY <2>3, <2>4
<1>7. CASE SavePaid(h) \/ CountAssigned(h)
  <2>1. /\ hook[h].pc # "idle" /\ hook'[h].pc \in {"count", "setSold"}
        /\ hook'[h].pay = hook[h].pay /\ hook'[h].verdict = hook[h].verdict
    BY <1>0, <1>7 DEF SavePaid, CountAssigned, At, Goto, HookRecords
  <2> QED
    BY <2>1
<1>8. CASE SetSold(h)
  <2>1. /\ hook[h].pc # "idle"
        /\ \/ hook'[h].pc = "idle"
           \/ /\ hook'[h].pc = "mail"
              /\ hook'[h].pay = hook[h].pay /\ hook'[h].verdict = hook[h].verdict
    BY <1>0, <1>8 DEF SetSold, At, Goto, Finish, IdleHook, HookRecords
  <2> QED
    BY <2>1
<1>9. CASE SendMail(h) \/ FailMail(h) \/ SaveFailed(h) \/ CrashHook(h)
  <2>1. hook[h].pc # "idle" /\ hook'[h].pc = "idle"
    BY <1>0, <1>9 DEF SendMail, FailMail, SaveFailed, CrashHook, At, Finish, IdleHook
  <2> QED
    BY <2>1
<1>10. CASE ReleaseRefused(h)
  <2>1. /\ hook[h].pc = "release" /\ hook'[h].pc = "loadFailed"
        /\ hook'[h].pay = hook[h].pay /\ hook'[h].verdict = hook[h].verdict
    BY <1>0, <1>10 DEF ReleaseRefused, At, Goto, HookRecords
  <2> QED
    BY <1>10, <2>1
<1>11. CASE LoadForFailed(h)
  <2>1. /\ hook[h].pc = "loadFailed" /\ UNCHANGED <<orders, tickets>>
        /\ \/ hook'[h].pc = "idle"
           \/ /\ hook'[h].pc = "saveFailed"
              /\ hook'[h].pay = hook[h].pay /\ hook'[h].verdict = hook[h].verdict
    BY <1>0, <1>11 DEF LoadForFailed, At, Goto, Finish, IdleHook, HookRecords
  <2> QED
    BY <2>1
<1> QED
  BY <1>1, <1>2, <1>3, <1>4, <1>5, <1>6, <1>7, <1>8, <1>9, <1>10, <1>11
  DEF StepOf, Approve, Decline

\* The only steps that write a payment.
LEMMA PaymentSteps ==
    ASSUME [Next]_vars
    PROVE  \/ UNCHANGED payments
           \/ \E p \in Payments : OpenCheckout(p) \/ CreatePayment(p)
           \/ \E h \in Hooks : RecordPayment(h)
<1>1. ASSUME NEW o \in Orders, Buy(o) \/ Lapse(o) PROVE UNCHANGED payments
  BY <1>1 DEF Buy, ReadRaffle, Admit, Refuse, Reserve, AbortReserve, Lapse
<1>2. ASSUME NEW h \in Hooks, NEW event \in Events, Receive(h, event) PROVE UNCHANGED payments
  BY <1>2 DEF Receive
<1>3. ASSUME NEW h \in Hooks, Approve(h) \/ Decline(h) \/ CrashHook(h)
      PROVE  UNCHANGED payments
  BY <1>3
  DEF Approve, Decline, CrashHook, ReadOrder, FindReserved, AssignTickets, ListAssigned,
      LoadForPaid, SavePaid, CountAssigned, SetSold, SendMail, FailMail, ReleaseRefused,
      LoadForFailed, SaveFailed
<1>4. ASSUME NEW s \in Sweepers, Sweep(s) \/ CrashSweep(s) PROVE UNCHANGED payments
  BY <1>4 DEF Sweep, FindLapsed, Expire, ReleaseLapsed, CrashSweep
<1> QED
  BY <1>1, <1>2, <1>3, <1>4 DEF Next, vars, Checkout

-------------------------------------------------------------------------------
\* What a step does to one order and to its tickets

\* The documents and webhook requests, without TypeOK's set constructions around them.
LEMMA Typed ==
    ASSUME TypeOK
    PROVE  /\ orders \in [Orders -> [status : OrderStatuses \cup {"absent"},
                                     numbers : SUBSET Numbers,
                                     paidBy : Payments \cup {NoPayment}]]
           /\ \A n \in Numbers : tickets[n] \in TicketDocs
           /\ DOMAIN tickets = Numbers
           /\ \A h \in Hooks : hook[h].pc # "idle" => OrderOn(h) \in Orders
  BY PurchaseAssumption DEF TypeOK, OrderOn

\* An order changes when its own request, its own webhooks or a sweep say so.
LEMMA OrderSteps ==
    ASSUME TypeOK, [Next]_vars, NEW o \in Orders
    PROVE  \/ orders'[o] = orders[o]
           \/ Reserve(o)
           \/ \E h \in Hooks : OrderOn(h) = o /\ (SavePaid(h) \/ SaveFailed(h))
           \/ \E s \in Sweepers : Expire(s, o)
<1>0. orders \in [Orders -> [status : OrderStatuses \cup {"absent"},
                            numbers : SUBSET Numbers,
                            paidBy : Payments \cup {NoPayment}]]
  BY Typed
<1>1. ASSUME NEW other \in Orders, other # o, Reserve(other) PROVE orders'[o] = orders[o]
  BY <1>0, <1>1 DEF Reserve
<1>2. ASSUME NEW h \in Hooks, OrderOn(h) # o, SavePaid(h) \/ SaveFailed(h)
      PROVE  orders'[o] = orders[o]
  BY <1>0, <1>2 DEF SavePaid, SaveFailed
<1>3. ASSUME NEW s \in Sweepers, NEW other \in Orders, other # o, Expire(s, other)
      PROVE  orders'[o] = orders[o]
  BY <1>0, <1>3 DEF Expire
<1> QED
  BY <1>1, <1>2, <1>3, StatusSteps

\* Tickets of an order change when that order is reserved, assigned or released.
LEMMA TicketsOf ==
    ASSUME TypeOK, [Next]_vars, NEW o \in Orders
    PROVE  \/ ReservedOf(o)' = ReservedOf(o) /\ AssignedOf(o)' = AssignedOf(o)
           \/ Reserve(o)
           \/ \E h \in Hooks : OrderOn(h) = o /\ (AssignTickets(h) \/ ReleaseRefused(h))
           \/ \E s \in Sweepers : ReleaseLapsed(s, o)
<1> DEFINE Same == ReservedOf(o)' = ReservedOf(o) /\ AssignedOf(o)' = AssignedOf(o)
<1>1. CASE UNCHANGED tickets
  BY <1>1 DEF ReservedOf, AssignedOf
<1>2. ASSUME NEW other \in Orders, other # o, Reserve(other) PROVE Same
  <2>1. PICK chosen \in SUBSET InStatus("free") :
          tickets' = [n \in Numbers |-> IF n \in chosen THEN Reserved(other) ELSE tickets[n]]
    BY <1>2 DEF Reserve
  <2>2. ASSUME NEW n \in Numbers
        PROVE  /\ tickets'[n] = Reserved(o) <=> tickets[n] = Reserved(o)
               /\ tickets'[n] = Assigned(o) <=> tickets[n] = Assigned(o)
    <3>1. CASE n \in chosen
      BY <1>2, <2>1, <3>1 DEF InStatus, Reserved, Assigned
    <3> QED
      BY <2>1, <3>1
  <2> QED
    BY <2>2 DEF ReservedOf, AssignedOf
<1>3. ASSUME NEW h \in Hooks, OrderOn(h) # o, AssignTickets(h) PROVE Same
  <2>1. ASSUME NEW n \in Numbers
        PROVE  /\ tickets'[n] = Reserved(o) <=> tickets[n] = Reserved(o)
               /\ tickets'[n] = Assigned(o) <=> tickets[n] = Assigned(o)
    <3>1. \/ tickets'[n] = tickets[n]
          \/ tickets[n] = Reserved(OrderOn(h)) /\ tickets'[n] = Assigned(OrderOn(h))
      <4>1. tickets' = [k \in Numbers |->
                          IF k \in hook[h].nums /\ tickets[k] = Reserved(OrderOn(h))
                          THEN Assigned(OrderOn(h)) ELSE tickets[k]]
        BY <1>3 DEF AssignTickets
      <4> QED
        BY <4>1
    <3> QED
      BY <1>3, <3>1 DEF Reserved, Assigned
  <2> QED
    BY <2>1 DEF ReservedOf, AssignedOf
<1>4. ASSUME NEW other, other # o, tickets' = Released(other) PROVE Same
  BY <1>4 DEF Released, ReservedOf, AssignedOf, Reserved, Assigned, Free
<1> QED
  BY <1>1, <1>2, <1>3, <1>4, TicketSteps DEF ReleaseRefused, ReleaseLapsed

\* A reservation gives its order some numbers and writes them down in it.
LEMMA ReserveEffect ==
    ASSUME TypeOK, NEW o \in Orders, Reserve(o)
    PROVE  /\ request[o].pc = "reserve"
           /\ orders'[o].status = "pending_payment" /\ orders'[o].paidBy = NoPayment
           /\ orders'[o].numbers # {}
           /\ ReservedOf(o)' = ReservedOf(o) \cup orders'[o].numbers
           /\ AssignedOf(o)' = AssignedOf(o)
           /\ \A n \in orders'[o].numbers : tickets[n].status = "free"
           /\ UNCHANGED <<payments, hook, sweep>>
<1>1. PICK chosen \in SUBSET InStatus("free") :
         /\ Cardinality(chosen) = Qty[o]
         /\ tickets' = [n \in Numbers |->
                          IF n \in chosen THEN Reserved(o) ELSE tickets[n]]
         /\ orders' = [orders EXCEPT ![o] =
                         [status |-> "pending_payment", numbers |-> chosen,
                          paidBy |-> NoPayment]]
  BY DEF Reserve
<1>2. chosen # {}
  BY <1>1, FS_EmptySet, PurchaseAssumption
<1>3. /\ orders'[o].status = "pending_payment" /\ orders'[o].paidBy = NoPayment
      /\ orders'[o].numbers = chosen
  BY <1>1, Typed
<1>4. ReservedOf(o)' = ReservedOf(o) \cup chosen
  BY <1>1 DEF ReservedOf, InStatus
<1>5. AssignedOf(o)' = AssignedOf(o)
  BY <1>1 DEF AssignedOf, InStatus, Assigned, Reserved
<1>6. \A n \in chosen : tickets[n].status = "free"
  BY DEF InStatus
<1> QED
  BY <1>2, <1>3, <1>4, <1>5, <1>6 DEF Reserve

\* An assignment moves what is still reserved of the numbers found earlier.
LEMMA AssignEffect ==
    ASSUME NEW h \in Hooks, NEW o, o = OrderOn(h), AssignTickets(h)
    PROVE  /\ hook[h].pc = "assign"
           /\ ReservedOf(o)' = ReservedOf(o) \ hook[h].nums
           /\ AssignedOf(o)' = AssignedOf(o) \cup (ReservedOf(o) \cap hook[h].nums)
  BY DEF AssignTickets, At, ReservedOf, AssignedOf, Reserved, Assigned

\* A release deletes the reserved tickets of its order and no other.
LEMMA ReleaseEffect ==
    ASSUME NEW o, tickets' = Released(o)
    PROVE  ReservedOf(o)' = {} /\ AssignedOf(o)' = AssignedOf(o)
  BY DEF Released, ReservedOf, AssignedOf, Reserved, Assigned, Free

-------------------------------------------------------------------------------
\* What exists

\* An order that is absent has nothing; whatever names an order, names one that exists; an
\* order that exists is no longer being created.
OrdersExist ==
    /\ \A o \in Orders :
         /\ request[o].pc # "idle" => orders[o].status = "absent"
         /\ orders[o].status = "absent" =>
              orders[o] = NoOrder /\ ReservedOf(o) = {} /\ AssignedOf(o) = {}
    /\ \A p \in Payments : payments[p] # "absent" => orders[OrderOf[p]].status # "absent"
    /\ \A h \in Hooks : hook[h].pc # "idle" => orders[OrderOn(h)].status # "absent"

\* An order that exists goes on existing.
LEMMA OrdersStay ==
    ASSUME TypeOK, OrdersExist, [Next]_vars, NEW o \in Orders
    PROVE  /\ orders[o].status # "absent" => orders'[o].status # "absent"
           /\ orders[o].status = "absent" => orders'[o] = orders[o] \/ Reserve(o)
<1>0. orders \in [Orders -> [status : OrderStatuses \cup {"absent"},
                            numbers : SUBSET Numbers,
                            paidBy : Payments \cup {NoPayment}]]
  BY Typed
<1>1. CASE Reserve(o)
  BY <1>1, ReserveEffect
<1>2. ASSUME NEW h \in Hooks, OrderOn(h) = o, SavePaid(h) \/ SaveFailed(h)
      PROVE  orders[o].status # "absent" /\ orders'[o].status # "absent"
  <2>1. orders[o].status # "absent"
    BY <1>2 DEF OrdersExist, SavePaid, SaveFailed, At
  <2> QED
    BY <1>0, <1>2, <2>1 DEF SavePaid, SaveFailed
<1>3. ASSUME NEW s \in Sweepers, Expire(s, o)
      PROVE  /\ orders[o].status # "absent" => orders'[o].status # "absent"
             /\ orders[o].status = "absent" => orders'[o] = orders[o]
  BY <1>0, <1>3 DEF Expire
<1> QED
  BY <1>1, <1>2, <1>3, OrderSteps

LEMMA StepOrdersExist ==
    ASSUME TypeOK, OrdersExist, [Next]_vars
    PROVE  OrdersExist'
<1>1. ASSUME NEW o \in Orders, request'[o].pc # "idle"
      PROVE  orders'[o].status = "absent"
  <2>1. orders[o].status = "absent" /\ ~Reserve(o)
    <3>1. CASE request'[o] = request[o]
      <4>1. ~Reserve(o)
        BY <1>1, <3>1 DEF Reserve, TypeOK, IdleRequest
      <4> QED
        BY <1>1, <3>1, <4>1 DEF OrdersExist
    <3>2. ASSUME ReadRaffle(o) \/ Admit(o) \/ Refuse(o) \/ AbortReserve(o) \/ Reserve(o)
          PROVE  orders[o].status = "absent" /\ ~Reserve(o)
      <4>1. ~Reserve(o) /\ ~Refuse(o) /\ ~AbortReserve(o)
        BY <1>1 DEF Reserve, Refuse, AbortReserve, TypeOK, IdleRequest
      <4>2. CASE ReadRaffle(o)
        BY <4>1, <4>2 DEF ReadRaffle, NoOrder
      <4>3. CASE Admit(o)
        BY <4>1, <4>3 DEF Admit, OrdersExist
      <4> QED
        BY <3>2, <4>1, <4>2, <4>3
    <3>3. ASSUME NEW other \in Orders, other # o, Buy(other) PROVE request'[o] = request[o]
      BY <3>3 DEF Buy, ReadRaffle, Admit, Refuse, Reserve, AbortReserve, TypeOK
    <3>4. ASSUME NEW other \in Orders, Lapse(other) PROVE UNCHANGED request
      BY <3>4 DEF Lapse
    <3>5. ASSUME NEW p \in Payments, Checkout(p) PROVE UNCHANGED request
      BY <3>5 DEF Checkout, OpenCheckout, CreatePayment
    <3>6. ASSUME NEW h \in Hooks, NEW event \in Events, Receive(h, event)
          PROVE  UNCHANGED request
      BY <3>6 DEF Receive
    <3>7. ASSUME NEW h \in Hooks, StepOf(h) PROVE UNCHANGED request
      BY <3>7
      DEF StepOf, RecordPayment, Approve, Decline, CrashHook, ReadOrder, FindReserved,
          AssignTickets, ListAssigned, LoadForPaid, SavePaid, CountAssigned, SetSold, SendMail,
          FailMail, ReleaseRefused, LoadForFailed, SaveFailed
    <3>8. ASSUME NEW s \in Sweepers, Sweep(s) \/ CrashSweep(s) PROVE UNCHANGED request
      BY <3>8 DEF Sweep, FindLapsed, Expire, ReleaseLapsed, CrashSweep
    <3>9. CASE UNCHANGED vars
      BY <3>1, <3>9 DEF vars
    <3> QED
      BY <3>1, <3>2, <3>3, <3>4, <3>5, <3>6, <3>7, <3>8, <3>9 DEF Next, Buy, StepOf
  <2> QED
    BY <2>1, OrdersStay
<1>2. ASSUME NEW o \in Orders, orders'[o].status = "absent"
      PROVE  orders'[o] = NoOrder /\ ReservedOf(o)' = {} /\ AssignedOf(o)' = {}
  <2>1. ~Reserve(o)
    BY <1>2, ReserveEffect
  <2>2. orders[o].status = "absent" /\ orders'[o] = orders[o]
    BY <1>2, <2>1, OrdersStay
  <2>3. orders[o] = NoOrder /\ ReservedOf(o) = {} /\ AssignedOf(o) = {}
    BY <2>2 DEF OrdersExist
  <2>4. ASSUME NEW h \in Hooks, OrderOn(h) = o PROVE ~AssignTickets(h) /\ ~ReleaseRefused(h)
    BY <2>2, <2>4 DEF OrdersExist, AssignTickets, ReleaseRefused, At
  <2>5. ASSUME NEW s \in Sweepers, ReleaseLapsed(s, o)
        PROVE  ReservedOf(o)' = {} /\ AssignedOf(o)' = AssignedOf(o)
    BY <2>5, ReleaseEffect DEF ReleaseLapsed
  <2> QED
    BY <2>1, <2>2, <2>3, <2>4, <2>5, TicketsOf
<1>3. ASSUME NEW p \in Payments, payments'[p] # "absent"
      PROVE  orders'[OrderOf[p]].status # "absent"
  <2>1. OrderOf[p] \in Orders
    BY PurchaseAssumption
  <2>2. payments[p] # "absent" \/ orders[OrderOf[p]].status # "absent"
    <3>1. \/ payments'[p] = payments[p]
          \/ \E q \in Payments : OpenCheckout(q) \/ CreatePayment(q)
          \/ \E h \in Hooks : RecordPayment(h)
      BY PaymentSteps
    <3>2. ASSUME NEW q \in Payments, OpenCheckout(q), q # p PROVE payments'[p] = payments[p]
      BY <3>2 DEF OpenCheckout, TypeOK
    <3>3. ASSUME NEW q \in Payments, CreatePayment(q)
          PROVE payments'[p] = payments[p] \/ payments[p] # "absent"
      BY <3>3 DEF CreatePayment, TypeOK
    <3>4. ASSUME NEW h \in Hooks, RecordPayment(h)
          PROVE  payments'[p] = payments[p] \/ orders[OrderOf[p]].status # "absent"
      BY <3>4 DEF RecordPayment, TypeOK, OrdersExist, OrderOn, At
    <3> QED
      BY <1>3, <3>1, <3>2, <3>3, <3>4 DEF OpenCheckout
  <2>3. orders[OrderOf[p]].status # "absent"
    BY <2>2 DEF OrdersExist
  <2> QED
    BY <2>1, <2>3, OrdersStay
<1>4. ASSUME NEW h \in Hooks, hook'[h].pc # "idle"
      PROVE  orders'[OrderOn(h)'].status # "absent"
  <2>1. CASE hook'[h] = hook[h]
    BY <1>4, <2>1, OrdersStay, Typed DEF OrdersExist, OrderOn
  <2>2. ASSUME NEW event \in Events, Receive(h, event)
        PROVE  orders'[OrderOn(h)'].status # "absent"
    BY <2>2, ReceiveLemma DEF OrdersExist, OrderOn
  <2>3. CASE StepOf(h)
    <3>1. hook[h].pc # "idle" /\ OrderOn(h)' = OrderOn(h)
      BY <1>4, <2>3, StepLemma DEF OrderOn
    <3> QED
      BY <3>1, OrdersStay, Typed DEF OrdersExist
  <2> QED
    BY <2>1, <2>2, <2>3, HookSteps
<1> QED
  BY <1>1, <1>2, <1>3, <1>4 DEF OrdersExist

\* What exists, in every state.
LEMMA InitOrdersExist == Init => OrdersExist
  BY PurchaseAssumption
  DEF Init, OrdersExist, NoOrder, IdleHook, IdleRequest, ReservedOf, AssignedOf, Free, Reserved,
      Assigned

-------------------------------------------------------------------------------
\* The tickets of an order move together

\* A webhook that is about to write an order carries the numbers that order has, and one
\* that has assigned or released its tickets left none of them reserved.
TicketsWhole ==
    /\ TicketsMoveTogether
    /\ \A o \in Orders : orders[o].status # "absent" => orders[o].numbers # {}
    /\ \A h \in Hooks :
         /\ hook[h].pc \in {"assign", "loadPaid", "savePaid"} =>
              hook[h].nums = orders[OrderOn(h)].numbers
         /\ hook[h].pc \in {"loadPaid", "savePaid", "loadFailed", "saveFailed"} =>
              ReservedOf(OrderOn(h)) = {}

\* An order that exists keeps its numbers, and reserves none once it has none reserved.
LEMMA OrderKept ==
    ASSUME TypeOK, OrdersExist, TicketsWhole, [Next]_vars,
           NEW o \in Orders, orders[o].status # "absent"
    PROVE  /\ orders'[o].status # "absent"
           /\ orders'[o].numbers = orders[o].numbers
           /\ ~Reserve(o)
           /\ ReservedOf(o) = {} => ReservedOf(o)' = {}
<1>0. orders \in [Orders -> [status : OrderStatuses \cup {"absent"},
                            numbers : SUBSET Numbers,
                            paidBy : Payments \cup {NoPayment}]]
  BY Typed
<1>1. ~Reserve(o)
  BY DEF Reserve, OrdersExist
<1>2. orders'[o].numbers = orders[o].numbers
  <2>1. ASSUME NEW h \in Hooks, OrderOn(h) = o, SavePaid(h)
        PROVE  orders'[o].numbers = orders[o].numbers
    <3>1. hook[h].nums = orders[o].numbers
      BY <2>1 DEF TicketsWhole, SavePaid, At
    <3> QED
      BY <1>0, <2>1, <3>1 DEF SavePaid
  <2>2. ASSUME NEW h \in Hooks, OrderOn(h) = o, SaveFailed(h)
        PROVE  orders'[o].numbers = orders[o].numbers
    BY <1>0, <2>2 DEF SaveFailed
  <2>3. ASSUME NEW s \in Sweepers, Expire(s, o)
        PROVE  orders'[o].numbers = orders[o].numbers
    BY <1>0, <2>3 DEF Expire
  <2> QED
    BY <1>1, <2>1, <2>2, <2>3, OrderSteps
<1>3. ReservedOf(o) = {} => ReservedOf(o)' = {}
  BY <1>1, TicketsOf, AssignEffect, ReleaseEffect DEF ReleaseRefused, ReleaseLapsed
<1> QED
  BY <1>1, <1>2, <1>3, OrdersStay

\* What TicketsMoveTogether leaves of the two sets.
LEMMA AllOrNothing ==
    ASSUME TicketsMoveTogether, NEW o \in Orders
    PROVE  /\ ReservedOf(o) = {} \/ AssignedOf(o) = {}
           /\ ReservedOf(o) = {} \/ ReservedOf(o) = orders[o].numbers
           /\ AssignedOf(o) = {} \/ AssignedOf(o) = orders[o].numbers
  BY DEF TicketsMoveTogether

LEMMA StepTicketsWhole ==
    ASSUME TypeOK, OrdersExist, TicketsWhole, [Next]_vars
    PROVE  TicketsWhole'
<1>1. ASSUME NEW o \in Orders
      PROVE  LET held == ReservedOf(o)' \cup AssignedOf(o)' IN
             /\ held \in {{}, orders'[o].numbers}
             /\ ReservedOf(o)' = {} \/ AssignedOf(o)' = {}
             /\ orders'[o].status # "absent" => orders'[o].numbers # {}
  <2>1. CASE orders[o].status = "absent"
    <3>1. CASE Reserve(o)
      BY <2>1, <3>1, ReserveEffect DEF OrdersExist
    <3>2. CASE ~Reserve(o)
      <4>1. orders'[o] = orders[o] /\ orders[o].status = "absent"
        BY <2>1, <3>2, OrdersStay
      <4>2. ReservedOf(o)' = {} /\ AssignedOf(o)' = {}
        BY <4>1, StepOrdersExist DEF OrdersExist
      <4> QED
        BY <4>1, <4>2
    <3> QED
      BY <3>1, <3>2
  <2>2. CASE orders[o].status # "absent"
    <3>1. /\ orders'[o].numbers = orders[o].numbers /\ orders[o].numbers # {}
          /\ ~Reserve(o)
      BY <2>2, OrderKept DEF TicketsWhole
    <3>2. /\ ReservedOf(o) = {} \/ AssignedOf(o) = {}
          /\ ReservedOf(o) = {} \/ ReservedOf(o) = orders[o].numbers
          /\ AssignedOf(o) = {} \/ AssignedOf(o) = orders[o].numbers
      BY AllOrNothing DEF TicketsWhole
    <3>3. \/ ReservedOf(o)' = ReservedOf(o) /\ AssignedOf(o)' = AssignedOf(o)
          \/ ReservedOf(o)' = {} /\ AssignedOf(o)' = AssignedOf(o)
          \/ ReservedOf(o)' = {} /\ AssignedOf(o)' = AssignedOf(o) \cup ReservedOf(o)
      <4>1. ASSUME NEW h \in Hooks, OrderOn(h) = o, AssignTickets(h)
            PROVE  ReservedOf(o)' = {} /\ AssignedOf(o)' = AssignedOf(o) \cup ReservedOf(o)
        <5>1. hook[h].nums = orders[o].numbers
          BY <4>1 DEF TicketsWhole, AssignTickets, At
        <5> QED
          BY <3>2, <4>1, <5>1, AssignEffect
      <4> QED
        BY <3>1, <4>1, TicketsOf, ReleaseEffect DEF ReleaseRefused, ReleaseLapsed
    <3> QED
      BY <3>1, <3>2, <3>3
  <2> QED
    BY <2>1, <2>2
<1>2. ASSUME NEW h \in Hooks, hook'[h].pc \in {"assign", "loadPaid", "savePaid"}
      PROVE  hook'[h].nums = orders'[OrderOn(h)'].numbers
  <2>1. CASE hook'[h] = hook[h]
    <3>1. OrderOn(h) \in Orders /\ orders[OrderOn(h)].status # "absent"
      BY <1>2, <2>1, Typed DEF OrdersExist
    <3> QED
      BY <1>2, <2>1, <3>1, OrderKept DEF TicketsWhole, OrderOn
  <2>2. ASSUME NEW event \in Events, Receive(h, event)
        PROVE  FALSE
    BY <1>2, <2>2, ReceiveLemma DEF Branch
  <2>3. CASE StepOf(h)
    <3>1. OrderOn(h)' = OrderOn(h) /\ hook[h].pc # "idle"
      BY <1>2, <2>3, StepLemma DEF OrderOn
    <3>2. OrderOn(h) \in Orders /\ orders[OrderOn(h)].status # "absent"
      BY <3>1, Typed DEF OrdersExist
    <3>3. /\ ReservedOf(OrderOn(h)) \in {{}, orders[OrderOn(h)].numbers}
          /\ AssignedOf(OrderOn(h)) \in {{}, orders[OrderOn(h)].numbers}
      BY <3>2, AllOrNothing DEF TicketsWhole
    <3>4. hook'[h].nums = orders[OrderOn(h)].numbers
      <4>1. AssignTickets(h) => hook[h].pc = "assign"
        BY DEF AssignTickets, At
      <4> QED
        BY <1>2, <2>3, <3>3, <4>1, StepLemma DEF TicketsWhole
    <3> QED
      BY <3>1, <3>2, <3>4, OrderKept
  <2> QED
    BY <2>1, <2>2, <2>3, HookSteps
<1>3. ASSUME NEW h \in Hooks,
             hook'[h].pc \in {"loadPaid", "savePaid", "loadFailed", "saveFailed"}
      PROVE  (ReservedOf(OrderOn(h)))' = {}
  <2>1. CASE hook'[h] = hook[h]
    <3>1. OrderOn(h) \in Orders /\ orders[OrderOn(h)].status # "absent"
      BY <1>3, <2>1, Typed DEF OrdersExist
    <3>2. ReservedOf(OrderOn(h)) = {}
      BY <1>3, <2>1 DEF TicketsWhole
    <3>3. \A o \in Orders : orders[o].status # "absent" /\ ReservedOf(o) = {}
                              => ReservedOf(o)' = {}
      BY OrderKept
    <3> QED
      BY <2>1, <3>1, <3>2, <3>3 DEF OrderOn, ReservedOf
  <2>2. ASSUME NEW event \in Events, Receive(h, event)
        PROVE  FALSE
    BY <1>3, <2>2, ReceiveLemma DEF Branch
  <2>3. CASE StepOf(h)
    <3>0. hook[h].pc # "idle" /\ OrderOn(h) \in Orders
      BY <2>3, StepLemma, Typed
    <3>1. PICK o \in Orders : o = OrderOn(h)
      BY <3>0
    <3>2. OrderOn(h)' = o /\ orders[o].status # "absent"
      BY <1>3, <2>3, <3>0, <3>1, StepLemma DEF OrderOn, OrdersExist
    <3>3. /\ ReservedOf(o) = {} \/ AssignedOf(o) = {}
          /\ ReservedOf(o) \in {{}, orders[o].numbers}
      BY <3>2, AllOrNothing DEF TicketsWhole
    <3>4. ReservedOf(o)' = {}
      <4>1. CASE AssignTickets(h)
        <5>1. hook[h].nums = orders[o].numbers
          BY <3>1, <4>1 DEF TicketsWhole, AssignTickets, At
        <5> QED
          BY <3>1, <3>3, <4>1, <5>1, AssignEffect
      <4>2. CASE ReleaseRefused(h)
        BY <3>1, <4>2, ReleaseEffect DEF ReleaseRefused
      <4>3. CASE ~AssignTickets(h) /\ ~ReleaseRefused(h)
        <5>1. ReservedOf(o) = {}
          BY <1>3, <2>3, <3>1, <3>3, <4>3, StepLemma DEF TicketsWhole
        <5> QED
          BY <3>2, <5>1, OrderKept
      <4> QED
        BY <4>1, <4>2, <4>3
    <3> QED
      BY <3>2, <3>4 DEF ReservedOf
  <2> QED
    BY <2>1, <2>2, <2>3, HookSteps
<1>4. TicketsMoveTogether'
  BY <1>1 DEF TicketsMoveTogether
<1> QED
  BY <1>1, <1>2, <1>3, <1>4 DEF TicketsWhole

\* Both invariants hold to begin with and are kept.
Coherent == TypeOK /\ OrdersExist /\ TicketsWhole

LEMMA InitCoherent == Init => Coherent
<1> SUFFICES ASSUME Init PROVE Coherent
  OBVIOUS
<1>1. TypeOK /\ OrdersExist
  BY InitTypeOK, InitOrdersExist
<1>2. TicketsWhole
  BY <1>1 DEF OrdersExist, TicketsWhole, TicketsMoveTogether, Init, NoOrder, IdleHook
<1> QED
  BY <1>1, <1>2 DEF Coherent

LEMMA StepCoherent == Coherent /\ [Next]_vars => Coherent'
  BY StepTypeOK, StepOrdersExist, StepTicketsWhole DEF Coherent

\* An order's tickets are all reserved, all assigned or all gone.
THEOREM TicketsStayTogether == Spec => []TicketsMoveTogether
<1>1. Coherent => TicketsMoveTogether
  BY DEF Coherent, TicketsWhole
<1> QED
  BY <1>1, InitCoherent, StepCoherent, PTL DEF Spec

-------------------------------------------------------------------------------
\* Purchase implements TicketSale

\* Whom a ticket document belongs to.
LEMMA Owners ==
    ASSUME TypeOK, NEW o \in Orders
    PROVE  /\ \A n \in Numbers : tickets[n].owner = {o} <=> tickets[n] \in {Reserved(o), Assigned(o)}
           /\ \A n \in Numbers : tickets[n].owner = {} <=> tickets[n].status = "free"
           /\ Sale!Held(o) = ReservedOf(o) \cup AssignedOf(o)
<1>1. \A n \in Numbers : tickets[n] \in TicketDocs
  BY Typed
<1>2. \A n \in Numbers : tickets[n].owner = {o} <=> tickets[n] \in {Reserved(o), Assigned(o)}
  BY <1>1 DEF TicketDocs, Free, Reserved, Assigned
<1>3. \A n \in Numbers : tickets[n].owner = {} <=> tickets[n].status = "free"
  BY <1>1 DEF TicketDocs, Free, Reserved, Assigned
<1>4. Sale!Held(o) = {n \in Numbers : tickets[n].owner = {o}}
  BY DEF Sale!Held
<1> QED
  BY <1>2, <1>3, <1>4 DEF ReservedOf, AssignedOf

\* The orders that exist stay the same but for the one that is reserved.
LEMMA ServedSteps ==
    ASSUME TypeOK, OrdersExist, [Next]_vars
    PROVE  \/ UNCHANGED {o \in Orders : orders[o].status # "absent"}
           \/ \E o \in Orders : Reserve(o)
<1> SUFFICES ASSUME \A o \in Orders : ~Reserve(o)
             PROVE  \A o \in Orders : orders'[o].status # "absent" <=> orders[o].status # "absent"
  OBVIOUS
<1> QED
  BY OrdersStay

\* Every step is a step of the sale, or invisible in it.
LEMMA StepSale == Coherent /\ [Next]_vars => [Sale!Next]_Sale!saleVars
<1> SUFFICES ASSUME Coherent, [Next]_vars
             PROVE  [Sale!Next]_Sale!saleVars
  OBVIOUS
<1> USE DEF Coherent
<1> DEFINE holder == [n \in Numbers |-> tickets[n].owner]
           bought == InStatus("assigned")
           served == {o \in Orders : orders[o].status # "absent"}
<1>0. TypeOK /\ TypeOK' /\ OrdersExist /\ TicketsWhole
  BY StepTypeOK
<1>1. ASSUME NEW o \in Orders, Reserve(o)
      PROVE  \E chosen \in SUBSET Numbers : Sale!Take(o, chosen)
  <2>1. PICK chosen \in SUBSET InStatus("free") :
           /\ Cardinality(chosen) = Qty[o]
           /\ tickets' = [n \in Numbers |->
                            IF n \in chosen THEN Reserved(o) ELSE tickets[n]]
           /\ orders' = [orders EXCEPT ![o] =
                           [status |-> "pending_payment", numbers |-> chosen,
                            paidBy |-> NoPayment]]
    BY <1>1 DEF Reserve
  <2>2. chosen # {} /\ chosen \in SUBSET Numbers
    BY <2>1, FS_EmptySet, PurchaseAssumption DEF InStatus
  <2>3. orders[o].status = "absent"
    BY <1>1 DEF OrdersExist, Reserve
  <2>4. \A n \in chosen : holder[n] = {}
    BY <1>0, <2>2, Owners DEF InStatus
  <2>5. holder' = [n \in Numbers |-> IF n \in chosen THEN {o} ELSE holder[n]]
    BY <2>1 DEF Reserved
  <2>6. served' = served \cup {o}
    BY <1>0, <2>1, Typed
  <2>7. bought' = bought
    BY <2>1, <2>2 DEF InStatus, Reserved
  <2> QED
    BY <2>2, <2>3, <2>4, <2>5, <2>6, <2>7 DEF Sale!Take
<1>2. ASSUME NEW h \in Hooks, AssignTickets(h), served' = served
      PROVE  (\E o \in Orders : Sale!BuyAll(o)) \/ UNCHANGED <<holder, bought, served>>
  <2>1. PICK o \in Orders : o = OrderOn(h)
    BY <1>0, <1>2, Typed DEF AssignTickets, At
  <2>2. /\ hook[h].nums = orders[o].numbers
        /\ tickets' = [n \in Numbers |->
                         IF n \in hook[h].nums /\ tickets[n] = Reserved(o)
                         THEN Assigned(o) ELSE tickets[n]]
    BY <1>0, <1>2, <2>1 DEF TicketsWhole, AssignTickets, At
  <2>3. /\ ReservedOf(o) = {} \/ AssignedOf(o) = {}
        /\ ReservedOf(o) = {} \/ ReservedOf(o) = orders[o].numbers
    BY <1>0, AllOrNothing DEF TicketsWhole
  <2>4. CASE ReservedOf(o) = {}
    <3>1. tickets' = [n \in Numbers |-> tickets[n]]
      BY <2>2, <2>4 DEF ReservedOf
    <3> QED
      BY <1>2, <3>1 DEF InStatus
  <2>5. CASE ReservedOf(o) # {}
    <3>1. Sale!Held(o) = ReservedOf(o)
      BY <1>0, <2>3, <2>5, Owners
    <3>2. tickets' = [n \in Numbers |->
                        IF n \in ReservedOf(o) THEN Assigned(o) ELSE tickets[n]]
      BY <2>2, <2>3, <2>5 DEF ReservedOf
    <3>3. ReservedOf(o) \cap bought = {}
      BY DEF ReservedOf, InStatus, Reserved
    <3>4. bought' = bought \cup ReservedOf(o)
      BY <3>2 DEF ReservedOf, InStatus, Assigned
    <3>5. holder' = holder
      BY <3>2 DEF ReservedOf, Assigned, Reserved
    <3> QED
      BY <1>2, <2>5, <3>1, <3>3, <3>4, <3>5 DEF Sale!BuyAll
  <2> QED
    BY <2>4, <2>5
<1>3. ASSUME NEW o \in Orders, tickets' = Released(o), served' = served
      PROVE  Sale!GiveBackAll(o) \/ UNCHANGED <<holder, bought, served>>
  <2>1. ReservedOf(o) = {} \/ AssignedOf(o) = {}
    BY <1>0, AllOrNothing DEF TicketsWhole
  <2>2. CASE ReservedOf(o) = {}
    <3>1. tickets' = [n \in Numbers |-> tickets[n]]
      BY <1>3, <2>2 DEF ReservedOf, Released
    <3> QED
      BY <1>3, <3>1 DEF InStatus
  <2>3. CASE ReservedOf(o) # {}
    <3>1. Sale!Held(o) = ReservedOf(o)
      BY <1>0, <2>1, <2>3, Owners
    <3>2. ReservedOf(o) \cap bought = {}
      BY DEF ReservedOf, InStatus, Reserved
    <3>3. bought' = bought
      BY <1>3 DEF Released, InStatus, Reserved, Free
    <3>4. \A n \in Numbers : tickets[n] = Reserved(o) <=> tickets[n].owner = {o}
      BY <1>0, <2>1, <2>3, Owners DEF AssignedOf
    <3>5. holder' = [n \in Numbers |-> IF holder[n] = {o} THEN {} ELSE holder[n]]
      BY <1>3, <3>4 DEF Released, Free
    <3> QED
      BY <1>3, <2>3, <3>1, <3>2, <3>3, <3>5 DEF Sale!GiveBackAll
  <2> QED
    BY <2>2, <2>3
<1>4. CASE served' = served
  <2>1. \/ UNCHANGED tickets
        \/ \E o \in Orders : Reserve(o)
        \/ \E h \in Hooks : AssignTickets(h) \/ ReleaseRefused(h)
        \/ \E s \in Sweepers, o \in Orders : ReleaseLapsed(s, o)
    BY TicketSteps
  <2>2. CASE UNCHANGED tickets
    BY <1>4, <2>2 DEF InStatus, Sale!saleVars
  <2>3. ASSUME NEW h \in Hooks, ReleaseRefused(h)
        PROVE  OrderOn(h) \in Orders /\ tickets' = Released(OrderOn(h))
    BY <1>0, <2>3, Typed DEF ReleaseRefused, At
  <2>4. ASSUME NEW s \in Sweepers, NEW o \in Orders, ReleaseLapsed(s, o)
        PROVE  tickets' = Released(o)
    BY <2>4 DEF ReleaseLapsed
  <2> QED
    BY <1>1, <1>2, <1>3, <1>4, <2>1, <2>2, <2>3, <2>4 DEF Sale!Next, Sale!saleVars
<1>5. CASE \E o \in Orders : Reserve(o)
  BY <1>1, <1>5 DEF Sale!Next
<1> QED
  BY <1>0, <1>4, <1>5, ServedSteps

\* Whatever the handlers, sweepers and webhooks do, the numbers of the raffle are sold as
\* TicketSale says: an order takes free numbers once, then buys or gives back all of them.
THEOREM SaleIsImplemented == Spec => SaleSpec
<1>1. Init => Sale!Init
  BY DEF Init, Sale!Init, InStatus, Free, NoOrder
<1> QED
  BY <1>1, InitCoherent, StepCoherent, StepSale, PTL DEF Spec, SaleSpec, Sale!Spec

-------------------------------------------------------------------------------
\* Purchase implements OrderLife

\* A webhook request is about a payment that was recorded.
HooksPaid == \A h \in Hooks : hook[h].pc # "idle" => payments[hook[h].pay] # "absent"

\* A payment that was recorded stays recorded, and only a checkout records one.
LEMMA PaymentsStay ==
    ASSUME TypeOK, [Next]_vars
    PROVE  \/ \A p \in Payments : payments'[p] = "absent" <=> payments[p] = "absent"
           \/ \E p \in Payments : OpenCheckout(p)
           \/ \E h \in Hooks : RecordPayment(h) /\ payments[hook[h].pay] = "absent"
<1>0. payments \in [Payments -> PaymentStatuses \cup {"absent", "opening"}]
  BY DEF TypeOK
<1>1. ASSUME NEW p \in Payments, CreatePayment(p)
      PROVE  \A q \in Payments : payments'[q] = "absent" <=> payments[q] = "absent"
  BY <1>0, <1>1 DEF CreatePayment
<1>2. ASSUME NEW h \in Hooks, RecordPayment(h), payments[hook[h].pay] # "absent"
      PROVE  \A q \in Payments : payments'[q] = "absent" <=> payments[q] = "absent"
  <2>1. hook[h].verdict \in PaymentStatuses /\ hook[h].verdict # "absent"
    BY DEF TypeOK, HookRecords, PaymentStatuses
  <2>2. payments' = [payments EXCEPT ![hook[h].pay] = hook[h].verdict]
    BY <1>2 DEF RecordPayment
  <2> QED
    BY <1>0, <1>2, <2>1, <2>2
<1> QED
  BY <1>1, <1>2, PaymentSteps

LEMMA StepHooksPaid == TypeOK /\ HooksPaid /\ [Next]_vars => HooksPaid'
<1> SUFFICES ASSUME TypeOK, HooksPaid, [Next]_vars, NEW h \in Hooks, hook'[h].pc # "idle"
             PROVE  payments'[hook'[h].pay] # "absent"
  BY DEF HooksPaid
<1>1. ASSUME NEW p \in Payments, payments[p] # "absent" PROVE payments'[p] # "absent"
  <2>1. ASSUME NEW q \in Payments, OpenCheckout(q) PROVE payments'[p] # "absent"
    BY <1>1, <2>1 DEF OpenCheckout, TypeOK
  <2>2. ASSUME NEW g \in Hooks, RecordPayment(g) PROVE payments[hook[g].pay] # "absent"
    BY <2>2 DEF HooksPaid, RecordPayment, At
  <2> QED
    BY <1>1, <2>1, <2>2, PaymentsStay
<1>2. CASE hook'[h] = hook[h]
  BY <1>1, <1>2 DEF HooksPaid, TypeOK
<1>3. ASSUME NEW event \in Events, Receive(h, event) PROVE payments'[hook'[h].pay] # "absent"
  BY <1>1, <1>3, ReceiveLemma
<1>4. CASE StepOf(h)
  <2>1. hook[h].pc # "idle" /\ hook'[h].pay = hook[h].pay
    BY <1>4, StepLemma
  <2> QED
    BY <1>1, <2>1 DEF HooksPaid, TypeOK
<1> QED
  BY <1>2, <1>3, <1>4, HookSteps

\* One webhook request moves at a time.
LEMMA OneHookMoves ==
    ASSUME TypeOK, [Next]_vars
    PROVE  \/ UNCHANGED hook
           \/ \E h \in Hooks : /\ StepOf(h) \/ \E event \in Events : Receive(h, event)
                              /\ \A g \in Hooks : g # h => hook'[g] = hook[g]
<1>0. hook \in [Hooks -> HookRecords]
  BY DEF TypeOK
<1>1. ASSUME NEW h \in Hooks, NEW event \in Events, Receive(h, event)
      PROVE  \A g \in Hooks : g # h => hook'[g] = hook[g]
  BY <1>0, <1>1 DEF Receive
<1>2. ASSUME NEW h \in Hooks, StepOf(h)
      PROVE  \A g \in Hooks : g # h => hook'[g] = hook[g]
  BY <1>0, <1>2
  DEF StepOf, RecordPayment, Approve, Decline, CrashHook, ReadOrder, FindReserved, AssignTickets,
      ListAssigned, LoadForPaid, SavePaid, CountAssigned, SetSold, SendMail, FailMail,
      ReleaseRefused, LoadForFailed, SaveFailed, Goto, Finish
<1>3. ASSUME NEW o \in Orders, Buy(o) \/ Lapse(o) PROVE UNCHANGED hook
  BY <1>3 DEF Buy, ReadRaffle, Admit, Refuse, Reserve, AbortReserve, Lapse
<1>4. ASSUME NEW p \in Payments, Checkout(p) PROVE UNCHANGED hook
  BY <1>4 DEF Checkout, OpenCheckout, CreatePayment
<1>5. ASSUME NEW s \in Sweepers, Sweep(s) \/ CrashSweep(s) PROVE UNCHANGED hook
  BY <1>5 DEF Sweep, FindLapsed, Expire, ReleaseLapsed, CrashSweep
<1> QED
  BY <1>1, <1>2, <1>3, <1>4, <1>5 DEF Next, vars, StepOf

\* The orders that a webhook is about to save, as one request moves.
SavingNow == {OrderOn(h) : h \in {h \in Hooks : Saving(h)}}

LEMMA SavingSteps ==
    ASSUME TypeOK, NEW h \in Hooks, \A g \in Hooks : g # h => hook'[g] = hook[g]
    PROVE  /\ ~Saving(h)' => SavingNow' \in {SavingNow, SavingNow \ {OrderOn(h)}}
           /\ ~Saving(h)' /\ ~Saving(h) => SavingNow' = SavingNow
           /\ Saving(h)' /\ OrderOn(h)' = OrderOn(h) =>
                SavingNow' = SavingNow \cup {OrderOn(h)}
<1>1. \A g \in Hooks : g # h => (Saving(g)' <=> Saving(g)) /\ OrderOn(g)' = OrderOn(g)
  BY DEF Saving, At, OrderOn
<1> QED
  BY <1>1 DEF SavingNow

\* An order is born pending.
NeverInitiated == \A o \in Orders : orders[o].status # "initiated"

LEMMA StepNeverInitiated == TypeOK /\ NeverInitiated /\ [Next]_vars => NeverInitiated'
<1> SUFFICES ASSUME TypeOK, NeverInitiated, [Next]_vars, NEW o \in Orders
             PROVE  orders'[o].status # "initiated"
  BY DEF NeverInitiated
<1>0. orders \in [Orders -> [status : OrderStatuses \cup {"absent"},
                            numbers : SUBSET Numbers,
                            paidBy : Payments \cup {NoPayment}]]
  BY Typed
<1>1. CASE Reserve(o)
  BY <1>1, ReserveEffect
<1>2. ASSUME NEW h \in Hooks, OrderOn(h) = o, SavePaid(h) \/ SaveFailed(h)
      PROVE  orders'[o].status # "initiated"
  BY <1>0, <1>2 DEF SavePaid, SaveFailed, NeverInitiated
<1>3. ASSUME NEW s \in Sweepers, Expire(s, o) PROVE orders'[o].status # "initiated"
  BY <1>0, <1>3 DEF Expire, NeverInitiated
<1> QED
  BY <1>1, <1>2, <1>3, OrderSteps DEF NeverInitiated

\* A request that is about to save an order has just found it pending.
LEMMA LoadLemma ==
    ASSUME TypeOK, NeverInitiated, NEW h \in Hooks, StepOf(h), Saving(h)'
    PROVE  /\ hook[h].pc # "idle" /\ OrderOn(h)' = OrderOn(h)
           /\ orders[OrderOn(h)].status = "pending_payment"
           /\ UNCHANGED <<orders, payments>>
<1>0. hook \in [Hooks -> HookRecords] /\ hook[h] \in HookRecords
  BY DEF TypeOK
<1>1. hook'[h].pc \in {"savePaid", "saveFailed"}
  BY DEF Saving, At
<1>2. /\ hook[h].pc \in {"loadPaid", "loadFailed"}
      /\ OrderOn(h)' = OrderOn(h)
  BY <1>1, StepLemma DEF OrderOn
<1>3. ~CrashHook(h)
  BY <1>0, <1>1 DEF CrashHook, Finish, IdleHook
<1>4. LoadForPaid(h) \/ LoadForFailed(h)
  BY <1>2, <1>3
  DEF StepOf, RecordPayment, Approve, Decline, ReadOrder, FindReserved, AssignTickets,
      ListAssigned, SavePaid, CountAssigned, SetSold, SendMail, FailMail, ReleaseRefused,
      SaveFailed, At
<1>5. CASE LoadForPaid(h)
  <2> DEFINE st == orders[OrderOn(h)].status
  <2>1. /\ UNCHANGED <<orders, payments>>
        /\ IF st = "paid" \/ CanOrderMove(st, "paid")
           THEN hook' = [hook EXCEPT ![h].pc = "savePaid", ![h].seen = st]
           ELSE Finish(h)
    BY <1>5 DEF LoadForPaid
  <2>2. CanOrderMove(st, "paid") => st = "pending_payment"
    BY DEF CanOrderMove, OrderTransitions
  <2> HIDE DEF st
  <2>3. hook' = [hook EXCEPT ![h].pc = "savePaid", ![h].seen = st] \/ Finish(h)
    BY <2>1
  <2>4. ~Finish(h)
    BY <1>0, <1>1 DEF Finish, IdleHook
  <2>5. hook'[h].pc = "savePaid" /\ hook'[h].seen = st
    BY <1>0, <2>3, <2>4 DEF HookRecords
  <2>6. st # "paid"
    BY <2>5 DEF Saving, At
  <2> QED
    BY <1>2, <2>1, <2>2, <2>4, <2>6 DEF st
<1>6. CASE LoadForFailed(h)
  <2> DEFINE st == orders[OrderOn(h)].status
  <2>1. /\ UNCHANGED <<orders, payments>>
        /\ IF st \notin {"failed", "expired"} /\ CanOrderMove(st, "failed")
           THEN Goto(h, "saveFailed")
           ELSE Finish(h)
    BY <1>6 DEF LoadForFailed
  <2>2. ~Finish(h)
    BY <1>0, <1>1 DEF Finish, IdleHook
  <2>3. CanOrderMove(st, "failed")
    BY <2>1, <2>2
  <2> HIDE DEF st
  <2>4. st \in {"initiated", "pending_payment"}
    BY <2>3 DEF CanOrderMove, OrderTransitions
  <2>5. st # "initiated"
    BY <1>2, Typed DEF NeverInitiated, st
  <2> QED
    BY <1>2, <2>1, <2>4, <2>5 DEF st
<1> QED
  BY <1>2, <1>4, <1>5, <1>6

\* What the buyers' pages follow, as Purchase has it.
StatusNow == [o \in Orders |-> orders[o].status]
CheckoutsNow == {OrderOf[p] : p \in {p \in Payments : payments[p] # "absent"}}

\* Every step is a step of the life of an order, or invisible in it.
LEMMA StepLife ==
    Coherent /\ HooksPaid /\ NeverInitiated /\ [Next]_vars => [Life!Next]_Life!lifeVars
<1> SUFFICES ASSUME Coherent, HooksPaid, NeverInitiated, [Next]_vars
             PROVE  [Life!Next]_Life!lifeVars
  OBVIOUS
<1> USE DEF Coherent
<1>0. /\ orders \in [Orders -> [status : OrderStatuses \cup {"absent"},
                               numbers : SUBSET Numbers,
                               paidBy : Payments \cup {NoPayment}]]
      /\ \A h \in Hooks : hook[h].pc # "idle" => OrderOn(h) \in Orders
  BY Typed
<1>a. ASSUME UNCHANGED <<StatusNow, CheckoutsNow, SavingNow>> PROVE UNCHANGED Life!lifeVars
  BY <1>a DEF Life!lifeVars, StatusNow, CheckoutsNow, SavingNow
<1>b. UNCHANGED hook => UNCHANGED SavingNow
  BY DEF SavingNow, Saving, At, OrderOn
<1>c. UNCHANGED orders => UNCHANGED StatusNow
  BY DEF StatusNow
<1>d. (\A p \in Payments : payments'[p] = "absent" <=> payments[p] = "absent")
        => UNCHANGED CheckoutsNow
  BY DEF CheckoutsNow
<1>1. ASSUME NEW o \in Orders, Reserve(o) PROVE Life!Create(o)
  <2>1. UNCHANGED <<payments, hook>> /\ orders[o].status = "absent"
    BY <1>1 DEF Reserve, OrdersExist
  <2>2. StatusNow' = [StatusNow EXCEPT ![o] = "pending_payment"]
    <3>1. \E chosen : orders' = [orders EXCEPT ![o] =
                        [status |-> "pending_payment", numbers |-> chosen, paidBy |-> NoPayment]]
      BY <1>1 DEF Reserve
    <3>2. PICK chosen : orders' = [orders EXCEPT ![o] =
                [status |-> "pending_payment", numbers |-> chosen, paidBy |-> NoPayment]]
      BY <3>1
    <3>3. \A p \in Orders :
            orders'[p].status = IF p = o THEN "pending_payment" ELSE orders[p].status
      BY <1>0, <3>2
    <3> QED
      BY <3>3 DEF StatusNow
  <2>3. UNCHANGED <<CheckoutsNow, SavingNow>>
    BY <1>b, <1>d, <2>1
  <2> QED
    BY <2>1, <2>2, <2>3 DEF Life!Create, Life!Become, StatusNow, CheckoutsNow, SavingNow
<1>2. ASSUME NEW s \in Sweepers, NEW o \in Orders, Expire(s, o)
      PROVE  Life!Expire(o) \/ UNCHANGED Life!lifeVars
  <2>1. /\ UNCHANGED <<payments, hook>>
        /\ orders' = [orders EXCEPT ![o].status = IF @ = "pending_payment" THEN "expired" ELSE @]
    BY <1>2 DEF Expire
  <2>2. UNCHANGED <<CheckoutsNow, SavingNow>>
    BY <1>b, <1>d, <2>1
  <2>3. CASE orders[o].status = "pending_payment"
    <3>1. StatusNow' = [StatusNow EXCEPT ![o] = "expired"]
      BY <1>0, <2>1, <2>3 DEF StatusNow
    <3> QED
      BY <2>2, <2>3, <3>1 DEF Life!Expire, Life!Become, StatusNow, CheckoutsNow, SavingNow
  <2>4. CASE orders[o].status # "pending_payment"
    <3>1. UNCHANGED StatusNow
      BY <1>0, <2>1, <2>4 DEF StatusNow
    <3> QED
      BY <1>a, <2>2, <3>1
  <2> QED
    BY <2>3, <2>4
<1>3. ASSUME NEW h \in Hooks, SavePaid(h) \/ SaveFailed(h)
      PROVE  Life!Save(OrderOn(h)) \/ UNCHANGED Life!lifeVars
  <2>1. /\ StepOf(h) /\ UNCHANGED payments /\ OrderOn(h) \in Orders
        /\ hook[h].pc \in {"savePaid", "saveFailed"}
    BY <1>0, <1>3 DEF StepOf, Approve, Decline, SavePaid, SaveFailed, At
  <2>2. \A g \in Hooks : g # h => hook'[g] = hook[g]
    BY <1>3 DEF SavePaid, SaveFailed, Goto, Finish, TypeOK
  <2>3. ~Saving(h)'
    BY <1>3 DEF SavePaid, SaveFailed, Goto, Finish, Saving, At, TypeOK, HookRecords, IdleHook
  <2>4. UNCHANGED CheckoutsNow
    BY <1>d, <2>1
  <2>5. CASE Saving(h)
    <3>1. OrderOn(h) \in SavingNow /\ SavingNow' \in {SavingNow, SavingNow \ {OrderOn(h)}}
      BY <2>2, <2>3, <2>5, SavingSteps DEF SavingNow
    <3>2. PICK status \in {"paid", "failed"} : StatusNow' = [StatusNow EXCEPT ![OrderOn(h)] = status]
      <4>1. CASE SavePaid(h)
        <5>1. hook[h].seen # "paid"
          BY <2>5, <4>1 DEF SavePaid, Saving, At
        <5>2. orders' = [orders EXCEPT ![OrderOn(h)] =
                          [status |-> "paid", numbers |-> hook[h].nums, paidBy |-> hook[h].pay]]
          BY <4>1, <5>1 DEF SavePaid
        <5>3. StatusNow' = [StatusNow EXCEPT ![OrderOn(h)] = "paid"]
          BY <1>0, <2>1, <5>2 DEF StatusNow
        <5> QED
          BY <5>3
      <4>2. CASE SaveFailed(h)
        <5>1. orders' = [orders EXCEPT ![OrderOn(h)].status = "failed"]
          BY <4>2 DEF SaveFailed
        <5>2. StatusNow' = [StatusNow EXCEPT ![OrderOn(h)] = "failed"]
          BY <1>0, <2>1, <5>1 DEF StatusNow
        <5> QED
          BY <5>2
      <4> QED
        BY <1>3, <4>1, <4>2
    <3> QED
      BY <2>4, <3>1, <3>2 DEF Life!Save, Life!Become, StatusNow, CheckoutsNow, SavingNow
  <2>6. CASE ~Saving(h)
    <3>1. hook[h].pc = "savePaid" /\ hook[h].seen = "paid"
      BY <2>1, <2>6 DEF Saving, At
    <3>2. orders' = [orders EXCEPT ![OrderOn(h)] =
                      [status |-> orders[OrderOn(h)].status, numbers |-> hook[h].nums,
                       paidBy |-> hook[h].pay]]
      BY <1>3, <3>1 DEF SavePaid, SaveFailed, At
    <3>3. UNCHANGED StatusNow
      BY <1>0, <2>1, <3>2 DEF StatusNow
    <3>4. UNCHANGED SavingNow
      BY <2>2, <2>3, <2>6, SavingSteps
    <3> QED
      BY <1>a, <2>4, <3>3, <3>4
  <2> QED
    BY <2>5, <2>6
<1>4. ASSUME NEW p \in Payments, OpenCheckout(p) PROVE Life!OpenCheckout(OrderOf[p])
  <2>1. /\ UNCHANGED <<orders, hook>> /\ payments' = [payments EXCEPT ![p] = "opening"]
        /\ orders[OrderOf[p]].status = "pending_payment" /\ OrderOf[p] \in Orders
    BY <1>4, PurchaseAssumption DEF OpenCheckout
  <2>2. \A q \in Payments : payments'[q] # "absent" <=> q = p \/ payments[q] # "absent"
    BY <2>1 DEF TypeOK
  <2>3. CheckoutsNow' = CheckoutsNow \cup {OrderOf[p]}
    BY <2>2 DEF CheckoutsNow
  <2>4. UNCHANGED <<StatusNow, SavingNow>>
    BY <1>b, <1>c, <2>1
  <2> QED
    BY <2>1, <2>3, <2>4 DEF Life!OpenCheckout, StatusNow, CheckoutsNow, SavingNow
<1>5. CASE UNCHANGED orders /\ ~\E p \in Payments : OpenCheckout(p)
  <2>1. ASSUME NEW h \in Hooks, RecordPayment(h) PROVE payments[hook[h].pay] # "absent"
    BY <2>1 DEF HooksPaid, RecordPayment, At
  <2>2. UNCHANGED <<StatusNow, CheckoutsNow>>
    BY <1>5, <1>c, <1>d, <2>1, PaymentsStay
  <2>3. CASE UNCHANGED hook
    BY <1>a, <1>b, <2>2, <2>3
  <2>4. ASSUME NEW h \in Hooks, NEW event \in Events, Receive(h, event),
               \A g \in Hooks : g # h => hook'[g] = hook[g]
        PROVE  UNCHANGED Life!lifeVars
    <3>1. ~Saving(h) /\ ~Saving(h)'
      BY <2>4, ReceiveLemma DEF Receive, Saving, At, Branch
    <3> QED
      BY <1>a, <2>2, <2>4, <3>1, SavingSteps
  <2>5. ASSUME NEW h \in Hooks, StepOf(h), \A g \in Hooks : g # h => hook'[g] = hook[g]
        PROVE  OrderOn(h) \in Orders /\ (Life!Load(OrderOn(h)) \/ Life!GiveUp(OrderOn(h))
                                          \/ UNCHANGED Life!lifeVars)
    <3>1. hook[h].pc # "idle" /\ OrderOn(h) \in Orders
      BY <1>0, <2>5, StepLemma
    <3>2. CASE Saving(h)'
      <4>1. OrderOn(h)' = OrderOn(h) /\ orders[OrderOn(h)].status = "pending_payment"
        BY <2>5, <3>2, LoadLemma
      <4>2. SavingNow' = SavingNow \cup {OrderOn(h)}
        BY <2>5, <3>2, <4>1, SavingSteps
      <4>3. OrderOn(h) \in CheckoutsNow
        BY <3>1 DEF HooksPaid, CheckoutsNow, OrderOn, TypeOK
      <4> QED
        BY <2>2, <3>1, <4>1, <4>2, <4>3 DEF Life!Load, StatusNow, CheckoutsNow, SavingNow
    <3>3. CASE ~Saving(h)'
      <4>1. SavingNow' \in {SavingNow, SavingNow \ {OrderOn(h)}}
        BY <2>5, <3>3, SavingSteps
      <4>2. CASE SavingNow' = SavingNow
        BY <1>a, <2>2, <3>1, <4>2
      <4>3. CASE SavingNow' = SavingNow \ {OrderOn(h)}
        BY <2>2, <3>1, <4>3 DEF Life!GiveUp, StatusNow, CheckoutsNow, SavingNow
      <4> QED
        BY <4>1, <4>2, <4>3
    <3> QED
      BY <3>2, <3>3
  <2> QED
    BY <2>3, <2>4, <2>5, OneHookMoves DEF Life!Next, Life!Settle
<1>6. ASSUME NEW h \in Hooks, SavePaid(h) \/ SaveFailed(h) PROVE OrderOn(h) \in Orders
  BY <1>0, <1>6 DEF SavePaid, SaveFailed, At
<1>7. \A p \in Payments : OrderOf[p] \in Orders
  BY PurchaseAssumption
<1> QED
  BY <1>1, <1>2, <1>3, <1>4, <1>5, <1>6, <1>7, StatusSteps DEF Life!Next, Life!Settle

\* To whoever watches orders, Purchase is OrderLife: a closed order changes only through a save
\* begun while it was pending.
THEOREM OrdersLive == Spec => LifeSpec
<1>1. ASSUME Init PROVE Life!Init /\ HooksPaid /\ NeverInitiated
  <2>1. \A h \in Hooks : hook[h].pc = "idle"
    BY <1>1 DEF Init, IdleHook
  <2>2. \A o \in Orders : orders[o].status = "absent"
    BY <1>1 DEF Init, NoOrder
  <2>3. \A p \in Payments : payments[p] = "absent"
    BY <1>1 DEF Init
  <2> QED
    BY <2>1, <2>2, <2>3 DEF Life!Init, HooksPaid, NeverInitiated, Saving, At
<1>2. Coherent => TypeOK
  BY DEF Coherent
<1> QED
  BY <1>1, <1>2, InitCoherent, StepCoherent, StepHooksPaid, StepNeverInitiated, StepLife, PTL
  DEF Spec, LifeSpec, Life!Spec

-------------------------------------------------------------------------------
\* Verdicts: what OneVerdict makes of the payments and the webhooks that read them

\* Wompi may report this verdict, pending aside, of this payment.
Said(p, verdict) ==
    /\ verdict # "pending"
    /\ \E event \in Events : event[1] = p /\ MapWompiStatus(event[2]) = verdict

LEMMA OneSaid ==
    ASSUME OneVerdict, NEW p, NEW v1, NEW v2, Said(p, v1), Said(p, v2)
    PROVE  v1 = v2
  BY DEF OneVerdict, Said

LEMMA SaidKinds ==
    ASSUME NEW p, NEW verdict, Said(p, verdict)
    PROVE  verdict \in {"approved"} \cup Refusals
  BY DEF Said, MapWompiStatus, Refusals

\* A payment says nothing yet, or what Wompi says of it; so does each webhook request, and
\* past RecordPayment the document agrees with the branch the request took.
VerdictsAgree ==
    /\ \A p \in Payments :
         payments[p] \in {"absent", "opening", "pending"} \/ Said(p, payments[p])
    /\ \A h \in Hooks :
         /\ hook[h].pc # "idle" => Said(hook[h].pay, hook[h].verdict)
         /\ hook[h].pc \in Approving => payments[hook[h].pay] = "approved"
         /\ hook[h].pc \in Refusing => payments[hook[h].pay] \in Refusals

\* Under OneVerdict a verdict that is recorded stands.
LEMMA VerdictStands ==
    ASSUME OneVerdict, TypeOK, VerdictsAgree, [Next]_vars, NEW p \in Payments,
           payments[p] \notin {"absent", "opening", "pending"}
    PROVE  payments'[p] = payments[p]
<1>1. ASSUME NEW q \in Payments, OpenCheckout(q) \/ CreatePayment(q)
      PROVE  payments'[p] = payments[p]
  BY <1>1 DEF OpenCheckout, CreatePayment, TypeOK
<1>2. ASSUME NEW h \in Hooks, RecordPayment(h) PROVE payments'[p] = payments[p]
  <2>1. CASE hook[h].pay = p
    <3>1. Said(p, hook[h].verdict) /\ Said(p, payments[p])
      BY <1>2, <2>1 DEF VerdictsAgree, RecordPayment, At
    <3>2. hook[h].verdict = payments[p]
      BY <3>1, OneSaid
    <3> QED
      BY <1>2, <2>1, <3>2 DEF RecordPayment, TypeOK
  <2>2. CASE hook[h].pay # p
    BY <1>2, <2>2 DEF RecordPayment, TypeOK
  <2> QED
    BY <2>1, <2>2
<1> QED
  BY <1>1, <1>2, PaymentSteps

LEMMA StepVerdictsAgree ==
    ASSUME OneVerdict, TypeOK, VerdictsAgree, [Next]_vars
    PROVE  VerdictsAgree'
<1>0. payments \in [Payments -> PaymentStatuses \cup {"absent", "opening"}]
  BY DEF TypeOK
<1>1. ASSUME NEW p \in Payments
      PROVE  payments'[p] \in {"absent", "opening", "pending"} \/ Said(p, payments'[p])
  <2>1. ASSUME NEW q \in Payments, OpenCheckout(q) \/ CreatePayment(q)
        PROVE  payments'[p] = payments[p] \/ payments'[p] \in {"opening", "pending"}
    BY <1>0, <2>1 DEF OpenCheckout, CreatePayment
  <2>2. ASSUME NEW h \in Hooks, RecordPayment(h)
        PROVE  payments'[p] = payments[p] \/ Said(p, payments'[p])
    BY <1>0, <2>2 DEF RecordPayment, At, VerdictsAgree
  <2> QED
    BY <2>1, <2>2, PaymentSteps DEF VerdictsAgree
<1>2. ASSUME NEW h \in Hooks, hook'[h].pc # "idle"
      PROVE  /\ Said(hook'[h].pay, hook'[h].verdict)
             /\ hook'[h].pc \in Approving => payments'[hook'[h].pay] = "approved"
             /\ hook'[h].pc \in Refusing => payments'[hook'[h].pay] \in Refusals
  <2>1. CASE hook'[h] = hook[h]
    <3>1. hook[h].pay \in Payments
      BY <1>2, <2>1 DEF TypeOK
    <3>2. Said(hook[h].pay, hook[h].verdict)
      BY <1>2, <2>1 DEF VerdictsAgree
    <3>3. ASSUME hook[h].pc \in Approving PROVE payments'[hook[h].pay] = "approved"
      BY <3>1, <3>3, VerdictStands DEF VerdictsAgree
    <3>4. ASSUME hook[h].pc \in Refusing PROVE payments'[hook[h].pay] \in Refusals
      BY <3>1, <3>4, VerdictStands DEF VerdictsAgree, Refusals
    <3> QED
      BY <2>1, <3>2, <3>3, <3>4
  <2>2. ASSUME NEW event \in Events, Receive(h, event)
        PROVE  /\ Said(hook'[h].pay, hook'[h].verdict)
               /\ hook'[h].pc \in Approving => payments'[hook'[h].pay] = "approved"
               /\ hook'[h].pc \in Refusing => payments'[hook'[h].pay] \in Refusals
    <3>1. /\ hook'[h].pay = event[1] /\ hook'[h].verdict = MapWompiStatus(event[2])
          /\ hook'[h].verdict # "pending"
          /\ \/ hook'[h].pc = "record"
             \/ /\ hook'[h].pc = Branch(hook'[h].verdict)
                /\ payments[event[1]] = hook'[h].verdict
          /\ UNCHANGED payments
      BY <2>2, ReceiveLemma
    <3>2. Said(hook'[h].pay, hook'[h].verdict)
      BY <3>1 DEF Said
    <3>3. hook'[h].verdict \in {"approved"} \cup Refusals
      BY <3>2, SaidKinds
    <3> QED
      BY <3>1, <3>2, <3>3 DEF Branch, Approving, Refusing
  <2>3. CASE StepOf(h)
    <3>1. /\ hook[h].pc # "idle"
          /\ hook'[h].pay = hook[h].pay /\ hook'[h].verdict = hook[h].verdict
      BY <1>2, <2>3, StepLemma
    <3>2. hook[h].pay \in Payments /\ Said(hook[h].pay, hook[h].verdict)
      BY <3>1 DEF TypeOK, VerdictsAgree
    <3>3. CASE RecordPayment(h)
      <4>1. payments'[hook[h].pay] = hook[h].verdict
        BY <1>0, <3>2, <3>3 DEF RecordPayment
      <4>2. hook[h].verdict \in {"approved"} \cup Refusals /\ "approved" \notin Refusals
        BY <3>2, SaidKinds DEF Refusals
      <4>3. hook[h].pc = "record"
        BY <3>3 DEF RecordPayment, At
      <4>4. /\ hook'[h].pc \in Approving => hook[h].verdict = "approved"
            /\ hook'[h].pc \in Refusing => hook[h].verdict # "approved"
        BY <2>3, <4>3, StepLemma DEF Approving, Refusing
      <4> QED
        BY <3>1, <3>2, <4>1, <4>2, <4>4
    <3>4. CASE ~RecordPayment(h)
      <4>1. /\ hook'[h].pc \in Approving => hook[h].pc \in Approving
            /\ hook'[h].pc \in Refusing => hook[h].pc \in Refusing
        BY <2>3, <3>4, StepLemma
      <4>2. ASSUME hook[h].pc \in Approving PROVE payments'[hook[h].pay] = "approved"
        BY <3>2, <4>2, VerdictStands DEF VerdictsAgree
      <4>3. ASSUME hook[h].pc \in Refusing PROVE payments'[hook[h].pay] \in Refusals
        BY <3>2, <4>3, VerdictStands DEF VerdictsAgree, Refusals
      <4> QED
        BY <3>1, <3>2, <4>1, <4>2, <4>3
    <3> QED
      BY <3>3, <3>4
  <2> QED
    BY <2>1, <2>2, <2>3, HookSteps
<1>3. \A h \in Hooks : hook'[h].pc = "idle" =>
        hook'[h].pc \notin Approving /\ hook'[h].pc \notin Refusing
  BY DEF Approving, Refusing
<1> QED
  BY <1>1, <1>2, <1>3 DEF VerdictsAgree, Said

LEMMA InitVerdictsAgree == Init => VerdictsAgree
  BY DEF Init, VerdictsAgree, IdleHook, Approving, Refusing

\* A paid order was paid by an approved payment of its own, and still is after a step.
LEMMA StepPaidBy ==
    ASSUME OneVerdict, TypeOK, VerdictsAgree, PaidByAnApprovedPayment, [Next]_vars
    PROVE  PaidByAnApprovedPayment'
<1>0. orders \in [Orders -> [status : OrderStatuses \cup {"absent"},
                            numbers : SUBSET Numbers,
                            paidBy : Payments \cup {NoPayment}]]
  BY Typed
<1> SUFFICES ASSUME NEW o \in Orders, orders'[o].status = "paid"
             PROVE  /\ orders'[o].paidBy \in Payments
                    /\ OrderOf[orders'[o].paidBy] = o
                    /\ payments'[orders'[o].paidBy] = "approved"
  BY DEF PaidByAnApprovedPayment
<1>1. \/ orders[o].status = "paid" /\ orders'[o].paidBy = orders[o].paidBy
      \/ \E h \in Hooks : /\ OrderOn(h) = o /\ hook[h].pc = "savePaid"
                          /\ orders'[o].paidBy = hook[h].pay
  <2>1. ~Reserve(o)
    BY ReserveEffect
  <2>2. ASSUME NEW h \in Hooks, OrderOn(h) = o, SavePaid(h)
        PROVE  hook[h].pc = "savePaid" /\ orders'[o].paidBy = hook[h].pay
    BY <1>0, <2>2 DEF SavePaid, At
  <2>3. ASSUME NEW h \in Hooks, OrderOn(h) = o, SaveFailed(h) PROVE FALSE
    BY <1>0, <2>3 DEF SaveFailed
  <2>4. ASSUME NEW s \in Sweepers, Expire(s, o)
        PROVE  orders[o].status = "paid" /\ orders'[o].paidBy = orders[o].paidBy
    BY <1>0, <2>4 DEF Expire
  <2> QED
    BY <2>1, <2>2, <2>3, <2>4, OrderSteps
<1>2. CASE orders[o].status = "paid" /\ orders'[o].paidBy = orders[o].paidBy
  BY <1>2, VerdictStands DEF PaidByAnApprovedPayment
<1>3. ASSUME NEW h \in Hooks, OrderOn(h) = o, hook[h].pc = "savePaid",
             orders'[o].paidBy = hook[h].pay
      PROVE  /\ hook[h].pay \in Payments
             /\ OrderOf[hook[h].pay] = o
             /\ payments'[hook[h].pay] = "approved"
  <2>1. hook[h].pay \in Payments /\ payments[hook[h].pay] = "approved"
    BY <1>3 DEF TypeOK, VerdictsAgree, Approving
  <2> QED
    BY <1>3, <2>1, VerdictStands DEF OrderOn
<1> QED
  BY <1>1, <1>2, <1>3

\* When Wompi settles each reference once, the payment a paid order names is one of its own
\* and is approved, whatever is resent, raced or retried.
THEOREM PaidMeansApproved ==
    ASSUME OneVerdict
    PROVE  Spec => []PaidByAnApprovedPayment
<1> DEFINE Inv == TypeOK /\ VerdictsAgree /\ PaidByAnApprovedPayment
<1>1. Init => Inv
  BY InitTypeOK, InitVerdictsAgree DEF Init, PaidByAnApprovedPayment, NoOrder
<1>2. Inv /\ [Next]_vars => Inv'
  BY StepTypeOK, StepVerdictsAgree, StepPaidBy
<1>3. Inv => PaidByAnApprovedPayment
  OBVIOUS
<1> QED
  BY <1>1, <1>2, <1>3, PTL DEF Spec

-------------------------------------------------------------------------------
\* Paid orders own their numbers

\* A sweep works on orders that exist, one at a time, and releases only what it or somebody
\* else has closed.
SweepsClose ==
    \A s \in Sweepers :
      /\ \A o \in sweep[s].todo : orders[o].status # "absent"
      /\ \A o \in sweep[s].releasing :
           orders[o].status \notin {"absent", "pending_payment"} /\ sweep[s].releasing = {o}

\* Where a sweep's next order comes from.
LEMMA SweepSteps ==
    ASSUME TypeOK, [Next]_vars, NEW s \in Sweepers
    PROVE  \/ sweep'[s] = sweep[s]
           \/ FindLapsed(s) /\ sweep'[s] = [todo |-> Lapsed, releasing |-> {}]
           \/ \E o \in Orders : /\ Expire(s, o)
                                /\ sweep'[s] = [todo |-> sweep[s].todo \ {o},
                                                releasing |-> {o}]
           \/ \E o \in Orders : /\ ReleaseLapsed(s, o)
                                /\ sweep'[s] = [todo |-> sweep[s].todo, releasing |-> {}]
           \/ CrashSweep(s) /\ sweep'[s] = IdleSweep
<1>0. sweep \in [Sweepers -> [todo : SUBSET Orders, releasing : SUBSET Orders]]
  BY DEF TypeOK
<1>1. ASSUME NEW o \in Orders, Buy(o) \/ Lapse(o) PROVE UNCHANGED sweep
  BY <1>1 DEF Buy, ReadRaffle, Admit, Refuse, Reserve, AbortReserve, Lapse
<1>2. ASSUME NEW p \in Payments, Checkout(p) PROVE UNCHANGED sweep
  BY <1>2 DEF Checkout, OpenCheckout, CreatePayment
<1>3. ASSUME NEW h \in Hooks, NEW event \in Events, Receive(h, event) PROVE UNCHANGED sweep
  BY <1>3 DEF Receive
<1>4. ASSUME NEW h \in Hooks, StepOf(h) PROVE UNCHANGED sweep
  BY <1>4
  DEF StepOf, RecordPayment, Approve, Decline, CrashHook, ReadOrder, FindReserved,
      AssignTickets, ListAssigned, LoadForPaid, SavePaid, CountAssigned, SetSold, SendMail,
      FailMail, ReleaseRefused, LoadForFailed, SaveFailed
<1>5. ASSUME NEW r \in Sweepers, r # s, Sweep(r) \/ CrashSweep(r) PROVE sweep'[s] = sweep[s]
  BY <1>0, <1>5 DEF Sweep, FindLapsed, Expire, ReleaseLapsed, CrashSweep
<1>6. ASSUME FindLapsed(s) PROVE sweep'[s] = [todo |-> Lapsed, releasing |-> {}]
  <2> DEFINE found == Lapsed
  <2>1. sweep[s] = [todo |-> {}, releasing |-> {}] /\ sweep' = [sweep EXCEPT ![s].todo = found]
    BY <1>6 DEF FindLapsed, IdleSweep
  <2> HIDE DEF found
  <2>2. sweep'[s] = [sweep[s] EXCEPT !.todo = found]
    BY <1>0, <2>1
  <2>3. [[todo |-> {}, releasing |-> {}] EXCEPT !.todo = found] = [todo |-> found, releasing |-> {}]
    OBVIOUS
  <2>4. sweep'[s] = [todo |-> found, releasing |-> {}]
    BY <2>1, <2>2, <2>3
  <2> QED
    BY <2>4 DEF found
<1>7. ASSUME NEW o \in Orders, Expire(s, o)
      PROVE  sweep'[s] = [todo |-> sweep[s].todo \ {o}, releasing |-> {o}]
  BY <1>0, <1>7 DEF Expire
<1>8. ASSUME NEW o \in Orders, ReleaseLapsed(s, o)
      PROVE  sweep'[s] = [todo |-> sweep[s].todo, releasing |-> {}]
  BY <1>0, <1>8 DEF ReleaseLapsed
<1>9. ASSUME CrashSweep(s) PROVE sweep'[s] = IdleSweep
  BY <1>0, <1>9 DEF CrashSweep
<1>10. CASE UNCHANGED vars
  BY <1>10 DEF vars
<1> QED
  BY <1>1, <1>2, <1>3, <1>4, <1>5, <1>6, <1>7, <1>8, <1>9, <1>10 DEF Next, StepOf, Sweep

\* An order never goes back to pending_payment.
LEMMA PendingIsFirst ==
    ASSUME TypeOK, OrdersExist, [Next]_vars, NEW o \in Orders,
           orders[o].status \notin {"absent", "pending_payment"}
    PROVE  orders'[o].status \notin {"absent", "pending_payment"}
<1>0. orders \in [Orders -> [status : OrderStatuses \cup {"absent"},
                            numbers : SUBSET Numbers,
                            paidBy : Payments \cup {NoPayment}]]
  BY Typed
<1>1. ~Reserve(o)
  BY DEF Reserve, OrdersExist
<1>2. ASSUME NEW h \in Hooks, OrderOn(h) = o, SavePaid(h) \/ SaveFailed(h)
      PROVE  orders'[o].status \notin {"absent", "pending_payment"}
  BY <1>0, <1>2 DEF SavePaid, SaveFailed
<1>3. ASSUME NEW s \in Sweepers, Expire(s, o)
      PROVE  orders'[o].status \notin {"absent", "pending_payment"}
  BY <1>0, <1>3 DEF Expire
<1> QED
  BY <1>1, <1>2, <1>3, OrderSteps

LEMMA StepSweepsClose ==
    ASSUME TypeOK, OrdersExist, SweepsClose, [Next]_vars
    PROVE  SweepsClose'
<1>0. /\ sweep \in [Sweepers -> [todo : SUBSET Orders, releasing : SUBSET Orders]]
      /\ orders \in [Orders -> [status : OrderStatuses \cup {"absent"},
                                numbers : SUBSET Numbers,
                                paidBy : Payments \cup {NoPayment}]]
  BY Typed DEF TypeOK
<1> SUFFICES ASSUME NEW s \in Sweepers
             PROVE  /\ \A o \in sweep'[s].todo : orders'[o].status # "absent"
                    /\ \A o \in sweep'[s].releasing :
                         /\ orders'[o].status \notin {"absent", "pending_payment"}
                         /\ sweep'[s].releasing = {o}
  BY DEF SweepsClose
<1>1. CASE sweep'[s] = sweep[s]
  BY <1>0, <1>1, OrdersStay, PendingIsFirst DEF SweepsClose
<1>2. CASE FindLapsed(s) /\ sweep'[s] = [todo |-> Lapsed, releasing |-> {}]
  <2>1. \A o \in Lapsed : o \in Orders /\ orders[o].status # "absent"
    BY DEF Lapsed, TypeOK
  <2> QED
    BY <1>2, <2>1, OrdersStay
<1>3. ASSUME NEW o \in Orders, Expire(s, o),
             sweep'[s] = [todo |-> sweep[s].todo \ {o}, releasing |-> {o}]
      PROVE  /\ \A other \in sweep'[s].todo : orders'[other].status # "absent"
             /\ \A other \in sweep'[s].releasing :
                  /\ orders'[other].status \notin {"absent", "pending_payment"}
                  /\ sweep'[s].releasing = {other}
  <2>1. orders[o].status # "absent"
    BY <1>3 DEF Expire, SweepsClose
  <2>2. orders'[o].status \notin {"absent", "pending_payment"}
    BY <1>0, <1>3, <2>1 DEF Expire
  <2>3. \A other \in sweep[s].todo : orders'[other].status # "absent"
    BY <1>0, OrdersStay DEF SweepsClose
  <2> QED
    BY <1>3, <2>2, <2>3
<1>4. CASE sweep'[s] = [todo |-> sweep[s].todo, releasing |-> {}]
  BY <1>0, <1>4, OrdersStay DEF SweepsClose
<1>5. CASE sweep'[s] = IdleSweep
  BY <1>5 DEF IdleSweep
<1> QED
  BY <1>1, <1>2, <1>3, <1>4, <1>5, SweepSteps

\* An order without a refused payment that can still be paid holds all its numbers, reserved
\* or assigned; one that is paid, or about to be saved as paid, has them all assigned.
PaidWhole ==
    /\ \A o \in Orders : Undisputed(o) =>
         /\ orders[o].status = "pending_payment" =>
              ReservedOf(o) = orders[o].numbers \/ AssignedOf(o) = orders[o].numbers
         /\ orders[o].status = "paid" => AssignedOf(o) = orders[o].numbers
    /\ \A h \in Hooks : hook[h].pc = "savePaid" /\ Undisputed(OrderOn(h)) =>
         AssignedOf(OrderOn(h)) = orders[OrderOn(h)].numbers

\* An order that has all its numbers assigned keeps them.
LEMMA OwnedStays ==
    ASSUME Coherent, [Next]_vars, NEW o \in Orders, orders[o].status # "absent",
           AssignedOf(o) = orders[o].numbers
    PROVE  AssignedOf(o)' = orders'[o].numbers
<1> USE DEF Coherent
<1>1. ReservedOf(o) = {}
  BY AllOrNothing DEF TicketsWhole
<1>2. orders'[o].numbers = orders[o].numbers /\ ~Reserve(o)
  BY OrderKept
<1>3. ASSUME NEW h \in Hooks, OrderOn(h) = o, AssignTickets(h)
      PROVE  AssignedOf(o)' = AssignedOf(o)
  <2>1. AssignedOf(o)' = AssignedOf(o) \cup (ReservedOf(o) \cap hook[h].nums)
    BY <1>3, AssignEffect
  <2> QED
    BY <1>1, <2>1
<1>4. AssignedOf(o)' = AssignedOf(o)
  BY <1>2, <1>3, TicketsOf, ReleaseEffect DEF ReleaseRefused, ReleaseLapsed
<1> QED
  BY <1>2, <1>4

LEMMA StepPaidWhole ==
    ASSUME OneVerdict, Coherent, VerdictsAgree, SweepsClose, PaidWhole, [Next]_vars
    PROVE  PaidWhole'
<1>0. /\ TypeOK /\ OrdersExist /\ TicketsWhole
      /\ orders \in [Orders -> [status : OrderStatuses \cup {"absent"},
                                numbers : SUBSET Numbers,
                                paidBy : Payments \cup {NoPayment}]]
  BY Typed DEF Coherent
<1>1. \A o \in Orders : Undisputed(o)' => Undisputed(o)
  BY <1>0, VerdictStands DEF Undisputed, Refusals
<1>2. ASSUME NEW o \in Orders, Undisputed(o)', orders'[o].status = "pending_payment"
      PROVE  ReservedOf(o)' = orders'[o].numbers \/ AssignedOf(o)' = orders'[o].numbers
  <2>1. CASE Reserve(o)
    <3>1. ReservedOf(o) = {}
      BY <1>0, <2>1, ReserveEffect DEF OrdersExist
    <3> QED
      BY <1>0, <2>1, <3>1, ReserveEffect
  <2>2. CASE ~Reserve(o)
    <3>1. orders[o].status = "pending_payment"
      BY <1>0, <1>2, <2>2, PendingIsFirst, OrdersStay
    <3>2. orders'[o].numbers = orders[o].numbers
      BY <1>0, <3>1, OrderKept
    <3>3. ASSUME NEW h \in Hooks, OrderOn(h) = o, ReleaseRefused(h) PROVE FALSE
      <4>1. hook[h].pc = "release"
        BY <3>3 DEF ReleaseRefused, At
      <4>2. hook[h].pay \in Payments /\ payments[hook[h].pay] \in Refusals
        BY <1>0, <4>1 DEF TypeOK, VerdictsAgree, Refusing
      <4> QED
        BY <1>1, <1>2, <3>3, <4>2 DEF Undisputed, OrderOn
    <3>4. ASSUME NEW s \in Sweepers, ReleaseLapsed(s, o) PROVE FALSE
      BY <3>1, <3>4 DEF ReleaseLapsed, SweepsClose
    <3>5. CASE AssignedOf(o) = orders[o].numbers
      BY <3>1, <3>5, OwnedStays
    <3>6. CASE ReservedOf(o) = orders[o].numbers
      <4>1. ASSUME NEW h \in Hooks, OrderOn(h) = o, AssignTickets(h)
            PROVE  AssignedOf(o)' = orders[o].numbers
        <5>1. hook[h].nums = orders[o].numbers /\ orders[o].numbers # {}
          BY <1>0, <3>1, <4>1 DEF TicketsWhole, AssignTickets, At
        <5>2. AssignedOf(o) = {}
          BY <1>0, <3>6, <5>1, AllOrNothing DEF TicketsWhole
        <5>3. AssignedOf(o)' = AssignedOf(o) \cup (ReservedOf(o) \cap hook[h].nums)
          BY <4>1, AssignEffect
        <5> QED
          BY <3>6, <5>1, <5>2, <5>3
      <4> QED
        BY <1>0, <2>2, <3>2, <3>3, <3>4, <3>6, <4>1, TicketsOf
    <3> QED
      BY <1>1, <1>2, <3>1, <3>5, <3>6 DEF PaidWhole
  <2> QED
    BY <2>1, <2>2
<1>3. ASSUME NEW o \in Orders, Undisputed(o)', orders'[o].status = "paid"
      PROVE  AssignedOf(o)' = orders'[o].numbers
  <2>1. orders[o].status # "absent" /\ AssignedOf(o) = orders[o].numbers
    <3>1. ~Reserve(o)
      BY <1>0, <1>3, ReserveEffect
    <3>2. ASSUME NEW h \in Hooks, OrderOn(h) = o, SavePaid(h)
          PROVE  orders[o].status # "absent" /\ AssignedOf(o) = orders[o].numbers
      BY <1>0, <1>1, <1>3, <3>2 DEF PaidWhole, OrdersExist, SavePaid, At
    <3>3. ASSUME NEW h \in Hooks, OrderOn(h) = o, SaveFailed(h) PROVE FALSE
      BY <1>0, <1>3, <3>3 DEF SaveFailed
    <3>4. ASSUME NEW s \in Sweepers, Expire(s, o) PROVE orders[o].status = "paid"
      BY <1>0, <1>3, <3>4 DEF Expire
    <3> QED
      BY <1>0, <1>1, <1>3, <3>1, <3>2, <3>3, <3>4, OrderSteps DEF PaidWhole
  <2> QED
    BY <2>1, OwnedStays
<1>4. ASSUME NEW h \in Hooks, hook'[h].pc = "savePaid", Undisputed(OrderOn(h))'
      PROVE  (AssignedOf(OrderOn(h)) = orders[OrderOn(h)].numbers)'
  <2>1. hook[h].pc # "idle" /\ OrderOn(h)' = OrderOn(h)
    <3>1. ASSUME NEW event \in Events, Receive(h, event) PROVE FALSE
      BY <1>0, <1>4, <3>1, ReceiveLemma DEF Branch
    <3> QED
      BY <1>0, <1>4, <3>1, HookSteps, StepLemma DEF OrderOn
  <2>2. PICK o \in Orders : o = OrderOn(h)
    BY <1>0, <2>1, Typed
  <2>3. OrderOn(h)' = o /\ orders[o].status # "absent" /\ Undisputed(o)
    <3>1. Undisputed(o)'
      BY <1>4, <2>1, <2>2 DEF Undisputed
    <3> QED
      BY <1>0, <1>1, <2>1, <2>2, <3>1 DEF OrdersExist
  <2>4. AssignedOf(o) = orders[o].numbers
    <3>1. CASE hook'[h] = hook[h]
      BY <1>4, <2>2, <2>3, <3>1 DEF PaidWhole
    <3>2. CASE StepOf(h)
      <4>1. hook[h].pc = "loadPaid" /\ orders[o].status \in {"paid", "pending_payment"}
        BY <1>0, <1>4, <2>2, <3>2, StepLemma
      <4>2. ReservedOf(o) = {} /\ orders[o].numbers # {}
        BY <1>0, <2>2, <2>3, <4>1 DEF TicketsWhole
      <4> QED
        BY <2>3, <4>1, <4>2 DEF PaidWhole
    <3>3. ASSUME NEW event \in Events, Receive(h, event) PROVE FALSE
      BY <1>0, <1>4, <3>3, ReceiveLemma DEF Branch
    <3> QED
      BY <1>0, <3>1, <3>2, <3>3, HookSteps
  <2>5. AssignedOf(o)' = orders'[o].numbers
    BY <2>3, <2>4, OwnedStays
  <2> QED
    BY <2>3, <2>5 DEF AssignedOf
<1> QED
  BY <1>2, <1>3, <1>4 DEF PaidWhole

\* When Wompi settles each reference once, a paid order without a refused payment owns the
\* numbers it shows: what a webhook found several awaits ago still holds when it saves.
THEOREM PaidOrdersOwn ==
    ASSUME OneVerdict
    PROVE  Spec => []PaidOrdersOwnTheirNumbers
<1> DEFINE Inv == Coherent /\ VerdictsAgree /\ SweepsClose /\ PaidWhole
<1>1. Init => Inv
  <2> SUFFICES ASSUME Init PROVE SweepsClose /\ PaidWhole
    BY InitCoherent, InitVerdictsAgree
  <2> QED
    BY DEF Init, SweepsClose, PaidWhole, IdleSweep, IdleHook, NoOrder
<1>2. Inv /\ [Next]_vars => Inv'
  BY StepCoherent, StepVerdictsAgree, StepSweepsClose, StepPaidWhole DEF Coherent
<1>3. Inv => PaidOrdersOwnTheirNumbers
  BY DEF Coherent, TicketsWhole, PaidWhole, PaidOrdersOwnTheirNumbers
<1> QED
  BY <1>1, <1>2, <1>3, PTL DEF Spec

\* Only a second payment of the same order sells a number twice: when every order is paid
\* with one reference, and Wompi settles it once, no number is on two paid orders' lists.
THEOREM SoldOnceWithoutRetries ==
    ASSUME OneVerdict,
           \A p, q \in Payments : OrderOf[p] = OrderOf[q] => p = q
    PROVE  Spec => []NumbersSoldOnce
<1>1. PaidByAnApprovedPayment /\ PaidOrdersOwnTheirNumbers => NumbersSoldOnce
  <2> SUFFICES ASSUME PaidByAnApprovedPayment, PaidOrdersOwnTheirNumbers,
                      NEW o \in Orders, NEW other \in Orders, o # other,
                      orders[o].status = "paid", orders[other].status = "paid"
               PROVE  orders[o].numbers \cap orders[other].numbers = {}
    BY DEF NumbersSoldOnce
  <2>1. Undisputed(o) /\ Undisputed(other)
    BY DEF PaidByAnApprovedPayment, Undisputed, Refusals
  <2>2. AssignedOf(o) = orders[o].numbers /\ AssignedOf(other) = orders[other].numbers
    BY <2>1 DEF PaidOrdersOwnTheirNumbers
  <2>3. AssignedOf(o) \cap AssignedOf(other) = {}
    BY DEF AssignedOf, Assigned
  <2> QED
    BY <2>2, <2>3
<1> QED
  BY <1>1, PaidOrdersOwn, PaidMeansApproved, PTL

-------------------------------------------------------------------------------
\* Ticket emails are bounded

\* A request that may still mail its order's buyer: it has read the order unpaid, and only
\* its own next steps stand between it and the email.
Mailing(h) ==
    /\ hook[h].pc \in {"find", "assign", "list", "loadPaid", "savePaid", "count", "setSold",
                       "mail"}
    /\ ~hook[h].replay
Mailers(o) == {h \in Hooks : Mailing(h) /\ OrderOn(h) = o}

\* A request that has saved its order as paid, or has read it so.
BeyondPaid(h) ==
    \/ hook[h].pc \in {"count", "setSold", "mail"}
    \/ hook[h].pc = "savePaid" /\ hook[h].seen = "paid"

\* An order without a refused payment: nobody is mailed before it is paid, and the emails
\* sent and still to be sent add up to no more than the requests.
MailsAddUp ==
    /\ \A h \in Hooks :
         /\ hook[h].pc = "mail" => ~hook[h].replay
         /\ BeyondPaid(h) /\ Undisputed(OrderOn(h)) => orders[OrderOn(h)].status = "paid"
    /\ \A o \in Orders : Undisputed(o) =>
         /\ orders[o].status # "paid" => mailed[o] = 0
         /\ mailed[o] + Cardinality(Mailers(o)) <= Cardinality(Hooks)

LEMMA MailersFinite ==
    ASSUME NEW o
    PROVE  /\ IsFiniteSet(Mailers(o))
           /\ Cardinality(Mailers(o)) \in Nat
           /\ Cardinality(Hooks) \in Nat
           /\ Cardinality(Mailers(o)) <= Cardinality(Hooks)
<1>1. Mailers(o) \in SUBSET Hooks /\ IsFiniteSet(Hooks)
  BY PurchaseAssumption DEF Mailers
<1>2. IsFiniteSet(Mailers(o)) /\ Cardinality(Mailers(o)) <= Cardinality(Hooks)
  BY <1>1, FS_Subset
<1> QED
  BY <1>1, <1>2, FS_CardinalityType

\* An order that is paid stays so, unless one of its payments was refused.
LEMMA PaidStands ==
    ASSUME Coherent, VerdictsAgree, [Next]_vars, NEW o \in Orders, Undisputed(o),
           orders[o].status = "paid"
    PROVE  orders'[o].status = "paid"
<1>0. /\ TypeOK /\ OrdersExist
      /\ orders \in [Orders -> [status : OrderStatuses \cup {"absent"},
                                numbers : SUBSET Numbers,
                                paidBy : Payments \cup {NoPayment}]]
  BY Typed DEF Coherent
<1>1. ~Reserve(o)
  BY <1>0 DEF Reserve, OrdersExist
<1>2. ASSUME NEW h \in Hooks, OrderOn(h) = o, SavePaid(h) PROVE orders'[o].status = "paid"
  BY <1>0, <1>2 DEF SavePaid
<1>3. ASSUME NEW h \in Hooks, OrderOn(h) = o, SaveFailed(h) PROVE FALSE
  <2>1. hook[h].pc = "saveFailed"
    BY <1>3 DEF SaveFailed, At
  <2>2. hook[h].pay \in Payments /\ payments[hook[h].pay] \in Refusals
    BY <1>0, <2>1 DEF TypeOK, VerdictsAgree, Refusing
  <2> QED
    BY <1>3, <2>2 DEF Undisputed, OrderOn
<1>4. ASSUME NEW s \in Sweepers, Expire(s, o) PROVE orders'[o].status = "paid"
  BY <1>0, <1>4 DEF Expire
<1> QED
  BY <1>0, <1>1, <1>2, <1>3, <1>4, OrderSteps

\* How a request comes to where it mails, and beyond paid.
LEMMA MailingSteps ==
    ASSUME TypeOK, NEW h \in Hooks, StepOf(h)
    PROVE  /\ hook'[h].pc = "mail" => ~hook'[h].replay
           /\ BeyondPaid(h)' =>
                BeyondPaid(h) \/ SavePaid(h) \/ orders[OrderOn(h)].status = "paid"
           /\ Mailing(h)' => Mailing(h) \/ orders[OrderOn(h)].status # "paid"
           /\ SendMail(h) => (Mailing(h) /\ ~Mailing(h)') \/ hook[h].replay
<1>0. hook \in [Hooks -> HookRecords] /\ hook[h] \in HookRecords
  BY DEF TypeOK
<1> USE DEF Mailing, BeyondPaid
<1>1. CASE RecordPayment(h)
  <2>1. hook'[h].pc \in {"order", "release"}
    BY <1>0, <1>1 DEF RecordPayment, Goto, Branch
  <2>2. ~SendMail(h)
    BY <1>1 DEF RecordPayment, SendMail, At
  <2> QED
    BY <2>1, <2>2
<1>2. CASE ReadOrder(h)
  <2>1. /\ hook[h].pc = "order"
        /\ IF orders[OrderOn(h)].status = "paid"
           THEN hook' = [hook EXCEPT ![h].pc = "count", ![h].replay = TRUE]
           ELSE hook' = [hook EXCEPT ![h].pc = "find"]
    BY <1>2 DEF ReadOrder, At, Goto
  <2>2. IF orders[OrderOn(h)].status = "paid"
        THEN hook'[h].pc = "count" /\ hook'[h].replay = TRUE
        ELSE hook'[h].pc = "find"
    <3>1. CASE orders[OrderOn(h)].status = "paid"
      BY <1>0, <2>1, <3>1 DEF HookRecords
    <3>2. CASE orders[OrderOn(h)].status # "paid"
      BY <1>0, <2>1, <3>2 DEF HookRecords
    <3> QED
      BY <3>1, <3>2
  <2>3. ~SendMail(h)
    BY <2>1 DEF SendMail, At
  <2> QED
    BY <2>2, <2>3
<1>3. CASE FindReserved(h)
  <2> DEFINE found == ReservedOf(OrderOn(h))
  <2>1. /\ hook[h].pc = "find"
        /\ IF found = {}
           THEN hook' = [hook EXCEPT ![h].pc = "list"]
           ELSE hook' = [hook EXCEPT ![h].pc = "assign", ![h].nums = found]
    BY <1>3 DEF FindReserved, At, Goto
  <2> HIDE DEF found
  <2>2. hook'[h].pc \in {"list", "assign"} /\ hook'[h].replay = hook[h].replay
    <3>1. CASE found = {}
      BY <1>0, <2>1, <3>1 DEF HookRecords
    <3>2. CASE found # {}
      BY <1>0, <2>1, <3>2 DEF HookRecords
    <3> QED
      BY <3>1, <3>2
  <2>3. ~SendMail(h)
    BY <2>1 DEF SendMail, At
  <2> QED
    BY <2>1, <2>2, <2>3
<1>4. CASE AssignTickets(h) \/ SavePaid(h)
  <2>1. /\ hook[h].pc \in {"assign", "savePaid"} /\ hook'[h].replay = hook[h].replay
        /\ \/ hook'[h].pc = "loadPaid"
           \/ hook'[h].pc = "count" /\ SavePaid(h)
    BY <1>0, <1>4 DEF AssignTickets, SavePaid, At, Goto, HookRecords
  <2>2. ~SendMail(h)
    BY <2>1 DEF SendMail, At
  <2> QED
    BY <2>1, <2>2
<1>5. CASE ListAssigned(h)
  <2> DEFINE found == AssignedOf(OrderOn(h))
  <2>1. /\ hook[h].pc = "list"
        /\ IF found = {}
           THEN hook' = [hook EXCEPT ![h] = IdleHook]
           ELSE hook' = [hook EXCEPT ![h].pc = "loadPaid", ![h].nums = found]
    BY <1>5 DEF ListAssigned, At, Finish
  <2> HIDE DEF found
  <2>2. hook'[h].pc = "idle" \/ (hook'[h].pc = "loadPaid" /\ hook'[h].replay = hook[h].replay)
    <3>1. CASE found = {}
      BY <1>0, <2>1, <3>1 DEF IdleHook
    <3>2. CASE found # {}
      BY <1>0, <2>1, <3>2 DEF HookRecords
    <3> QED
      BY <3>1, <3>2
  <2>3. ~SendMail(h)
    BY <2>1 DEF SendMail, At
  <2> QED
    BY <2>1, <2>2, <2>3
<1>6. CASE LoadForPaid(h)
  <2> DEFINE st == orders[OrderOn(h)].status
  <2>1. /\ hook[h].pc = "loadPaid"
        /\ \/ hook' = [hook EXCEPT ![h].pc = "savePaid", ![h].seen = st]
           \/ hook' = [hook EXCEPT ![h] = IdleHook]
    BY <1>6 DEF LoadForPaid, At, Finish
  <2> HIDE DEF st
  <2>2. \/ hook'[h].pc = "idle"
        \/ /\ hook'[h].pc = "savePaid" /\ hook'[h].seen = st
           /\ hook'[h].replay = hook[h].replay
    <3>1. CASE hook' = [hook EXCEPT ![h].pc = "savePaid", ![h].seen = st]
      BY <1>0, <3>1 DEF HookRecords
    <3>2. CASE hook' = [hook EXCEPT ![h] = IdleHook]
      BY <1>0, <3>2 DEF IdleHook
    <3> QED
      BY <2>1, <3>1, <3>2
  <2>3. ~SendMail(h)
    BY <2>1 DEF SendMail, At
  <2> QED
    BY <2>1, <2>2, <2>3 DEF st
<1>7. CASE CountAssigned(h)
  <2>1. /\ hook[h].pc = "count" /\ hook'[h].pc = "setSold"
        /\ hook'[h].replay = hook[h].replay
    BY <1>0, <1>7 DEF CountAssigned, At, HookRecords
  <2>2. ~SendMail(h)
    BY <2>1 DEF SendMail, At
  <2> QED
    BY <2>1, <2>2
<1>8. CASE SetSold(h)
  <2>1. /\ hook[h].pc = "setSold"
        /\ IF hook[h].replay
           THEN hook' = [hook EXCEPT ![h] = IdleHook]
           ELSE hook' = [hook EXCEPT ![h].pc = "mail"]
    BY <1>8 DEF SetSold, At, Finish, Goto
  <2>2. \/ hook'[h].pc = "idle"
        \/ hook'[h].pc = "mail" /\ hook'[h].replay = hook[h].replay /\ ~hook[h].replay
    <3>1. CASE hook[h].replay
      BY <1>0, <2>1, <3>1 DEF IdleHook
    <3>2. CASE ~hook[h].replay
      BY <1>0, <2>1, <3>2 DEF HookRecords
    <3> QED
      BY <3>1, <3>2
  <2>3. ~SendMail(h)
    BY <2>1 DEF SendMail, At
  <2> QED
    BY <2>1, <2>2, <2>3
<1>9. CASE SendMail(h) \/ FailMail(h) \/ SaveFailed(h) \/ CrashHook(h)
  <2>1. hook'[h].pc = "idle"
    BY <1>0, <1>9 DEF SendMail, FailMail, SaveFailed, CrashHook, Finish, IdleHook
  <2>2. SendMail(h) => hook[h].pc = "mail"
    BY DEF SendMail, At
  <2> QED
    BY <2>1, <2>2
<1>10. CASE ReleaseRefused(h) \/ LoadForFailed(h)
  <2>1. /\ hook[h].pc \in {"release", "loadFailed"}
        /\ hook'[h].pc \in {"loadFailed", "saveFailed", "idle"}
    BY <1>0, <1>10 DEF ReleaseRefused, LoadForFailed, At, Goto, Finish, IdleHook, HookRecords
  <2>2. ~SendMail(h)
    BY <2>1 DEF SendMail, At
  <2> QED
    BY <2>1, <2>2
<1> QED
  BY <1>1, <1>2, <1>3, <1>4, <1>5, <1>6, <1>7, <1>8, <1>9, <1>10 DEF StepOf, Approve, Decline

\* An email is counted when a webhook sends it.
LEMMA MailSteps ==
    ASSUME [Next]_vars
    PROVE  UNCHANGED mailed \/ \E h \in Hooks : SendMail(h)
<1>1. ASSUME NEW o \in Orders, Buy(o) \/ Lapse(o) PROVE UNCHANGED mailed
  BY <1>1 DEF Buy, ReadRaffle, Admit, Refuse, Reserve, AbortReserve, Lapse
<1>2. ASSUME NEW p \in Payments, Checkout(p) PROVE UNCHANGED mailed
  BY <1>2 DEF Checkout, OpenCheckout, CreatePayment
<1>3. ASSUME NEW h \in Hooks, NEW event \in Events, Receive(h, event) PROVE UNCHANGED mailed
  BY <1>3 DEF Receive
<1>4. ASSUME NEW h \in Hooks, RecordPayment(h) \/ Approve(h) \/ Decline(h) \/ CrashHook(h),
             ~SendMail(h)
      PROVE  UNCHANGED mailed
  BY <1>4
  DEF RecordPayment, Approve, Decline, CrashHook, ReadOrder, FindReserved, AssignTickets,
      ListAssigned, LoadForPaid, SavePaid, CountAssigned, SetSold, FailMail, ReleaseRefused,
      LoadForFailed, SaveFailed
<1>5. ASSUME NEW s \in Sweepers, Sweep(s) \/ CrashSweep(s) PROVE UNCHANGED mailed
  BY <1>5 DEF Sweep, FindLapsed, Expire, ReleaseLapsed, CrashSweep
<1> QED
  BY <1>1, <1>2, <1>3, <1>4, <1>5 DEF Next, vars

\* What a request that moves does to the requests that may mail.
LEMMA MailersMove ==
    ASSUME TypeOK, MailsAddUp, [Next]_vars, NEW o \in Orders
    PROVE  /\ orders[o].status = "paid" => Mailers(o)' \subseteq Mailers(o)
           /\ \A h \in Hooks : SendMail(h) /\ OrderOn(h) = o =>
                /\ orders[o].status = "paid"
                /\ Mailers(o)' \subseteq Mailers(o) \ {h}
                /\ h \in Mailers(o)
<1>1. ASSUME NEW h \in Mailers(o)'
      PROVE  h \in Mailers(o) \/ orders[o].status # "paid"
  <2>1. h \in Hooks /\ Mailing(h)' /\ OrderOn(h)' = o
    BY <1>1 DEF Mailers
  <2>2. hook'[h].pc \notin {"idle", "record", "order", "release"}
    BY <2>1 DEF Mailing
  <2>3. CASE hook'[h] = hook[h]
    BY <2>1, <2>3 DEF Mailers, Mailing, OrderOn
  <2>4. CASE StepOf(h)
    <3>1. OrderOn(h) = o
      BY <2>1, <2>2, <2>4, StepLemma DEF OrderOn
    <3> QED
      BY <2>1, <2>4, <3>1, MailingSteps DEF Mailers
  <2>5. ASSUME NEW event \in Events, Receive(h, event) PROVE FALSE
    BY <2>1, <2>2, <2>5, ReceiveLemma DEF Branch
  <2> QED
    BY <2>1, <2>3, <2>4, <2>5, HookSteps
<1>2. ASSUME NEW h \in Hooks, SendMail(h), OrderOn(h) = o
      PROVE  orders[o].status = "paid" /\ h \in Mailers(o) /\ h \notin Mailers(o)'
  <2>1. orders[o].status = "paid" /\ hook[h].pc = "mail" /\ ~hook[h].replay
    BY <1>2 DEF SendMail, At, MailsAddUp
  <2>2. Mailing(h) /\ ~Mailing(h)'
    BY <1>2, <2>1, MailingSteps DEF StepOf, Approve
  <2> QED
    BY <1>2, <2>1, <2>2 DEF Mailers
<1> QED
  BY <1>1, <1>2

LEMMA StepMailsAddUp ==
    ASSUME OneVerdict, Coherent, VerdictsAgree, MailsAddUp, [Next]_vars
    PROVE  MailsAddUp'
<1>0. /\ TypeOK /\ OrdersExist
      /\ orders \in [Orders -> [status : OrderStatuses \cup {"absent"},
                                numbers : SUBSET Numbers,
                                paidBy : Payments \cup {NoPayment}]]
      /\ mailed \in [Orders -> Nat]
  BY Typed, PurchaseAssumption DEF Coherent, TypeOK
<1>1. \A o \in Orders : Undisputed(o)' => Undisputed(o)
  BY <1>0, VerdictStands DEF Undisputed, Refusals
<1>2. ASSUME NEW h \in Hooks, hook'[h].pc = "mail" PROVE ~hook'[h].replay
  <2>1. ASSUME NEW event \in Events, Receive(h, event) PROVE FALSE
    BY <1>0, <1>2, <2>1, ReceiveLemma DEF Branch
  <2> QED
    BY <1>0, <1>2, <2>1, HookSteps, MailingSteps DEF MailsAddUp
<1>3. ASSUME NEW h \in Hooks, BeyondPaid(h)', Undisputed(OrderOn(h))'
      PROVE  (orders[OrderOn(h)].status = "paid")'
  <2>1. ASSUME NEW event \in Events, Receive(h, event) PROVE FALSE
    BY <1>0, <1>3, <2>1, ReceiveLemma DEF Branch, BeyondPaid
  <2>2. hook'[h] = hook[h] \/ StepOf(h)
    BY <1>0, <2>1, HookSteps
  <2>3. hook'[h].pc # "idle"
    BY <1>3 DEF BeyondPaid
  <2>4. OrderOn(h)' = OrderOn(h) /\ hook[h].pc # "idle"
    BY <1>0, <2>2, <2>3, StepLemma DEF OrderOn
  <2>5. PICK o \in Orders : o = OrderOn(h)
    BY <1>0, <2>4, Typed
  <2>6. OrderOn(h)' = o /\ Undisputed(o)' /\ Undisputed(o)
    <3>1. Undisputed(o)'
      BY <1>3, <2>4, <2>5 DEF Undisputed
    <3> QED
      BY <1>1, <2>4, <2>5, <3>1
  <2>7. CASE orders[o].status = "paid"
    BY <2>6, <2>7, PaidStands
  <2>8. CASE orders[o].status # "paid"
    <3>1. ~BeyondPaid(h)
      BY <2>5, <2>6, <2>8 DEF MailsAddUp
    <3>2. StepOf(h)
      BY <1>3, <2>2, <3>1 DEF BeyondPaid
    <3>3. SavePaid(h) /\ hook[h].seen # "paid"
      BY <1>0, <1>3, <2>5, <2>8, <3>1, <3>2, MailingSteps DEF BeyondPaid, SavePaid, At
    <3>4. orders'[o].status = "paid"
      BY <1>0, <2>5, <3>3 DEF SavePaid
    <3> QED
      BY <2>6, <3>4
  <2> QED
    BY <2>7, <2>8
<1>4. ASSUME NEW o \in Orders, Undisputed(o)'
      PROVE  /\ orders'[o].status # "paid" => mailed'[o] = 0
             /\ mailed'[o] + Cardinality(Mailers(o)') <= Cardinality(Hooks)
  <2>1. Undisputed(o)
    BY <1>1, <1>4
  <2>2. /\ IsFiniteSet(Mailers(o)) /\ IsFiniteSet(Mailers(o)')
        /\ Cardinality(Mailers(o)) \in Nat /\ Cardinality(Mailers(o)') \in Nat
        /\ Cardinality(Hooks) \in Nat
        /\ Cardinality(Mailers(o)') <= Cardinality(Hooks)
        /\ mailed[o] \in Nat
    <3>1. Mailers(o)' \in SUBSET Hooks /\ IsFiniteSet(Hooks)
      BY PurchaseAssumption DEF Mailers
    <3>2. IsFiniteSet(Mailers(o)') /\ Cardinality(Mailers(o)') <= Cardinality(Hooks)
      BY <3>1, FS_Subset
    <3> QED
      BY <1>0, <3>2, MailersFinite, FS_CardinalityType
  <2>3. mailed[o] + Cardinality(Mailers(o)) <= Cardinality(Hooks)
    BY <2>1 DEF MailsAddUp
  <2>4. CASE orders[o].status # "paid"
    <3>1. \A h \in Hooks : SendMail(h) => OrderOn(h) # o
      BY <1>0, <2>4, MailersMove
    <3>2. mailed'[o] = mailed[o]
      BY <1>0, <3>1, MailSteps DEF SendMail
    <3>3. mailed[o] = 0
      BY <2>1, <2>4 DEF MailsAddUp
    <3> QED
      BY <2>2, <3>2, <3>3
  <2>5. CASE orders[o].status = "paid" /\ mailed'[o] = mailed[o]
    <3>1. orders'[o].status = "paid"
      BY <2>1, <2>5, PaidStands
    <3>2. Mailers(o)' \in SUBSET Mailers(o)
      BY <1>0, <2>5, MailersMove
    <3>3. Cardinality(Mailers(o)') <= Cardinality(Mailers(o))
      BY <2>2, <3>2, FS_Subset
    <3> QED
      BY <2>2, <2>3, <2>5, <3>1, <3>3
  <2>6. CASE orders[o].status = "paid" /\ mailed'[o] # mailed[o]
    <3>1. PICK h \in Hooks : SendMail(h)
      BY <2>6, MailSteps
    <3>2. OrderOn(h) = o
      BY <1>0, <2>6, <3>1 DEF SendMail
    <3>3. mailed'[o] <= mailed[o] + 1 /\ mailed'[o] \in Nat
      BY <1>0, <2>2, <3>1, <3>2 DEF SendMail
    <3>4. Mailers(o)' \in SUBSET (Mailers(o) \ {h}) /\ h \in Mailers(o)
      BY <1>0, <3>1, <3>2, MailersMove
    <3>5. /\ IsFiniteSet(Mailers(o) \ {h})
          /\ Cardinality(Mailers(o) \ {h}) = Cardinality(Mailers(o)) - 1
      BY <2>2, <3>4, FS_RemoveElement
    <3>6. Cardinality(Mailers(o)') <= Cardinality(Mailers(o)) - 1
      BY <3>4, <3>5, FS_Subset
    <3>7. orders'[o].status = "paid"
      BY <2>1, <2>6, PaidStands
    <3> QED
      BY <2>2, <2>3, <3>3, <3>6, <3>7
  <2> QED
    BY <2>4, <2>5, <2>6
<1> QED
  BY <1>2, <1>3, <1>4 DEF MailsAddUp

\* When Wompi settles each reference once, an order without a refused payment is mailed at
\* most once for each request the API serves at once: a redelivery that starts after the
\* order is paid sends nothing, and one that overlaps the payment sends one email.
THEOREM MailsBounded ==
    ASSUME OneVerdict
    PROVE  Spec => []MailsAreBounded
<1> DEFINE Inv == Coherent /\ VerdictsAgree /\ MailsAddUp
<1>1. Init => Inv
  <2> SUFFICES ASSUME Init PROVE MailsAddUp
    BY InitCoherent, InitVerdictsAgree
  <2>1. \A h \in Hooks : ~Mailing(h) /\ hook[h].pc = "idle"
    BY DEF Init, IdleHook, Mailing
  <2>2. ASSUME NEW o \in Orders
        PROVE  mailed[o] = 0 /\ Cardinality(Mailers(o)) <= Cardinality(Hooks)
    BY MailersFinite DEF Init
  <2> QED
    BY <2>1, <2>2, MailersFinite DEF MailsAddUp, BeyondPaid
<1>2. Inv /\ [Next]_vars => Inv'
  BY StepCoherent, StepVerdictsAgree, StepMailsAddUp DEF Coherent
<1>3. Inv => MailsAreBounded
  <2> SUFFICES ASSUME Inv, NEW o \in Orders, Undisputed(o)
               PROVE  mailed[o] <= Cardinality(Hooks)
    BY DEF MailsAreBounded
  <2>1. mailed[o] + Cardinality(Mailers(o)) <= Cardinality(Hooks) /\ mailed[o] \in Nat
    BY PurchaseAssumption DEF MailsAddUp, Coherent, TypeOK
  <2> QED
    BY <2>1, MailersFinite
<1> QED
  BY <1>1, <1>2, <1>3, PTL DEF Spec

-------------------------------------------------------------------------------
\* A closed order leaves nothing reserved

\* An order that failed has released its numbers; one that expired has, or a sweep is about
\* to release them.
ClosedRelease ==
    \A o \in Orders :
      /\ orders[o].status = "failed" => ReservedOf(o) = {}
      /\ orders[o].status = "expired" =>
           ReservedOf(o) = {} \/ \E s \in Sweepers : o \in sweep[s].releasing

LEMMA StepClosedRelease ==
    ASSUME Mortal \cap Sweepers = {}, Coherent, SweepsClose, ClosedRelease, [Next]_vars
    PROVE  ClosedRelease'
<1>0. /\ TypeOK /\ OrdersExist /\ TicketsWhole
      /\ orders \in [Orders -> [status : OrderStatuses \cup {"absent"},
                                numbers : SUBSET Numbers,
                                paidBy : Payments \cup {NoPayment}]]
  BY Typed DEF Coherent
<1> SUFFICES ASSUME NEW o \in Orders, orders'[o].status \in {"failed", "expired"}
             PROVE  \/ ReservedOf(o)' = {}
                    \/ /\ orders'[o].status = "expired"
                       /\ \E s \in Sweepers : o \in sweep'[s].releasing
  BY DEF ClosedRelease
<1>1. ~Reserve(o)
  BY <1>0, ReserveEffect
<1>2. orders[o].status # "absent"
  BY <1>0, <1>1, OrdersStay
<1>3. CASE ReservedOf(o) = {}
  BY <1>0, <1>2, <1>3, OrderKept
<1>4. CASE ReservedOf(o) # {}
  <2>1. ASSUME NEW h \in Hooks, OrderOn(h) = o, SaveFailed(h) \/ SavePaid(h) PROVE FALSE
    BY <1>0, <1>4, <2>1 DEF SaveFailed, SavePaid, At, TicketsWhole
  <2>2. ASSUME NEW s \in Sweepers, Expire(s, o)
        PROVE  /\ o \in sweep'[s].releasing
               /\ orders'[o].status = "expired"
    <3>1. orders'[o].status # "failed"
      BY <1>0, <1>4, <2>2 DEF Expire, ClosedRelease
    <3> QED
      BY <1>0, <2>2, <3>1 DEF Expire, TypeOK
  <2>3. CASE orders'[o] = orders[o]
    <3>1. orders[o].status = "expired" /\ \E s \in Sweepers : o \in sweep[s].releasing
      BY <1>4, <2>3 DEF ClosedRelease
    <3>2. PICK s \in Sweepers : o \in sweep[s].releasing
      BY <3>1
    <3>3. ~CrashSweep(s) /\ ~FindLapsed(s)
      BY <3>2 DEF CrashSweep, FindLapsed, IdleSweep
    <3>4. ASSUME NEW other \in Orders, Expire(s, other) PROVE FALSE
      BY <3>2, <3>4 DEF Expire
    <3>5. ASSUME NEW other \in Orders, ReleaseLapsed(s, other) PROVE ReservedOf(o)' = {}
      <4>1. other = o
        BY <3>2, <3>5 DEF ReleaseLapsed, SweepsClose
      <4> QED
        BY <3>5, <4>1, ReleaseEffect DEF ReleaseLapsed
    <3>6. sweep'[s] = sweep[s] \/ ReservedOf(o)' = {}
      BY <1>0, <3>3, <3>4, <3>5, SweepSteps
    <3> QED
      BY <2>3, <3>1, <3>2, <3>6
  <2> QED
    BY <1>0, <1>1, <2>1, <2>2, <2>3, OrderSteps
<1> QED
  BY <1>3, <1>4

\* As long as no sweeper is killed between its two writes, a closed order keeps no number
\* off the market.
THEOREM NothingStaysStranded ==
    ASSUME Mortal \cap Sweepers = {}
    PROVE  Spec => []NothingStranded
<1> DEFINE Inv == Coherent /\ SweepsClose /\ ClosedRelease
<1>1. Init => Inv
  <2> SUFFICES ASSUME Init PROVE SweepsClose /\ ClosedRelease
    BY InitCoherent
  <2> QED
    BY DEF Init, SweepsClose, ClosedRelease, IdleSweep, NoOrder
<1>2. Inv /\ [Next]_vars => Inv'
  BY StepCoherent, StepSweepsClose, StepClosedRelease DEF Coherent
<1>3. Inv => NothingStranded
  BY DEF ClosedRelease, NothingStranded
<1> QED
  BY <1>1, <1>2, <1>3, PTL DEF Spec
=================================================================================
