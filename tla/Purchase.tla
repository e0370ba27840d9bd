------------------------------- MODULE Purchase -------------------------------
(***************************************************************************)
(* The sale of raffle numbers: orders, tickets, Wompi payments and the     *)
(* raffle's soldTickets counter, as the API changes them.                  *)
(*                                                                         *)
(* Every `await` of a handler is a point where other handlers run, so a    *)
(* handler is a process that does one database statement per step and      *)
(* keeps, in its own record, what it has read and will use later:          *)
(*   request[o]   POST /orders                  OrdersService.createOrder  *)
(*   payments[p]  POST /payments/.../checkout   createCheckout             *)
(*   hook[h]      POST /webhooks/wompi          handleWebhook              *)
(*   sweep[s]     the release of lapsed reservations, in the API           *)
(*                (expirePendingOrders) and in the worker (TicketsProcessor)*)
(* A handler can die between any two of its steps (CrashHook, CrashSweep)  *)
(* when Mortal says it may.                                                *)
(* Wompi delivers each event at least once, in any order.                  *)
(*                                                                         *)
(* One raffle, on sale throughout.  A statement on several documents       *)
(* (updateMany, deleteMany) is one step.  The audit log is written last,   *)
(* read by nobody here, and left out; the email's delivery status belongs  *)
(* to TicketEmail.                                                         *)
(***************************************************************************)
EXTENDS Integers, FiniteSets, Lifecycle

CONSTANTS
    Orders,       \* order ids, one for every purchase that can be started
    Payments,     \* payment references
    Numbers,      \* the numbers a ticket can carry (0000..9999)
    Hooks,        \* webhook requests the API can be serving at once
    Sweepers,     \* processes that release lapsed reservations
    Qty,          \* ticketQty of each order
    OrderOf,      \* the order each payment reference is created for
    Total,        \* the raffle's totalTickets
    Events,       \* what Wompi may report: <<payment, provider status>>
    Mortal,       \* webhook requests and sweepers that can be killed in mid-run
    MailCap,      \* bound: ticket emails counted per order
    NoPayment     \* an idle webhook request's payment

ASSUME PurchaseAssumption ==
    /\ IsFiniteSet(Numbers)
    /\ IsFiniteSet(Hooks)
    /\ Qty \in [Orders -> Nat \ {0}]
    /\ OrderOf \in [Payments -> Orders]
    /\ Total \in Nat
    /\ Events \subseteq Payments \X WompiStatuses
    /\ Mortal \subseteq Hooks \cup Sweepers
    /\ MailCap \in Nat \ {0}
    /\ NoPayment \notin Payments

VARIABLES
    orders,    \* the orders collection: status, ticketNumbers, paymentId
    tickets,   \* the tickets collection, by number; "free" is: no document
    payments,  \* the payments collection: status
    sold,      \* the raffle's soldTickets
    due,       \* orders whose expiresAt has passed
    request,   \* createOrder's progress
    hook,      \* handleWebhook's progress
    sweep,     \* the sweepers' progress
    mailed     \* ticket emails handed to the provider

vars == <<orders, tickets, payments, sold, due, request, hook, sweep, mailed>>

-------------------------------------------------------------------------------
\* Documents

NoOrder == [status |-> "absent", numbers |-> {}, paidBy |-> NoPayment]

Free == [status |-> "free", owner |-> {}]
Reserved(o) == [status |-> "reserved", owner |-> {o}]
Assigned(o) == [status |-> "assigned", owner |-> {o}]

TicketDocs == {Free} \cup {Reserved(o) : o \in Orders}
                     \cup {Assigned(o) : o \in Orders}

ReservedOf(o) == {n \in Numbers : tickets[n] = Reserved(o)}
AssignedOf(o) == {n \in Numbers : tickets[n] = Assigned(o)}
InStatus(st) == {n \in Numbers : tickets[n].status = st}

\* releaseTicketsForOrder: deleteMany({orderId, status: 'reserved'})
Released(o) ==
    [n \in Numbers |-> IF tickets[n] = Reserved(o) THEN Free ELSE tickets[n]]

\* Handlers

HookPlaces ==
    {"idle", "record", "order", "find", "assign", "list", "loadPaid",
     "savePaid", "count", "setSold", "mail", "release", "loadFailed",
     "saveFailed"}

IdleHook ==
    [pc |-> "idle", pay |-> NoPayment, verdict |-> "pending", seen |-> "absent",
     nums |-> {}, replay |-> FALSE, count |-> 0]

IdleRequest == [pc |-> "idle", sold |-> 0]
IdleSweep == [todo |-> {}, releasing |-> {}]

At(h, pc) == hook[h].pc = pc
OrderOn(h) == OrderOf[hook[h].pay]

Goto(h, pc) == hook' = [hook EXCEPT ![h].pc = pc]
Finish(h) == hook' = [hook EXCEPT ![h] = IdleHook]

\* Mutant of Branch: every verdict is taken for an approval.
BranchToOrder(verdict) == "order"

\* Where handleWebhook goes once the payment is recorded.
Branch(verdict) == IF verdict = "approved" THEN "order" ELSE "release"

Init ==
    /\ orders = [o \in Orders |-> NoOrder]
    /\ tickets = [n \in Numbers |-> Free]
    /\ payments = [p \in Payments |-> "absent"]
    /\ sold = 0
    /\ due = {}
    /\ request = [o \in Orders |-> IdleRequest]
    /\ hook = [h \in Hooks |-> IdleHook]
    /\ sweep = [s \in Sweepers |-> IdleSweep]
    /\ mailed = [o \in Orders |-> 0]

-------------------------------------------------------------------------------
\* createOrder

\* The active raffle is read; its soldTickets is kept for the capacity check.
ReadRaffle(o) ==
    /\ orders[o] = NoOrder
    /\ request[o].pc = "idle"
    /\ request' = [request EXCEPT ![o] = [pc |-> "check", sold |-> sold]]
    /\ UNCHANGED <<orders, tickets, payments, sold, due, hook, sweep, mailed>>

HasCapacity(o) ==
    request[o].sold + Cardinality(InStatus("reserved")) + Qty[o] <= Total

\* The reserved tickets are counted and the order is admitted ...
Admit(o) ==
    /\ request[o].pc = "check"
    /\ HasCapacity(o)
    /\ request' = [request EXCEPT ![o] = [pc |-> "reserve", sold |-> 0]]
    /\ UNCHANGED <<orders, tickets, payments, sold, due, hook, sweep, mailed>>

\* ... or refused, and the buyer may try again.
Refuse(o) ==
    /\ request[o].pc = "check"
    /\ ~HasCapacity(o)
    /\ request' = [request EXCEPT ![o] = IdleRequest]
    /\ UNCHANGED <<orders, tickets, payments, sold, due, hook, sweep, mailed>>

\* Mutant of Reserve: no unique index on (raffleId, number4d).
ReserveAny(o) ==
    /\ request[o].pc = "reserve"
    /\ \E chosen \in SUBSET Numbers :
         /\ Cardinality(chosen) = Qty[o]
         /\ tickets' = [n \in Numbers |->
                          IF n \in chosen THEN Reserved(o) ELSE tickets[n]]
         /\ orders' = [orders EXCEPT ![o] =
                         [status |-> "pending_payment", numbers |-> chosen,
                          paidBy |-> NoPayment]]
    /\ request' = [request EXCEPT ![o] = IdleRequest]
    /\ UNCHANGED <<payments, sold, due, hook, sweep, mailed>>

\* The transaction: an order with Qty[o] numbers nobody holds, all or nothing.
Reserve(o) ==
    /\ request[o].pc = "reserve"
    /\ \E chosen \in SUBSET InStatus("free") :
         /\ Cardinality(chosen) = Qty[o]
         /\ tickets' = [n \in Numbers |->
                          IF n \in chosen THEN Reserved(o) ELSE tickets[n]]
         /\ orders' = [orders EXCEPT ![o] =
                         [status |-> "pending_payment", numbers |-> chosen,
                          paidBy |-> NoPayment]]
    /\ request' = [request EXCEPT ![o] = IdleRequest]
    /\ UNCHANGED <<payments, sold, due, hook, sweep, mailed>>

\* A number drawn is taken (the unique index fails the transaction), the attempts run
\* out, or a concurrent transaction conflicts: nothing is written.
AbortReserve(o) ==
    /\ request[o].pc = "reserve"
    /\ request' = [request EXCEPT ![o] = IdleRequest]
    /\ UNCHANGED <<orders, tickets, payments, sold, due, hook, sweep, mailed>>

-------------------------------------------------------------------------------
\* createCheckout

\* The order is read and found payable; nobody looks at expiresAt.
OpenCheckout(p) ==
    /\ payments[p] = "absent"
    /\ orders[OrderOf[p]].status = "pending_payment"
    /\ payments' = [payments EXCEPT ![p] = "opening"]
    /\ UNCHANGED <<orders, tickets, sold, due, request, hook, sweep, mailed>>

CreatePayment(p) ==
    /\ payments[p] = "opening"
    /\ payments' = [payments EXCEPT ![p] = "pending"]
    /\ UNCHANGED <<orders, tickets, sold, due, request, hook, sweep, mailed>>

-------------------------------------------------------------------------------
\* handleWebhook

\* An authentic event arrives and the payment document is read.  An event that says what
\* the document already says is not recorded again; one that the payment table forbids
\* throws before anything is written, and an event read as pending moves nothing.
Receive(h, event) ==
    LET p == event[1]
        verdict == MapWompiStatus(event[2])
        known == payments[p]
        start == [IdleHook EXCEPT !.pay = p, !.verdict = verdict]
    IN  /\ At(h, "idle")
        /\ known \notin {"absent", "opening"}
        /\ verdict # "pending"
        /\ \/ /\ known = verdict
              /\ hook' = [hook EXCEPT ![h] = [start EXCEPT !.pc = Branch(verdict)]]
           \/ /\ CanPaymentMove(known, verdict)
              /\ hook' = [hook EXCEPT ![h] = [start EXCEPT !.pc = "record"]]
        /\ UNCHANGED <<orders, tickets, payments, sold, due, request, sweep, mailed>>

\* payment.save(): the verdict checked against the document read in Receive.
RecordPayment(h) ==
    /\ At(h, "record")
    /\ payments' = [payments EXCEPT ![hook[h].pay] = hook[h].verdict]
    /\ Goto(h, Branch(hook[h].verdict))
    /\ UNCHANGED <<orders, tickets, sold, due, request, sweep, mailed>>

\* Mutant of ReadOrder: an approval is handled in full, whatever the order's status.
ReadOrderUnasked(h) ==
    /\ At(h, "order")
    /\ Goto(h, "find")
    /\ UNCHANGED <<orders, tickets, payments, sold, due, request, sweep, mailed>>

\* handleApprovedStatus: an order already paid only has soldTickets refreshed.
ReadOrder(h) ==
    /\ At(h, "order")
    /\ IF orders[OrderOn(h)].status = "paid"
       THEN hook' = [hook EXCEPT ![h].pc = "count", ![h].replay = TRUE]
       ELSE Goto(h, "find")
    /\ UNCHANGED <<orders, tickets, payments, sold, due, request, sweep, mailed>>

\* Mutant of FindReserved: findOne where find is meant.
FindOneReserved(h) ==
    /\ At(h, "find")
    /\ LET found == ReservedOf(OrderOn(h)) IN
       \/ /\ found = {}
          /\ Goto(h, "list")
       \/ \E n \in found :
            hook' = [hook EXCEPT ![h].pc = "assign", ![h].nums = {n}]
    /\ UNCHANGED <<orders, tickets, payments, sold, due, request, sweep, mailed>>

\* assignTicketsForOrder: find the reserved tickets ...
FindReserved(h) ==
    /\ At(h, "find")
    /\ LET found == ReservedOf(OrderOn(h)) IN
       IF found = {}
       THEN Goto(h, "list")
       ELSE hook' = [hook EXCEPT ![h].pc = "assign", ![h].nums = found]
    /\ UNCHANGED <<orders, tickets, payments, sold, due, request, sweep, mailed>>

\* ... then assign those of them that still are.
AssignTickets(h) ==
    /\ At(h, "assign")
    /\ tickets' = [n \in Numbers |->
                     IF n \in hook[h].nums /\ tickets[n] = Reserved(OrderOn(h))
                     THEN Assigned(OrderOn(h)) ELSE tickets[n]]
    /\ Goto(h, "loadPaid")
    /\ UNCHANGED <<orders, payments, sold, due, request, sweep, mailed>>

\* listAssignedTicketNumbersForOrder; none at all is a ConflictException.
ListAssigned(h) ==
    /\ At(h, "list")
    /\ LET found == AssignedOf(OrderOn(h)) IN
       IF found = {}
       THEN Finish(h)
       ELSE hook' = [hook EXCEPT ![h].pc = "loadPaid", ![h].nums = found]
    /\ UNCHANGED <<orders, tickets, payments, sold, due, request, sweep, mailed>>

\* Mutant of LoadForPaid: the transition is not asserted.
LoadForPaidUnchecked(h) ==
    /\ At(h, "loadPaid")
    /\ hook' = [hook EXCEPT ![h].pc = "savePaid",
                            ![h].seen = orders[OrderOn(h)].status]
    /\ UNCHANGED <<orders, tickets, payments, sold, due, request, sweep, mailed>>

\* markPaid: read the order and assert the transition (a refusal throws) ...
LoadForPaid(h) ==
    /\ At(h, "loadPaid")
    /\ LET st == orders[OrderOn(h)].status IN
       IF st = "paid" \/ CanOrderMove(st, "paid")
       THEN hook' = [hook EXCEPT ![h].pc = "savePaid", ![h].seen = st]
       ELSE Finish(h)
    /\ UNCHANGED <<orders, tickets, payments, sold, due, request, sweep, mailed>>

\* ... then save the fields that differ from what was read, whatever happened since.
SavePaid(h) ==
    /\ At(h, "savePaid")
    /\ orders' = [orders EXCEPT ![OrderOn(h)] =
                    [status |-> IF hook[h].seen = "paid" THEN @.status ELSE "paid",
                     numbers |-> hook[h].nums,
                     paidBy |-> hook[h].pay]]
    /\ Goto(h, "count")
    /\ UNCHANGED <<tickets, payments, sold, due, request, sweep, mailed>>

\* Mutant of CountAssigned: reserved tickets are counted too.
CountAllTickets(h) ==
    /\ At(h, "count")
    /\ hook' = [hook EXCEPT ![h].pc = "setSold",
                            ![h].count = Cardinality(Numbers \ InStatus("free"))]
    /\ UNCHANGED <<orders, tickets, payments, sold, due, request, sweep, mailed>>

\* countAssignedByRaffle ...
CountAssigned(h) ==
    /\ At(h, "count")
    /\ hook' = [hook EXCEPT ![h].pc = "setSold",
                            ![h].count = Cardinality(InStatus("assigned"))]
    /\ UNCHANGED <<orders, tickets, payments, sold, due, request, sweep, mailed>>

\* Mutant of SetSold: the count is added (incrementSoldTickets), not set.
AddSold(h) ==
    /\ At(h, "setSold")
    /\ sold' = sold + hook[h].count
    /\ IF hook[h].replay THEN Finish(h) ELSE Goto(h, "mail")
    /\ UNCHANGED <<orders, tickets, payments, due, request, sweep, mailed>>

\* ... then setSoldTickets with that count.
SetSold(h) ==
    /\ At(h, "setSold")
    /\ sold' = hook[h].count
    /\ IF hook[h].replay THEN Finish(h) ELSE Goto(h, "mail")
    /\ UNCHANGED <<orders, tickets, payments, due, request, sweep, mailed>>

\* sendTicketEmail: the order is read again and must be paid.
SendMail(h) ==
    /\ At(h, "mail")
    /\ orders[OrderOn(h)].status = "paid"
    /\ mailed' = [mailed EXCEPT ![OrderOn(h)] = IF @ < MailCap THEN @ + 1 ELSE @]
    /\ Finish(h)
    /\ UNCHANGED <<orders, tickets, payments, sold, due, request, sweep>>

\* The provider, the lookup or the order's status makes it throw: caught, payment stays.
FailMail(h) ==
    /\ At(h, "mail")
    /\ Finish(h)
    /\ UNCHANGED <<orders, tickets, payments, sold, due, request, sweep, mailed>>

\* declined, voided, error: the tickets go first ...
ReleaseRefused(h) ==
    /\ At(h, "release")
    /\ tickets' = Released(OrderOn(h))
    /\ Goto(h, "loadFailed")
    /\ UNCHANGED <<orders, payments, sold, due, request, sweep, mailed>>

\* ... then markFailed reads the order (closed: only the reason changes; else asserted) ...
LoadForFailed(h) ==
    /\ At(h, "loadFailed")
    /\ LET st == orders[OrderOn(h)].status IN
       IF st \notin {"failed", "expired"} /\ CanOrderMove(st, "failed")
       THEN Goto(h, "saveFailed")
       ELSE Finish(h)
    /\ UNCHANGED <<orders, tickets, payments, sold, due, request, sweep, mailed>>

\* ... and saves it.
SaveFailed(h) ==
    /\ At(h, "saveFailed")
    /\ orders' = [orders EXCEPT ![OrderOn(h)].status = "failed"]
    /\ Finish(h)
    /\ UNCHANGED <<tickets, payments, sold, due, request, sweep, mailed>>

\* The process serving the request dies; a redelivery starts from the top.
CrashHook(h) ==
    /\ h \in Mortal
    /\ ~At(h, "idle")
    /\ Finish(h)
    /\ UNCHANGED <<orders, tickets, payments, sold, due, request, sweep, mailed>>

-------------------------------------------------------------------------------
\* expirePendingOrders, TicketsProcessor.process

\* expiresAt passes.  Only the sweep's query looks at it.
Lapse(o) ==
    /\ orders[o].status = "pending_payment"
    /\ o \notin due
    /\ due' = due \cup {o}
    /\ UNCHANGED <<orders, tickets, payments, sold, request, hook, sweep, mailed>>

\* Mutant of Lapsed: the query asks for the wrong status.
LapsedInitiated == {o \in due : orders[o].status = "initiated"}

Lapsed == {o \in due : orders[o].status = "pending_payment"}

FindLapsed(s) ==
    /\ sweep[s] = IdleSweep
    /\ Lapsed # {}
    /\ sweep' = [sweep EXCEPT ![s].todo = Lapsed]
    /\ UNCHANGED <<orders, tickets, payments, sold, due, request, hook, mailed>>

\* Mutants of Expire: the update is not filtered on the status; the release is forgotten.
ExpireAnyway(s, o) ==
    /\ o \in sweep[s].todo
    /\ sweep[s].releasing = {}
    /\ orders' = [orders EXCEPT ![o].status = "expired"]
    /\ sweep' = [sweep EXCEPT ![s] = [todo |-> @.todo \ {o}, releasing |-> {o}]]
    /\ UNCHANGED <<tickets, payments, sold, due, request, hook, mailed>>

ExpireOnly(s, o) ==
    /\ o \in sweep[s].todo
    /\ orders' = [orders EXCEPT ![o].status =
                    IF @ = "pending_payment" THEN "expired" ELSE @]
    /\ sweep' = [sweep EXCEPT ![s].todo = @ \ {o}]
    /\ UNCHANGED <<tickets, payments, sold, due, request, hook, mailed>>

\* updateOne({_id, status: 'pending_payment'}, expired) for the next order found.
Expire(s, o) ==
    /\ o \in sweep[s].todo
    /\ sweep[s].releasing = {}
    /\ orders' = [orders EXCEPT ![o].status =
                    IF @ = "pending_payment" THEN "expired" ELSE @]
    /\ sweep' = [sweep EXCEPT ![s] = [todo |-> @.todo \ {o}, releasing |-> {o}]]
    /\ UNCHANGED <<tickets, payments, sold, due, request, hook, mailed>>

\* Its reserved tickets are deleted, whether or not the update matched.
ReleaseLapsed(s, o) ==
    /\ o \in sweep[s].releasing
    /\ tickets' = Released(o)
    /\ sweep' = [sweep EXCEPT ![s].releasing = {}]
    /\ UNCHANGED <<orders, payments, sold, due, request, hook, mailed>>

CrashSweep(s) ==
    /\ s \in Mortal
    /\ sweep[s] # IdleSweep
    /\ sweep' = [sweep EXCEPT ![s] = IdleSweep]
    /\ UNCHANGED <<orders, tickets, payments, sold, due, request, hook, mailed>>

-------------------------------------------------------------------------------
Buy(o) == ReadRaffle(o) \/ Admit(o) \/ Refuse(o) \/ Reserve(o) \/ AbortReserve(o)

Checkout(p) == OpenCheckout(p) \/ CreatePayment(p)

Approve(h) ==
    \/ ReadOrder(h) \/ FindReserved(h) \/ AssignTickets(h) \/ ListAssigned(h)
    \/ LoadForPaid(h) \/ SavePaid(h) \/ CountAssigned(h) \/ SetSold(h)
    \/ SendMail(h) \/ FailMail(h)

Decline(h) == ReleaseRefused(h) \/ LoadForFailed(h) \/ SaveFailed(h)

Sweep(s) ==
    \/ FindLapsed(s)
    \/ \E o \in Orders : Expire(s, o) \/ ReleaseLapsed(s, o)

Next ==
    \/ \E o \in Orders : Buy(o) \/ Lapse(o)
    \/ \E p \in Payments : Checkout(p)
    \/ \E h \in Hooks, event \in Events : Receive(h, event)
    \/ \E h \in Hooks : RecordPayment(h) \/ Approve(h) \/ Decline(h) \/ CrashHook(h)
    \/ \E s \in Sweepers : Sweep(s) \/ CrashSweep(s)

Spec == Init /\ [][Next]_vars

\* What the deployment keeps doing: time passes, and the sweeper is started again and again
\* (the worker every minute, the maintenance workflow every five) and runs to its end.
\* Buyers, Wompi and the requests that serve them owe nothing.
Fairness ==
    /\ \A o \in Orders : WF_vars(Lapse(o))
    /\ \A s \in Sweepers : WF_vars(Sweep(s))

FairSpec == Spec /\ Fairness

\* The operator of the runbook resends every webhook, and each request that is accepted
\* runs to its end.
ResendFairness ==
    /\ \A h \in Hooks, event \in Events : SF_vars(Receive(h, event))
    /\ \A h \in Hooks : WF_vars(RecordPayment(h) \/ Approve(h) \/ Decline(h))

ResendSpec == FairSpec /\ ResendFairness

-------------------------------------------------------------------------------
\* The sale that this module implements: a ticket document is a number held, an
\* 'assigned' one a number bought, and an order that exists has been served.

Sale == INSTANCE TicketSale WITH
          holder <- [n \in Numbers |-> tickets[n].owner],
          bought <- InStatus("assigned"),
          served <- {o \in Orders : orders[o].status # "absent"}

SaleSpec == Sale!Spec

\* The counts the admin panel reads while the sale goes on.
Counts == INSTANCE TicketCounts WITH
            Limit <- Cardinality(Numbers),
            reserved <- Cardinality(InStatus("reserved")),
            assigned <- Cardinality(InStatus("assigned")),
            sold <- sold

CountsSpec == Counts!Spec

\* The orders that buyers' pages follow.  A save is on its way from the read of markPaid or
\* markFailed to its save(); one that found its order paid leaves the status alone.
Saving(h) == At(h, "saveFailed") \/ (At(h, "savePaid") /\ hook[h].seen # "paid")

Life == INSTANCE OrderLife WITH
          order <- [o \in Orders |-> orders[o].status],
          checkouts <- {OrderOf[p] : p \in {p \in Payments : payments[p] # "absent"}},
          saving <- {OrderOn(h) : h \in {h \in Hooks : Saving(h)}}

LifeSpec == Life!Spec

-------------------------------------------------------------------------------
\* Properties

RequestRecords == [pc : {"idle", "check", "reserve"}, sold : 0..Cardinality(Numbers)]

HookRecords ==
    [pc : HookPlaces, pay : Payments \cup {NoPayment}, verdict : PaymentStatuses,
     seen : OrderStatuses \cup {"absent"}, nums : SUBSET Numbers,
     replay : BOOLEAN, count : 0..Cardinality(Numbers)]

\* Every document and handler record has the shape its schema or its code gives it, and a
\* webhook request that is being served is about a payment.
TypeOK ==
    /\ orders \in [Orders -> [status : OrderStatuses \cup {"absent"},
                              numbers : SUBSET Numbers,
                              paidBy : Payments \cup {NoPayment}]]
    /\ tickets \in [Numbers -> TicketDocs]
    /\ payments \in [Payments -> PaymentStatuses \cup {"absent", "opening"}]
    /\ sold \in 0..Cardinality(Numbers)
    /\ due \subseteq Orders
    /\ request \in [Orders -> RequestRecords]
    /\ hook \in [Hooks -> HookRecords]
    /\ \A h \in Hooks : hook[h].pc # "idle" => hook[h].pay \in Payments
    /\ sweep \in [Sweepers -> [todo : SUBSET Orders, releasing : SUBSET Orders]]
    /\ mailed \in [Orders -> 0..MailCap]

\* soldTickets never claims more than is sold: whatever stale count a webhook writes
\* (count and set are two statements), it is at most the number of assigned tickets.
SoldNeverExceedsAssigned == sold <= Cardinality(InStatus("assigned"))

\* Wompi settles a reference once: all it ever says of it, pending aside, is one verdict.
OneVerdict ==
    \A e1, e2 \in Events :
        LET v1 == MapWompiStatus(e1[2])
            v2 == MapWompiStatus(e2[2])
        IN  e1[1] = e2[1] /\ v1 # "pending" /\ v2 # "pending" => v1 = v2

\* No payment of the order has been refused.
Undisputed(o) == \A p \in Payments : OrderOf[p] = o => payments[p] \notin Refusals

\* A paid order none of whose payments was refused holds exactly the numbers it shows its
\* buyer, each assigned to it: what assignTicketsForOrder found several awaits earlier is
\* still true when markPaid writes it down, whatever sweepers and replays did meanwhile.
PaidOrdersOwnTheirNumbers ==
    \A o \in Orders :
        orders[o].status = "paid" /\ Undisputed(o) =>
            /\ orders[o].numbers # {}
            /\ AssignedOf(o) = orders[o].numbers

\* Only requests that overlap the first payment of an order mail its buyer: an order none of
\* whose payments was refused gets at most one email for each request the API can be
\* serving at once, however often Wompi redelivers and whatever is killed meanwhile.
MailsAreBounded == \A o \in Orders : Undisputed(o) => mailed[o] <= Cardinality(Hooks)

\* No number is on the list of two paid orders: each number is sold once per raffle.
NumbersSoldOnce ==
    \A o, other \in Orders :
        /\ o # other
        /\ orders[o].status = "paid"
        /\ orders[other].status = "paid"
        => orders[o].numbers \cap orders[other].numbers = {}

\* Reservations keep the raffle from selling more tickets than it has.
NeverOversold ==
    Cardinality(InStatus("reserved")) + Cardinality(InStatus("assigned")) <= Total

\* The payment a paid order names is one of that order's, and it was approved.
PaidByAnApprovedPayment ==
    \A o \in Orders :
        orders[o].status = "paid" =>
            /\ orders[o].paidBy \in Payments
            /\ OrderOf[orders[o].paidBy] = o
            /\ payments[orders[o].paidBy] = "approved"

\* A closed order keeps no number off the market, except while a sweeper is between
\* writing 'expired' and deleting the order's reserved tickets.
NothingStranded ==
    \A o \in Orders :
        /\ orders[o].status \in {"expired", "failed"}
        /\ \A s \in Sweepers : o \notin sweep[s].releasing
        => ReservedOf(o) = {}

\* An order's tickets stand or fall together, on the numbers recorded in the order: all
\* reserved, all assigned, or all gone.
TicketsMoveTogether ==
    \A o \in Orders :
        LET held == ReservedOf(o) \cup AssignedOf(o) IN
        /\ held \in {{}, orders[o].numbers}
        /\ ReservedOf(o) = {} \/ AssignedOf(o) = {}

\* A step never takes an assigned ticket from its order: every release filters on
\* 'reserved', however late it runs.
AssignedStep ==
    \A n \in Numbers : tickets[n].status = "assigned" => tickets'[n] = tickets[n]
AssignedIsForever == [][AssignedStep]_vars

\* A sweep never expires an order that has been paid since the sweep found it pending.
PaidNeverExpires ==
    [][\A o \in Orders : orders[o].status = "paid" => orders'[o].status # "expired"]_vars

\* The ticket email of an order is sent at most once.
MailedOnce == \A o \in Orders : mailed[o] <= 1

\* Resending the original webhook of an approved payment whose tickets were assigned
\* brings its order to paid.
ResendReconciles ==
    \A p \in Payments :
        payments[p] = "approved" /\ AssignedOf(OrderOf[p]) # {}
            ~> orders[OrderOf[p]].status = "paid"

\* No order stays in pending_payment past its reservation, and the numbers of one that lapsed
\* come back on the market, unless they were paid for.
LapsedOrdersClose ==
    \A o \in Orders :
        o \in due ~> orders[o].status # "pending_payment" /\ ReservedOf(o) = {}
==============================================================================
