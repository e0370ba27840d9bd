------------------------------ MODULE Storefront ------------------------------
(***************************************************************************)
(* A buyer's browser, from the form of the landing page (PurchaseWidget)   *)
(* over Wompi's checkout to the page that follows the order                *)
(* (OrderStatusCard), with the calls of lib/api.ts it makes.               *)
(*                                                                         *)
(*   page      the page in the browser, and the order Wompi was opened for *)
(*   widget    handleSubmit: where it is, the order it created, the order  *)
(*             whose numbers are previewed, the checkout it navigates to   *)
(*   card      the poll of the order's page and what the card shows        *)
(*   order[o]  an order in the database, with its checkouts and the        *)
(*             webhooks' saves of it on their way: a life that OrderLife   *)
(*             allows, as Purchase implements it                           *)
(*                                                                         *)
(* A call is split at the API: its effect (Serve...), then its answer.  A  *)
(* page that is left drops its answers, the API does not drop the call     *)
(* until the page is loaded anew; a call served later still is left out.   *)
(* The fields of the form, the quantity and its price are left out.        *)
(***************************************************************************)
CONSTANTS
    Orders,
    Rendered   \* when pages are rendered: at "build" time or for each "request"

ASSUME StorefrontAssumption == "none" \notin Orders /\ Rendered \in {"build", "request"}

VARIABLES
    page, widget, card,
    order, checkouts, saving,
    seenError,  \* history: the landing page has shown an error
    hurried,    \* history: the form was submitted while the browser was leaving for a checkout
    left        \* history: the landing page was left while handleSubmit ran, or closed

vars == <<page, widget, card, order, checkouts, saving, seenError, hurried, left>>
history == <<seenError, hurried, left>>
orders == <<order, checkouts, saving>>

Life == INSTANCE OrderLife

NoOrder == "none"
Final == {"paid", "failed", "expired", "refunded"}

NewWidget == [pc |-> "idle", submitting |-> FALSE, order |-> NoOrder, preview |-> NoOrder,
              heading |-> NoOrder, error |-> FALSE]
NoCard == [pc |-> "off", order |-> NoOrder, shown |-> "nothing", numbers |-> FALSE, error |-> FALSE,
           got |-> "nothing"]

On(name) == page.name = name
At(pc) == widget.pc = pc
CardAt(pc) == card.pc = pc

Init ==
    /\ page = [name |-> "landing", order |-> NoOrder]
    /\ widget = NewWidget
    /\ card = NoCard
    /\ Life!Init
    /\ seenError = FALSE /\ hurried = FALSE /\ left = FALSE

-------------------------------------------------------------------------------
\* PurchaseWidget: createOrder, preview, createCheckout, location.assign

\* Mutant of MaySubmit: the button is not disabled.
MaySubmitAnytime == On("landing")

MaySubmit == On("landing") /\ ~widget.submitting

\* The button comes back while the browser is still on its way to the checkout (heading).
Submit ==
    /\ MaySubmit
    /\ widget' = [widget EXCEPT !.pc = "ordering", !.submitting = TRUE, !.error = FALSE,
                                !.order = NoOrder]
    /\ hurried' = (hurried \/ widget.heading # NoOrder)
    /\ UNCHANGED <<page, card, orders, seenError, left>>

\* The API creates the order, pending_payment and with its numbers reserved.
ServeOrder ==
    /\ At("ordering")
    /\ \E o \in Orders :
          /\ Life!Create(o)
          /\ widget' = [widget EXCEPT !.pc = "ordered", !.order = o]
    /\ UNCHANGED <<page, card, history>>

\* Mutant of PreviewOrder: a preview that is there is kept.
PreviewFirstOrder ==
    /\ On("landing")
    /\ At("ordered")
    /\ widget' = [widget EXCEPT !.pc = "opening",
                                !.preview = IF @ = NoOrder THEN widget.order ELSE @]
    /\ UNCHANGED <<page, card, orders, history>>

PreviewOrder ==
    /\ On("landing")
    /\ At("ordered")
    /\ widget' = [widget EXCEPT !.pc = "opening", !.preview = widget.order]
    /\ UNCHANGED <<page, card, orders, history>>

\* createCheckout of an order that is still payable records a payment.
ServeCheckout ==
    /\ At("opening")
    /\ Life!OpenCheckout(widget.order)
    /\ widget' = [widget EXCEPT !.pc = "opened"]
    /\ UNCHANGED <<page, card, history>>

\* location.assign starts the navigation and returns; finally enables the button.
Assign ==
    /\ On("landing")
    /\ At("opened")
    /\ widget' = [widget EXCEPT !.pc = "idle", !.submitting = FALSE, !.heading = widget.order]
    /\ UNCHANGED <<page, card, orders, history>>

\* A call of handleSubmit fails: the API refuses it, it does not arrive, or its answer does not.
SubmitFails ==
    /\ On("landing")
    /\ widget.pc \in {"ordering", "ordered", "opening", "opened"}
    /\ widget' = [widget EXCEPT !.pc = "idle", !.submitting = FALSE, !.error = TRUE]
    /\ seenError' = TRUE
    /\ UNCHANGED <<page, card, orders, hurried, left>>

\* The browser gets to the checkout it was sent to, whatever the page is doing.
Navigate ==
    /\ On("landing")
    /\ widget.heading # NoOrder
    /\ page' = [name |-> "wompi", order |-> widget.heading]
    /\ left' = (left \/ ~At("idle"))
    /\ UNCHANGED <<widget, card, orders, seenError, hurried>>

\* The buyer comes back to the landing page: loaded anew, or as it was left where it was idle.
GoBack ==
    /\ page.name \in {"wompi", "thanks"}
    /\ page' = [name |-> "landing", order |-> NoOrder]
    /\ card' = NoCard
    /\ \/ widget' = NewWidget
       \/ At("idle") /\ widget' = [widget EXCEPT !.heading = NoOrder]
    /\ UNCHANGED <<orders, history>>

\* The tab is closed.
Close ==
    /\ ~On("closed")
    /\ page' = [name |-> "closed", order |-> NoOrder]
    /\ card' = NoCard
    /\ left' = TRUE
    /\ UNCHANGED <<widget, orders, seenError, hurried>>

-------------------------------------------------------------------------------
\* OrderStatusCard

\* gracias.astro reads the order from the query of the request it is rendered for.
OrderOfPage(o) == IF Rendered = "request" THEN o ELSE NoOrder

\* Wompi sends the buyer to redirect-url; the card mounts and polls, if it knows an order.
Return ==
    /\ On("wompi")
    /\ page' = [page EXCEPT !.name = "thanks"]
    /\ card' = [NoCard EXCEPT !.order = OrderOfPage(page.order),
                              !.pc = IF OrderOfPage(page.order) = NoOrder THEN "off" ELSE "fetching"]
    /\ UNCHANGED <<widget, orders, history>>

\* findPublicStatusByIdOrThrow gives the numbers of paid orders only.
NumbersOf(status) == status = "paid"

ServeStatus ==
    /\ CardAt("fetching")
    /\ card' = [card EXCEPT !.pc = "fetched", !.got = order[card.order]]
    /\ UNCHANGED <<page, widget, orders, history>>

\* Mutant of Show: the timer is armed after the first answer only.
ShowOnce ==
    /\ CardAt("fetched")
    /\ card' = [card EXCEPT !.pc = IF card.shown # "nothing" THEN "stopped" ELSE "waiting",
                            !.shown = card.got, !.numbers = NumbersOf(card.got),
                            !.got = "nothing"]
    /\ UNCHANGED <<page, widget, orders, history>>

\* The answer is shown, and a status that is not final is asked for again.
Show ==
    /\ CardAt("fetched")
    /\ card' = [card EXCEPT !.pc = IF card.got \in Final THEN "stopped" ELSE "waiting",
                            !.shown = card.got, !.numbers = NumbersOf(card.got),
                            !.got = "nothing"]
    /\ UNCHANGED <<page, widget, orders, history>>

\* Eight seconds later.
PollAgain ==
    /\ CardAt("waiting")
    /\ card' = [card EXCEPT !.pc = "fetching"]
    /\ UNCHANGED <<page, widget, orders, history>>

\* One answer that fails ends the poll: catch arms no timer.
PollFails ==
    /\ card.pc \in {"fetching", "fetched"}
    /\ card' = [card EXCEPT !.pc = "stopped", !.error = TRUE, !.got = "nothing"]
    /\ UNCHANGED <<page, widget, orders, history>>

-------------------------------------------------------------------------------
\* Mutant of Settle: a webhook finds the order without a payment of it.
SettleUnasked(o) ==
    /\ Life!Settle(o) \/ (order[o] = "pending_payment" /\ saving' = saving \cup {o}
                            /\ UNCHANGED <<order, checkouts>>)
    /\ UNCHANGED <<page, widget, card, history>>

\* Webhooks and sweepers change orders, as OrderLife lets them.
Settle(o) ==
    /\ Life!Settle(o)
    /\ UNCHANGED <<page, widget, card, history>>

Buy == Submit \/ ServeOrder \/ PreviewOrder \/ ServeCheckout \/ Assign \/ SubmitFails \/ Navigate
Poll == ServeStatus \/ Show \/ PollAgain \/ PollFails

Next == Buy \/ Return \/ GoBack \/ Close \/ Poll \/ \E o \in Orders : Settle(o)

\* The poll's fetch ends, one way or the other, and its timer fires.
Spec == Init /\ [][Next]_vars /\ WF_vars(Poll)

-------------------------------------------------------------------------------
OrderStatuses == Final \cup {"pending_payment"}

Pages == [name : {"landing", "wompi", "thanks", "closed"}, order : Orders \cup {NoOrder}]
Widgets ==
    [pc : {"idle", "ordering", "ordered", "opening", "opened"}, submitting : BOOLEAN,
     order : Orders \cup {NoOrder}, preview : Orders \cup {NoOrder},
     heading : Orders \cup {NoOrder}, error : BOOLEAN]
Cards ==
    [pc : {"off", "fetching", "fetched", "waiting", "stopped"}, order : Orders \cup {NoOrder},
     shown : OrderStatuses \cup {"nothing"}, numbers : BOOLEAN, error : BOOLEAN,
     got : OrderStatuses \cup {"nothing"}]

TypeOK ==
    /\ page \in Pages
    /\ widget \in Widgets
    /\ card \in Cards
    /\ {seenError, hurried, left} \subseteq BOOLEAN
    /\ order \in [Orders -> OrderStatuses \cup {"absent"}]
    /\ checkouts \subseteq {o \in Orders : order[o] # "absent"}
    /\ {o \in Orders : order[o] \in {"paid", "failed"}} \subseteq checkouts
    /\ saving \subseteq checkouts

\* The numbers previewed on the way to a checkout are those of the order that is paid for there,
\* after failed attempts and returns as well; a form submitted once more during the navigation
\* is the exception.
PaysForThePreview ==
    widget.heading # NoOrder /\ ~hurried => widget.preview = widget.heading

\* Numbers are not reserved behind the buyer's back: while the page has shown no error, was not
\* left in mid-submission and not hurried, every order made has a checkout or is about to.
NoForgottenReservation ==
    \/ seenError \/ hurried \/ left
    \/ \A o \in Orders : order[o] # "absent" =>
           o \in checkouts \/ (o = widget.order /\ widget.pc \in {"ordered", "opening"})

\* "Si el pago ya fue aprobado, esta pantalla mostrara tus boletas [...] el polling se encargara
\* de refrescar el estado": a buyer who stays on the page sees the numbers of a paid order,
\* unless a call of the poll fails or the order was closed before it was paid.
PaidOrdersAreShown ==
    On("thanks") /\ order[page.order] = "paid" ~>
        \/ ~On("thanks") \/ card.numbers
        \/ card.error \/ order[page.order] # "paid" \/ card.shown \in {"failed", "expired"}
===============================================================================
