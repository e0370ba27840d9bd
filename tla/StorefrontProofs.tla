--------------------------- MODULE StorefrontProofs ---------------------------
(***************************************************************************)
(* Proofs about Storefront for every set of orders, whenever its pages are *)
(* rendered.                                                               *)
(***************************************************************************)
EXTENDS Storefront, TLAPS

-------------------------------------------------------------------------------
\* Types

\* Every order the browser deals with was made, and one it was sent to pay, or follows, has a
\* checkout.
OrdersAreKnown ==
    /\ widget.pc \in {"ordered", "opening", "opened"} => widget.order \in Orders
    /\ widget.pc = "opened" => widget.order \in checkouts
    /\ {widget.heading, page.order, card.order} \subseteq checkouts \cup {NoOrder}
    /\ card.pc \in {"fetching", "fetched", "waiting"} => card.order \in checkouts

TypeInv == TypeOK /\ OrdersAreKnown

LEMMA InitTypeInv == Init => TypeInv
<1> SUFFICES ASSUME Init PROVE TypeInv
  OBVIOUS
<1>1. page \in Pages /\ widget \in Widgets /\ card \in Cards
  BY DEF Init, Pages, Widgets, Cards, NewWidget, NoCard
<1>2. order \in [Orders -> OrderStatuses \cup {"absent"}]
  BY DEF Init, Life!Init
<1>3. /\ checkouts \subseteq {o \in Orders : order[o] # "absent"}
      /\ {o \in Orders : order[o] \in {"paid", "failed"}} \subseteq checkouts
      /\ saving \subseteq checkouts
      /\ {seenError, hurried, left} \subseteq BOOLEAN
  BY DEF Init, Life!Init
<1>4. OrdersAreKnown
  BY DEF Init, Life!Init, OrdersAreKnown, NewWidget, NoCard
<1> QED
  BY <1>1, <1>2, <1>3, <1>4 DEF TypeInv, TypeOK

\* What goes on without the buyer makes no order and opens no checkout, and only an order with
\* a checkout gets to paid or failed.
LEMMA SettleLemma ==
    ASSUME TypeOK, NEW o \in Orders, Life!Settle(o)
    PROVE  /\ order' \in [Orders -> OrderStatuses \cup {"absent"}]
           /\ checkouts' = checkouts /\ saving' \subseteq checkouts
           /\ \A e \in Orders : order'[e] = "absent" <=> order[e] = "absent"
           /\ {e \in Orders : order'[e] \in {"paid", "failed"}} \subseteq checkouts
<1>0. /\ order \in [Orders -> OrderStatuses \cup {"absent"}]
      /\ checkouts \subseteq {e \in Orders : order[e] # "absent"}
      /\ {e \in Orders : order[e] \in {"paid", "failed"}} \subseteq checkouts
      /\ saving \subseteq checkouts
  BY DEF TypeOK
<1>1. CASE Life!Expire(o)
  <2>1. /\ order[o] = "pending_payment" /\ order' = [order EXCEPT ![o] = "expired"]
        /\ checkouts' = checkouts /\ saving' = saving
    BY <1>1 DEF Life!Expire, Life!Become
  <2> QED
    BY <1>0, <2>1 DEF OrderStatuses, Final
<1>2. CASE Life!Save(o)
  <2>1. PICK status \in {"paid", "failed"} : order' = [order EXCEPT ![o] = status]
    BY <1>2 DEF Life!Save, Life!Become
  <2>2. o \in checkouts /\ order[o] # "absent" /\ checkouts' = checkouts /\ saving' \subseteq saving
    BY <1>0, <1>2 DEF Life!Save
  <2>3. status \in OrderStatuses /\ status # "absent"
    BY <2>1 DEF OrderStatuses, Final
  <2>4. \A e \in Orders : order'[e] = IF e = o THEN status ELSE order[e]
    BY <1>0, <2>1
  <2>5. order' \in [Orders -> OrderStatuses \cup {"absent"}]
    BY <1>0, <2>1, <2>3
  <2> QED
    BY <1>0, <2>2, <2>3, <2>4, <2>5
<1>3. CASE Life!Load(o) \/ Life!GiveUp(o)
  <2>1. UNCHANGED <<order, checkouts>> /\ saving' \subseteq checkouts
    BY <1>0, <1>3 DEF Life!Load, Life!GiveUp
  <2> QED
    BY <1>0, <2>1
<1> QED
  BY <1>1, <1>2, <1>3 DEF Life!Settle

\* Each step keeps the state well typed.
LEMMA StepTypeInv == TypeInv /\ [Next]_vars => TypeInv'
<1> SUFFICES ASSUME TypeInv, [Next]_vars
             PROVE  TypeInv'
  OBVIOUS
<1> USE DEF TypeInv, orders
<1>a. /\ page \in Pages /\ widget \in Widgets /\ card \in Cards
      /\ order \in [Orders -> OrderStatuses \cup {"absent"}]
      /\ checkouts \subseteq Orders
  BY DEF TypeOK
<1>b. ASSUME page' \in Pages, widget' \in Widgets, card' \in Cards,
             UNCHANGED <<order, checkouts, saving>>, {seenError, hurried, left}' \subseteq BOOLEAN
      PROVE  TypeOK'
  BY <1>b DEF TypeOK
<1>1. CASE UNCHANGED vars
  BY <1>1 DEF vars, TypeOK, OrdersAreKnown
<1>2. CASE Submit
  <2>1. /\ widget' \in Widgets
        /\ widget'.pc = "ordering" /\ widget'.heading = widget.heading
    BY <1>2, <1>a DEF Submit, Widgets
  <2>2. UNCHANGED <<page, card, order, checkouts, saving, seenError, left>> /\ hurried' \in BOOLEAN
    BY <1>2 DEF Submit, TypeOK
  <2>3. {seenError, hurried, left}' \subseteq BOOLEAN
    BY <2>2 DEF TypeOK
  <2> QED
    BY <1>a, <1>b, <2>1, <2>2, <2>3 DEF OrdersAreKnown
<1>3. CASE ServeOrder
  <2>1. PICK o \in Orders :
          /\ order[o] = "absent"
          /\ order' = [order EXCEPT ![o] = "pending_payment"]
          /\ widget' = [widget EXCEPT !.pc = "ordered", !.order = o]
    BY <1>3 DEF ServeOrder, Life!Create, Life!Become
  <2>2. /\ widget' \in Widgets
        /\ widget'.pc = "ordered" /\ widget'.order = o /\ widget'.heading = widget.heading
    BY <1>a, <2>1 DEF Widgets
  <2>3. UNCHANGED <<page, card, checkouts, saving, seenError, hurried, left>>
    BY <1>3 DEF ServeOrder, Life!Create, history
  <2>4. /\ order' \in [Orders -> OrderStatuses \cup {"absent"}]
        /\ \A e \in Orders : e # o => order'[e] = order[e]
        /\ order'[o] = "pending_payment"
    BY <1>a, <2>1 DEF OrderStatuses
  <2>5. TypeOK'
    BY <1>a, <2>2, <2>3, <2>4 DEF TypeOK
  <2> QED
    BY <2>2, <2>3, <2>5 DEF OrdersAreKnown
<1>4. CASE PreviewOrder
  <2>1. /\ widget' \in Widgets
        /\ widget'.pc = "opening" /\ widget'.order = widget.order
        /\ widget'.heading = widget.heading
    BY <1>4, <1>a DEF PreviewOrder, Widgets
  <2>2. UNCHANGED <<page, card, order, checkouts, saving, seenError, hurried, left>>
    BY <1>4 DEF PreviewOrder, history
  <2>3. widget.order \in Orders
    BY <1>4 DEF PreviewOrder, At, OrdersAreKnown
  <2>4. TypeOK'
    BY <2>1, <2>2 DEF TypeOK
  <2> QED
    BY <2>1, <2>2, <2>3, <2>4 DEF OrdersAreKnown
<1>5. CASE ServeCheckout
  <2>1. widget.order \in Orders /\ order[widget.order] = "pending_payment"
    BY <1>5 DEF ServeCheckout, Life!OpenCheckout, At, OrdersAreKnown
  <2>2. /\ widget' \in Widgets
        /\ widget'.pc = "opened" /\ widget'.order = widget.order
        /\ widget'.heading = widget.heading
    BY <1>5, <1>a DEF ServeCheckout, Widgets
  <2>3. /\ checkouts' = checkouts \cup {widget.order}
        /\ UNCHANGED <<page, card, order, saving, seenError, hurried, left>>
    BY <1>5 DEF ServeCheckout, Life!OpenCheckout, history
  <2>4. TypeOK'
    BY <2>1, <2>2, <2>3 DEF TypeOK
  <2> QED
    BY <2>1, <2>2, <2>3, <2>4 DEF OrdersAreKnown
<1>6. CASE Assign
  <2>1. widget.order \in checkouts /\ widget.order \in Orders
    BY <1>6 DEF Assign, At, OrdersAreKnown
  <2>2. widget' \in Widgets /\ widget'.pc = "idle" /\ widget'.heading = widget.order
    BY <1>6, <1>a DEF Assign, Widgets
  <2>3. UNCHANGED <<page, card, order, checkouts, saving, seenError, hurried, left>>
    BY <1>6 DEF Assign, history
  <2>4. TypeOK'
    BY <2>2, <2>3 DEF TypeOK
  <2> QED
    BY <2>1, <2>2, <2>3, <2>4 DEF OrdersAreKnown
<1>7. CASE SubmitFails
  <2>1. widget' \in Widgets /\ widget'.pc = "idle" /\ widget'.heading = widget.heading
    BY <1>7, <1>a DEF SubmitFails, Widgets
  <2>2. UNCHANGED <<page, card, order, checkouts, saving, hurried, left>> /\ seenError' = TRUE
    BY <1>7 DEF SubmitFails
  <2>3. TypeOK'
    BY <2>1, <2>2 DEF TypeOK
  <2> QED
    BY <2>1, <2>2, <2>3 DEF OrdersAreKnown
<1>8. CASE Navigate
  <2>1. page' \in Pages /\ page'.order = widget.heading
    BY <1>8, <1>a DEF Navigate, Pages, Widgets
  <2>2. UNCHANGED <<widget, card, order, checkouts, saving, seenError, hurried>> /\ left' \in BOOLEAN
    BY <1>8 DEF Navigate, TypeOK
  <2>3. {seenError, hurried, left}' \subseteq BOOLEAN
    BY <2>2 DEF TypeOK
  <2>4. TypeOK'
    BY <2>1, <2>2, <2>3 DEF TypeOK
  <2> QED
    BY <2>1, <2>2, <2>4 DEF OrdersAreKnown
<1>9. CASE GoBack
  <2>1. page' \in Pages /\ page'.order = NoOrder
    BY <1>9 DEF GoBack, Pages
  <2>2. card' \in Cards /\ card'.order = NoOrder /\ card'.pc = "off"
    BY <1>9 DEF GoBack, Cards, NoCard
  <2>3. widget' \in Widgets /\ widget'.heading = NoOrder /\ widget'.pc = "idle"
    <3>1. CASE widget' = NewWidget
      BY <3>1 DEF NewWidget, Widgets
    <3>2. CASE At("idle") /\ widget' = [widget EXCEPT !.heading = NoOrder]
      BY <3>2, <1>a DEF Widgets, At
    <3> QED
      BY <1>9, <3>1, <3>2 DEF GoBack
  <2>4. UNCHANGED <<order, checkouts, saving, seenError, hurried, left>>
    BY <1>9 DEF GoBack, history
  <2>5. TypeOK'
    BY <2>1, <2>2, <2>3, <2>4 DEF TypeOK
  <2> QED
    BY <2>1, <2>2, <2>3, <2>5 DEF OrdersAreKnown
<1>10. CASE Close
  <2>1. page' \in Pages /\ page'.order = NoOrder
    BY <1>10 DEF Close, Pages
  <2>2. card' \in Cards /\ card'.order = NoOrder /\ card'.pc = "off"
    BY <1>10 DEF Close, Cards, NoCard
  <2>3. UNCHANGED <<widget, order, checkouts, saving, seenError, hurried>> /\ left' = TRUE
    BY <1>10 DEF Close
  <2>4. TypeOK'
    BY <2>1, <2>2, <2>3 DEF TypeOK
  <2> QED
    BY <2>1, <2>2, <2>3, <2>4 DEF OrdersAreKnown
<1>11. CASE Return
  <2>1. page' \in Pages /\ page'.order = page.order
    BY <1>11, <1>a DEF Return, Pages
  <2>2. OrderOfPage(page.order) \in {page.order, NoOrder}
    BY DEF OrderOfPage
  <2>3. /\ card' \in Cards /\ card'.order = OrderOfPage(page.order)
        /\ card'.pc = IF OrderOfPage(page.order) = NoOrder THEN "off" ELSE "fetching"
    BY <1>11, <1>a, <2>2 DEF Return, NoCard, Cards, Pages
  <2>4. UNCHANGED <<widget, order, checkouts, saving, seenError, hurried, left>>
    BY <1>11 DEF Return, history
  <2>5. TypeOK'
    BY <2>1, <2>3, <2>4 DEF TypeOK
  <2> QED
    BY <2>1, <2>2, <2>3, <2>4, <2>5 DEF OrdersAreKnown
<1>12. CASE Poll
  <2>1. /\ card' \in Cards /\ card'.order = card.order
        /\ card.pc \in {"fetching", "fetched", "waiting"}
    <3>1. CASE ServeStatus
      <4>1. card.order \in checkouts
        BY <3>1 DEF ServeStatus, CardAt, OrdersAreKnown
      <4>2. order[card.order] \in OrderStatuses
        BY <4>1, <1>a DEF TypeOK
      <4> QED
        BY <3>1, <4>2, <1>a DEF ServeStatus, CardAt, Cards
    <3>2. CASE Show
      <4>1. NumbersOf(card.got) \in BOOLEAN
        BY DEF NumbersOf
      <4> QED
        BY <3>2, <4>1, <1>a DEF Show, CardAt, Cards
    <3>3. CASE PollAgain \/ PollFails
      BY <3>3, <1>a DEF PollAgain, PollFails, CardAt, Cards
    <3> QED
      BY <1>12, <3>1, <3>2, <3>3 DEF Poll
  <2>2. UNCHANGED <<page, widget, order, checkouts, saving, seenError, hurried, left>>
    BY <1>12 DEF Poll, ServeStatus, Show, PollAgain, PollFails, history
  <2>3. TypeOK'
    BY <2>1, <2>2 DEF TypeOK
  <2> QED
    BY <2>1, <2>2, <2>3 DEF OrdersAreKnown
<1>13. ASSUME NEW o \in Orders, Settle(o) PROVE TypeInv'
  <2>1. UNCHANGED <<page, widget, card, seenError, hurried, left>>
    BY <1>13 DEF Settle, history
  <2>2. /\ order' \in [Orders -> OrderStatuses \cup {"absent"}]
        /\ checkouts' = checkouts /\ saving' \subseteq checkouts
        /\ \A e \in Orders : order'[e] = "absent" <=> order[e] = "absent"
        /\ {e \in Orders : order'[e] \in {"paid", "failed"}} \subseteq checkouts
    BY <1>13, SettleLemma DEF Settle
  <2>3. TypeOK'
    BY <2>1, <2>2 DEF TypeOK
  <2> QED
    BY <2>1, <2>2, <2>3 DEF OrdersAreKnown
<1> QED
  BY <1>1, <1>2, <1>3, <1>4, <1>5, <1>6, <1>7, <1>8, <1>9, <1>10, <1>11, <1>12, <1>13
  DEF Next, Buy

\* Page, widget, card and orders keep their shape, a payment belongs to an order that was made,
\* and only orders with a payment are paid or refused.
THEOREM TypeCorrect == Spec => []TypeOK
<1>1. TypeInv => TypeOK
  BY DEF TypeInv
<1> QED
  BY <1>1, InitTypeInv, StepTypeInv, PTL DEF Spec

-------------------------------------------------------------------------------
\* What is previewed is what is paid for.

\* The preview follows the order of the submission in flight; between its end and the navigation
\* to the checkout no other submission has begun, or the buyer has hurried.
PreviewFollows ==
    /\ widget.submitting = (widget.pc # "idle")
    /\ widget.pc \in {"opening", "opened"} => widget.preview = widget.order
    /\ widget.heading # NoOrder /\ ~hurried => widget.pc = "idle" /\ widget.preview = widget.heading

LEMMA InitPreview == ASSUME Init PROVE PreviewFollows
<1>1. widget.submitting = FALSE /\ widget.pc = "idle" /\ widget.heading = NoOrder
  BY DEF Init, NewWidget
<1> QED
  BY <1>1 DEF PreviewFollows

LEMMA StepPreview == TypeInv /\ PreviewFollows /\ [Next]_vars => PreviewFollows'
<1> SUFFICES ASSUME TypeInv, PreviewFollows, [Next]_vars
             PROVE  PreviewFollows'
  OBVIOUS
<1>a. widget \in Widgets
  BY DEF TypeInv, TypeOK
<1>1. CASE UNCHANGED <<widget, hurried>>
  BY <1>1 DEF PreviewFollows
<1>2. CASE Submit
  <2>1. /\ widget'.pc = "ordering" /\ widget'.submitting = TRUE
        /\ widget'.heading = widget.heading
        /\ hurried' = (hurried \/ widget.heading # NoOrder)
    BY <1>2, <1>a DEF Submit, Widgets
  <2> QED
    BY <2>1 DEF PreviewFollows
<1>3. CASE ServeOrder
  <2>1. /\ widget.pc = "ordering" /\ widget'.pc = "ordered"
        /\ widget'.submitting = widget.submitting
        /\ widget'.heading = widget.heading /\ UNCHANGED hurried
    BY <1>3, <1>a DEF ServeOrder, At, Widgets, history
  <2> QED
    BY <2>1 DEF PreviewFollows
<1>4. CASE PreviewOrder
  <2>1. /\ widget.pc = "ordered" /\ widget'.pc = "opening"
        /\ widget'.submitting = widget.submitting
        /\ widget'.preview = widget.order /\ widget'.order = widget.order
        /\ widget'.heading = widget.heading /\ UNCHANGED hurried
    BY <1>4, <1>a DEF PreviewOrder, At, Widgets, history
  <2> QED
    BY <2>1 DEF PreviewFollows
<1>5. CASE ServeCheckout
  <2>1. /\ widget.pc = "opening" /\ widget'.pc = "opened"
        /\ widget'.submitting = widget.submitting
        /\ widget'.preview = widget.preview /\ widget'.order = widget.order
        /\ widget'.heading = widget.heading /\ UNCHANGED hurried
    BY <1>5, <1>a DEF ServeCheckout, At, Widgets, history
  <2> QED
    BY <2>1 DEF PreviewFollows
<1>6. CASE Assign
  <2>1. /\ widget.pc = "opened" /\ widget'.pc = "idle" /\ widget'.submitting = FALSE
        /\ widget'.preview = widget.preview /\ widget'.heading = widget.order
    BY <1>6, <1>a DEF Assign, At, Widgets
  <2> QED
    BY <2>1 DEF PreviewFollows
<1>7. CASE SubmitFails
  <2>1. /\ widget.pc # "idle" /\ widget'.pc = "idle" /\ widget'.submitting = FALSE
        /\ widget'.heading = widget.heading /\ UNCHANGED hurried
    BY <1>7, <1>a DEF SubmitFails, Widgets
  <2> QED
    BY <2>1 DEF PreviewFollows
<1>8. CASE GoBack
  <2>1. /\ widget'.pc = "idle" /\ widget'.submitting = FALSE /\ widget'.heading = NoOrder
    <3>1. CASE widget' = NewWidget
      BY <3>1 DEF NewWidget
    <3>2. CASE At("idle") /\ widget' = [widget EXCEPT !.heading = NoOrder]
      BY <3>2, <1>a DEF Widgets, At, PreviewFollows
    <3> QED
      BY <1>8, <3>1, <3>2 DEF GoBack
  <2> QED
    BY <2>1 DEF PreviewFollows
<1> QED
  BY <1>1, <1>2, <1>3, <1>4, <1>5, <1>6, <1>7, <1>8
  DEF Next, Buy, Poll, vars, history, Navigate, Close, Return, ServeStatus, Show, PollAgain,
      PollFails, Settle

\* After any number of failed attempts and returns, the buyer pays for the numbers previewed.
THEOREM PreviewIsPaidFor == Spec => []PaysForThePreview
<1>1. Init => PreviewFollows
  BY InitPreview
<1>2. PreviewFollows => PaysForThePreview
  BY DEF PreviewFollows, PaysForThePreview
<1> QED
  BY <1>1, <1>2, InitTypeInv, StepTypeInv, StepPreview, PTL DEF Spec

-------------------------------------------------------------------------------
\* No reservation is forgotten.

Excused == seenError \/ hurried \/ left

\* A browser that is not excused has left the landing page only with its submission over.
NothingForgotten ==
    \/ Excused
    \/ /\ ~On("landing") => widget.pc = "idle"
       /\ \A o \in Orders : order[o] # "absent" =>
            o \in checkouts \/ (o = widget.order /\ widget.pc \in {"ordered", "opening"})

LEMMA ExcusesStay == ASSUME [Next]_vars, Excused PROVE Excused'
<1>1. CASE Submit
  BY <1>1 DEF Submit, Excused
<1>2. CASE SubmitFails \/ Close
  BY <1>2 DEF SubmitFails, Close, Excused
<1>3. CASE Navigate
  BY <1>3 DEF Navigate, Excused
<1>4. CASE UNCHANGED history
  BY <1>4 DEF history, Excused
<1> QED
  BY <1>1, <1>2, <1>3, <1>4
  DEF Next, Buy, Poll, vars, history, ServeOrder, PreviewOrder, ServeCheckout, Assign, GoBack,
      Return, ServeStatus, Show, PollAgain, PollFails, Settle

LEMMA StepForgotten ==
    TypeInv /\ PreviewFollows /\ NothingForgotten /\ [Next]_vars => NothingForgotten'
<1> SUFFICES ASSUME TypeInv, PreviewFollows, NothingForgotten, [Next]_vars, ~Excused, ~Excused'
             PROVE  NothingForgotten'
  BY ExcusesStay DEF NothingForgotten
<1> USE DEF orders
<1>a. /\ widget \in Widgets /\ page \in Pages /\ checkouts \subseteq Orders
      /\ order \in [Orders -> OrderStatuses \cup {"absent"}]
  BY DEF TypeInv, TypeOK
<1>b. /\ ~On("landing") => widget.pc = "idle"
      /\ \A o \in Orders : order[o] # "absent" =>
           o \in checkouts \/ (o = widget.order /\ widget.pc \in {"ordered", "opening"})
  BY DEF NothingForgotten
<1>1. CASE UNCHANGED <<widget, order, checkouts, page>>
  BY <1>1, <1>b DEF NothingForgotten, On
<1>2. CASE Submit
  <2>1. widget.pc = "idle" /\ On("landing")
    BY <1>2 DEF Submit, MaySubmit, PreviewFollows
  <2>2. UNCHANGED <<page, order, checkouts>>
    BY <1>2 DEF Submit
  <2> QED
    BY <1>b, <2>1, <2>2 DEF NothingForgotten, On
<1>3. CASE ServeOrder
  <2>1. PICK o \in Orders :
          /\ order[o] = "absent"
          /\ order' = [order EXCEPT ![o] = "pending_payment"]
          /\ widget' = [widget EXCEPT !.pc = "ordered", !.order = o]
    BY <1>3 DEF ServeOrder, Life!Create, Life!Become
  <2>2. widget.pc = "ordering" /\ UNCHANGED <<page, checkouts>>
    BY <1>3 DEF ServeOrder, Life!Create, At
  <2>3. \A e \in Orders : order[e] # "absent" => e \in checkouts
    BY <1>b, <2>2
  <2>4. widget'.pc = "ordered" /\ widget'.order = o
    BY <1>a, <2>1 DEF Widgets
  <2>5. \A e \in Orders : order'[e] # "absent" => e = o \/ e \in checkouts
    BY <1>a, <2>1, <2>3
  <2> QED
    BY <1>b, <2>2, <2>4, <2>5 DEF NothingForgotten, On
<1>4. CASE PreviewOrder
  <2>1. /\ widget.pc = "ordered" /\ widget'.pc = "opening" /\ widget'.order = widget.order
        /\ On("landing") /\ UNCHANGED <<page, order, checkouts>>
    BY <1>4, <1>a DEF PreviewOrder, At, Widgets
  <2> QED
    BY <1>b, <2>1 DEF NothingForgotten, On
<1>5. CASE ServeCheckout
  <2>1. /\ widget.pc = "opening" /\ widget'.pc = "opened"
        /\ checkouts' = checkouts \cup {widget.order} /\ UNCHANGED <<page, order>>
    BY <1>5, <1>a DEF ServeCheckout, Life!OpenCheckout, At, Widgets
  <2> QED
    BY <1>b, <2>1 DEF NothingForgotten, On
<1>6. CASE Assign
  <2>1. widget.pc = "opened" /\ widget'.pc = "idle" /\ UNCHANGED <<page, order, checkouts>>
    BY <1>6, <1>a DEF Assign, At, Widgets
  <2> QED
    BY <1>b, <2>1 DEF NothingForgotten, On
<1>7. CASE SubmitFails
  BY <1>7 DEF SubmitFails, Excused
<1>8. CASE Navigate
  <2>1. widget.pc = "idle" /\ UNCHANGED <<widget, order, checkouts>>
    BY <1>8 DEF Navigate, Excused, At
  <2> QED
    BY <1>b, <2>1 DEF NothingForgotten, On
<1>9. CASE GoBack
  <2>1. page.name # "landing" /\ page'.name = "landing" /\ UNCHANGED <<order, checkouts>>
    BY <1>9 DEF GoBack
  <2>2. \A o \in Orders : order[o] # "absent" => o \in checkouts
    BY <1>b, <2>1 DEF On
  <2> QED
    BY <2>1, <2>2 DEF NothingForgotten, On
<1>10. CASE Close
  BY <1>10 DEF Close, Excused
<1>11. CASE Return
  <2>1. /\ page.name = "wompi" /\ UNCHANGED <<widget, order, checkouts>>
    BY <1>11 DEF Return, On
  <2> QED
    BY <1>b, <2>1 DEF NothingForgotten, On
<1>12. CASE Poll
  BY <1>1, <1>12 DEF Poll, ServeStatus, Show, PollAgain, PollFails
<1>13. ASSUME NEW o \in Orders, Settle(o) PROVE NothingForgotten'
  <2>1. checkouts' = checkouts /\ \A e \in Orders : order'[e] = "absent" <=> order[e] = "absent"
    BY <1>13, SettleLemma DEF Settle, TypeInv
  <2>2. UNCHANGED <<page, widget>>
    BY <1>13 DEF Settle
  <2> QED
    BY <1>b, <2>1, <2>2 DEF NothingForgotten, On
<1> QED
  BY <1>1, <1>2, <1>3, <1>4, <1>5, <1>6, <1>7, <1>8, <1>9, <1>10, <1>11, <1>12, <1>13
  DEF Next, Buy, vars

\* While the page has shown no error and the buyer neither hurries nor leaves halfway, every
\* order made has a checkout or is about to.
THEOREM ReservationsAreFollowedUp == Spec => []NoForgottenReservation
<1>1. ASSUME Init PROVE PreviewFollows /\ NothingForgotten
  <2>1. page.name = "landing" /\ \A o \in Orders : order[o] = "absent"
    BY <1>1 DEF Init, Life!Init
  <2> QED
    BY <1>1, <2>1, InitPreview DEF NothingForgotten, On
<1>2. NothingForgotten => NoForgottenReservation
  BY DEF NothingForgotten, NoForgottenReservation, Excused
<1> QED
  BY <1>1, <1>2, InitTypeInv, StepTypeInv, StepPreview, StepForgotten, PTL DEF Spec
===============================================================================
