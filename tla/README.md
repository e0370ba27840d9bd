# Rifaria, specified

TLA+ specifications of the Rifaria monorepo: a raffle whose four-digit numbers
are reserved, paid for through Wompi, and drawn for several prizes. The modules
translate the services of `apps/api`, the processors of `apps/worker` and the
parts of `apps/web` that keep state; TLC checks them on small instances and
TLAPS proves the invariants that matter most for every instance. Paths below are
relative to the repository.

## 1. The system

All lasting state is in MongoDB (collections raffles, orders, tickets, payments,
prizedraws, users, auditlogs); Redis holds the two BullMQ queues. The API is a
NestJS process, the worker another; both may run in several copies. The web site
is static HTML with React components in the browser. Handlers are `async`:
between two `await`s of one handler any other handler, in any process, may run,
and the process may die. One handler uses a MongoDB transaction (`createOrder`);
every other one is a sequence of single-document statements and
`updateMany`/`deleteMany`.

| component | state | operations | talks to |
|---|---|---|---|
| Orders (`orders.service.ts`) | orders: status, ticketNumbers, paymentId, expiresAt, emailDeliveryStatus | createOrder, markPaid, markFailed, markEmail*, expirePendingOrders | raffles (capacity), tickets (reserve, release) |
| Tickets (`tickets.service.ts`) | tickets, unique on (raffle, number): status, orderId, wonPrizeDrawId | reserve, assign, release, list, count, find eligible winner, mark winner | |
| Wompi payments (`payments-wompi.service.ts`) | payments: status | createCheckout, handleWebhook | orders, tickets, raffles (soldTickets), notifications |
| Reservation release (maintenance endpoint, `tickets.processor.ts`) | the list one run found | the same sweep in the API (cron every 5 min) and in the worker (every minute) | orders, tickets |
| Draw settlement (`draws.service.ts`) | | settleDraw, postponeRaffle | prize draws, tickets, raffles, notifications |
| Prize draws (`prize-draws.service.ts`) | prizedraws: status, winner, position, slug, isMajorPrize | ensureInitialMajorPrize, create, update, reorder, cancel, markAsSettled | |
| Raffles (`raffles.service.ts`) | raffles: status, soldTickets, drawAt, postponements | updateRaffle, postponeRaffle, setSoldTickets, the public campaign page | prize draws |
| Notifications (API and worker) | queue jobs; emailDeliveryStatus of an order | sendTicketEmail, notifyPostponement and their two jobs, inline or queued | orders, email provider |
| Admin API (`admin.service.ts`, `auth.service.ts`) | access tokens | dashboard, inventory, updateRaffle, create/update/reorder of draws; login, roles | raffles, prize draws, tickets |
| Web: purchase and order status (`PurchaseWidget.tsx`, `OrderStatusCard.tsx`, `lib/api.ts`) | the form, the preview, the card and its timer | handleSubmit, the way to Wompi and back, the poll | orders, payments |
| Web: admin panel (`AdminPanel.tsx`) | token, loading, error, the data on the screen | login, create, settle, cancel, search, the reload after each | admin API |
| Shared domain (`packages/shared/src/domain`) | none | status tables, transition assertions | everybody |
| Audit, health, email templates, ticket numbers, environment validation, start-up and seed | audit log | see section 7 | |

What makes it hard:

* a decision is taken on what one statement read and carried out by a later
  one: the capacity check, `markPaid`/`markFailed` (read, assert, save), the
  count that becomes `soldTickets`, the eligible ticket of a draw, the count
  that becomes a draw's position, the title a slug is computed from;
* `assignTicketsForOrder` returns what its `find` saw, not what its
  `updateMany` changed;
* "at most one" is written as two statements (clear the other major prizes, then
  set this one; look for another selling raffle, then put this one on sale), and
  sometimes an index stands behind them and sometimes not;
* Wompi may deliver an event several times, at once and out of order, and a
  buyer may open a second payment after a refusal;
* sweeps of the API and the worker overlap with each other and with webhooks;
* a process can die between the two statements that expire an order and delete
  its tickets, or between marking a ticket and settling the draw; a job is
  retried from its first buyer;
* the API and the worker both write `emailDeliveryStatus`;
* the browser knows only the answers it got: a call may be executed and its
  answer lost, a page may be left while a call is out, a screen shows four reads
  made one after the other.

What makes it correct, per component:

* **tickets and orders**: a number has one holder, a sold number stays sold, an
  order's numbers move together and come back if it is not paid;
* **payments**: a paid order was paid by an approved payment of its own and owns
  the numbers it shows; replays change nothing; `soldTickets` never overstates;
* **release**: every pending order past its reservation is closed, nothing is
  stranded, a paid order is not expired;
* **settlement**: a draw shows only a sold ticket that has won, a ticket wins
  once and for good, both documents agree, settling twice is settling once;
* **notifications**: the recorded status tells what became of the email, nobody
  is forgotten, every job ends;
* **prize draws**: one major prize, a calendar that is never empty, positions
  within it, slugs that follow titles, a reordering that is what was asked;
* **raffles**: one selling campaign, a log of postponements without gaps or
  contradictions, every buyer told of the date that stands;
* **web site**: the buyer pays for the numbers previewed, reserves nothing
  unknowingly and sees what was bought; the administrator sees the change just
  made, an inventory that adds up, and buttons that come back.

## 2. Modules

| module | what it is |
|---|---|
| `Lifecycle` | order and payment statuses, the transition tables, `mapWompiStatus` |
| `Purchase` | orders, tickets, payments, `soldTickets` and the sweeps, one step per database statement |
| `TicketSale` | the abstract sale: take free numbers, buy them all, or give them all back |
| `TicketCounts` | the sale as three numbers: reserved tickets, assigned tickets, `soldTickets` |
| `OrderLife` | the statuses of an order, with the saves of webhooks on their way |
| `DrawLife` | the statuses of a prize draw, with the cancellations on their way |
| `PrizeSettlement` | settlement and cancellation of prize draws while the sale goes on |
| `PrizeDraws` | the calendar of prize draws: created by visits, created, edited and reordered by administrators |
| `Jobs` | a BullMQ job: attempts, retries, stalls (external) |
| `TicketEmail` | the ticket email in both modes, with its job, its retries and the delivery status |
| `Campaign` | status, date and postponements of campaigns, and the notice to the buyers |
| `AdminPanel` | one administrator's browser and the API underneath it |
| `Storefront` | one buyer's browser, from the form to the page that follows the order |
| `MCPurchase`, `MCPrizeSettlement`, `MCPrizeDraws`, `MCTicketEmail`, `MCCampaign` | the instances TLC checks (`AdminPanel` and `Storefront` need none) |
| `PurchaseProofs`, `PurchaseSafetyProofs`, `PrizeSettlementProofs`, `PrizeDrawsProofs`, `TicketEmailProofs`, `CampaignProofs`, `AdminPanelProofs`, `StorefrontProofs` | the theorems |

The modules meet at the documents they share. Where one takes from another more
than a constant fact, what it takes is a specification of its own, which the
neighbour is shown to implement and which the module then has as its
environment:

| specification | implemented by | used by |
|---|---|---|
| `TicketSale` | `Purchase` (`SaleSpec`) | the abstract view of the sale |
| `TicketCounts` | `Purchase` (`CountsSpec`) | `AdminPanel`, whose inventory counts while it goes on (`Sell`, `SetSoldTickets`) |
| `OrderLife` | `Purchase` (`LifeSpec`) | `Storefront`, whose card follows an order that lives by it (`ServeOrder`, `ServeCheckout`, `Settle`) |
| `DrawLife` | `PrizeSettlement` (`LifeSpec`) | `AdminPanel`, beside administrators who do what it allows (`Elsewhere`); the panel's own requests are shown to add nothing to it (`LivesSpec`) |

Each implementation is a `PROPERTY` of a run (`LivesSpec`: of the configuration
`AdminPanel_oversold`) and a theorem of section 4, so the
environment of the web site is what the API does, not what a page might hope for:
more tickets than the raffle has, a paid order that fails, a drawn draw that is
cancelled all the same. The statuses on their way (`saving`, `cancelling`) are part of
these specifications because the code writes what it decided on an older read; an
abstract view without them would promise too much. `PrizeSettlement` has a sale that
only adds assigned tickets (theorem `AssignedForever`); `AdminPanel` takes as one step
the creations and settlements that `PrizeDraws` and `PrizeSettlement` split;
`TicketEmail` and `Campaign` share the jobs of `Jobs`.

### How the modules follow the code

**Processes.** A handler in flight is a record with a `pc` and the values it
has read and will use again; each action is one statement and the code up to
the next `await`. In `Purchase`, `request[o]` is `createOrder`, `payments[p]`
goes through `createCheckout`, `hook[h]` is `handleWebhook` with everything it
calls (`handleApprovedStatus`, `assignTicketsForOrder`, `markPaid`,
`setSoldTickets`, `sendTicketEmail`, `markFailed`), and `sweep[s]` is one run of
the release. `PrizeSettlement` has `admin[a]`; `TicketEmail` has `call[c]` (the
API) and `job[c]` (the worker); `PrizeDraws` has `visit[v]` (a request that
lists the calendar and creates the first draw when there is none) and
`request[r]` (create, update, reorder); `Campaign` has `request[r]`
(updateRaffle, postponeRaffle) and `notice[r]` (the loop over the buyers, which
API and worker share). An early return or an exception is a step to `idle`, or
to a final place.

**Documents.** `tickets` is a function of the number, because the unique index
makes the number the key; a deleted or never created document is `Free`. An
owner is a set of at most one order, so that the abstract module needs no
special value. `due` is the set of orders whose `expiresAt` has passed; nothing
but the sweep's query reads that field. The unique index on (raffle, slug) is
the guard of the writes it makes fail (`SlugIsFree`), and the partial unique
index on the selling raffle likewise. In `Campaign` a date is the number of moves
that led to it, so that older and newer can be compared.

**Parallel updates.** `reorderPrizeDraws` sends its updates with `Promise.all`:
they happen in any order, one step each.

**Mongoose.** `save()` writes only the paths that changed since the document
was loaded, with no condition on the rest: `SavePaid` and `SaveFailed` write
the fields the handler set whatever happened in between, and leave the status
alone if it already was `paid` when loaded. An array assigned an equal value
counts as unmodified, so `save()` makes no version check that could fail.

**Transactions.** MongoDB is external: the transaction of `createOrder` either
commits all its documents (`Reserve`) or none (`AbortReserve`: a duplicate
number, no attempts left, a write conflict).

**Webhooks.** Only authentic events are modelled; the checksum is an input
filter. A refusal reads the order once more before it releases the tickets, only to
choose whether to write an audit entry; that read is left out. An event that maps to `pending` moves nothing and is not modelled. One
reference has one final verdict (`OneVerdict`, satisfied by the event sets of
every run), as Wompi settles a transaction once.

**Queue.** BullMQ is external: a job that throws is handed out again until its
attempts are used and is then kept as failed; a job whose worker dies is handed
out once more.

**Browser.** A call is split at the API: its effect, then its answer, which may
be lost, or dropped because the page has gone. A call still on its way when
the landing page is loaded anew is not served any more: an order it would make is
one the buyer has left behind, which `left` excepts anyway. React state that an effect or a
handler reads is the record `panel`, `widget` or `card`; what a button's
`disabled` depends on is the guard of the step the button starts. `Rendered`
says when `gracias.astro` is rendered: the deployed build is static.

**History variables** say what has happened to whom, so that a property can be
claimed as far as the code keeps it and no further: `mixed` (writers of the
major flag have overlapped that no slug keeps apart), `raced` (draws renamed under an
edit in flight), `crossed` (reorderings that overlapped another), `crowned`,
`overlapped` (settlements, or postponements of one campaign), `told`, `settled`,
`resettled`, `missed` (an answer or a reload of a change went missing), `seenError`,
`hurried`, `left`. No guard reads them.

**Left out.** The audit log (written last, read by no handler), validation of
request bodies, texts, URLs and hashes. `Purchase` has the raffle on sale
throughout and sends mail inline; the delivery status is in `TicketEmail`. In
`PrizeSettlement` a draw's dates and texts and the look-up of the winner's order
(orders are never deleted) are left out. In `PrizeDraws` a title is what its slug
makes of it; descriptions, images and prize types are left out. `Campaign` keeps
of the statuses those that are on sale, and one more. `AdminPanel` leaves out
rows and forms, `Storefront` the fields of the form and prices.

## 3. What is checked

| run | instance | shows |
|---|---|---|
| `purchase_safety` | 2 orders (2 tickets and 1), 3 numbers, o1's first payment declined and its second approved, 2 webhook requests, 2 sweepers; both requests and one sweeper may die | the safety properties of `Purchase`, and that it implements `TicketSale`, `TicketCounts` and `OrderLife` (511 078 states) |
| `purchase_liveness` | 2 orders for the one ticket on sale, the same two payments, 2 requests, 1 sweeper | pending orders close, lapsed numbers come back, nothing is stranded |
| `settlement_safety` | 2 draws, 2 numbers, 2 settling administrators (one may die), a third who cancels | winners are sold tickets that have won, for good, and agree with the draw; draws live by `DrawLife` (220 188 states) |
| `ticketemail_safety` | 2 approvals of one order, both modes, 2 attempts, every fault | status, accounting and termination of the email |
| `prizedraws_safety` | 2 draws, 2 titles with a slug each, 1 date, 2 visits, 2 requests (954 206 states) | what of the calendar survives every interleaving, and which overlap it takes to break the rest |
| `campaign_safety` | 2 campaigns, 2 buyers, 2 requests, 2 attempts, both modes, every fault (1 211 222 states) | one selling campaign, a postponement log that is a chain, a notice that reaches everybody |
| `adminpanel_safety` | 1 draw, 1 ticket (135 456 states) | what the screen may be trusted for, and that its buttons come back |
| `storefront_safety` | 2 orders, pages rendered for each request (45 844 states) | what is paid is what was previewed, nothing is reserved behind the buyer's back, a paid order gets to the screen |
| `purchase_resold`, `purchase_oversold`, `settlement_twice`, `storefront_static` | the smallest instance that shows it | one disagreement each between the code and a document of the repository (section 6) |

Bounds. Two orders are enough for every race over a number, since a conflict
involves one holder and one taker; three numbers let an order with two tickets
be split and compete with a third. Two payments of one order are the retry after
a refusal. Two requests are two deliveries at once, which is also a refusal
against an approval; a third adds no statement that the two do not already
interleave. Two sweepers are API against worker. `Total` is the number of
numbers in the safety run and below it in the liveness run, so that the capacity
check refuses there. `MailCap` bounds the count of emails, which no guard reads;
it is 3 in the safety run, one more than `MailsAreBounded` allows its two
requests. `Attempts` is 5 in the code; two give one retry and one last attempt.
Two draws are what a flag, a slug or a position can be disputed between; two
visits race to create the first draw, two requests race with each other and with
them, and a request that has answered is not used again, so `Visits` and
`Requests` bound how many there are. The same holds in `Campaign`, where two
requests are two postponements, two publications or one of each. One draw is
enough for `AdminPanel`: the panel makes one change at a time, and another
administrator (`Elsewhere`) is free to change the draw meanwhile. The same module with
an oversold raffle (`Total` 1, `Limit` 2), and with `LivesSpec`, is checked by the
configuration `AdminPanel_oversold` beside the runs (1 106 340 states, no error).
`Storefront` makes at most two orders, so that an attempt can fail before one is paid.
Symmetry is over identifiers that nothing tells apart (numbers; requests that are
all mortal or all immortal; draws, visits, buyers), and is not used where
liveness is checked. The theorems of section 4 have no such bounds.

Deadlock is not checked for `Purchase`, `TicketEmail`, `PrizeDraws` and
`Campaign`: when every order is closed and every event delivered, every email
settled, every request answered, nothing is left to do; nor for `Storefront`,
where the buyer may close the tab. It is checked for `PrizeSettlement`, where an
administrator can always act, and for `AdminPanel`, which must always be usable.

Fairness. `Purchase!Fairness` says that time passes and that a sweep which can
take a step does: the worker repeats its job every minute
(`worker-bootstrap.service.ts:18`) and the workflow calls the endpoint every
five (`release-expired-reservations.yml:5`). Nothing is assumed of buyers,
payments or requests. `ResendSpec` adds the operator of the runbook who keeps
resending the webhook, and is used only to show that this does not help.
`TicketEmail!Fairness` says a worker process is kept running. `AdminPanel` has
weak fairness of `Advance`: every `fetch` ends, with an answer or an error, and
the code after it runs; nothing is assumed of the user or the API. `Storefront`
has weak fairness of `Poll`: the fetch of the card ends and its eight-second
timer fires; nothing is assumed of the buyer, Wompi or the webhook.

## 4. What is proved

For any sets of orders, payments, numbers, requests, sweepers, draws, visits,
administrators, campaigns, buyers and approvals, from the named assumptions on
the constants alone (and `OneVerdict`, or sweepers that are not killed, where the
theorem says so):

* `PurchaseProofs`: `TypeCorrect`; `AssignedForever`; `SoldBounded` (the
  invariant adds that every count a request carries is at most the number of
  assigned tickets: it was when it was taken, and assigned tickets never go, so
  a stale count may be too low but never too high); `PaidStaysUnexpired`, which
  is an action property read off the guarded update, the only step that writes
  `expired`; `CountsAreImplemented` (a reservation of `Qty[o]` free numbers adds as
  many to the reserved count, an assignment moves them, a release takes them away,
  and the count a request is about to write is at most the assigned one, by the
  invariant of `SoldBounded`).
* `PurchaseSafetyProofs`. `Coherent` is the invariant the rest stands on:
  `OrdersExist` (whatever names an order names one that exists, and an absent
  order has no tickets) and `TicketsWhole` (a webhook about to write an order
  carries exactly that order's numbers, and one that has assigned or released
  them left none reserved). It gives `TicketsStayTogether` and
  `SaleIsImplemented`: a reservation is `Take`, an assignment `BuyAll`, a release
  `GiveBackAll`, or they change nothing, and every other step is invisible in the
  sale. Under `OneVerdict`, `VerdictsAgree` (past `RecordPayment` the document
  agrees with the branch a request took, and a recorded verdict stands) gives
  `PaidMeansApproved`; with `SweepsClose` (a sweep releases only what is closed,
  one order at a time) and `PaidWhole` (an undisputed order that can still be paid
  has all its numbers, reserved or assigned) it gives `PaidOrdersOwn`, and from both
  follows `SoldOnceWithoutRetries`: where every order has one payment reference,
  `NumbersSoldOnce` holds, so the counterexample of section 6 takes a retry.
  `OrdersLive` needs that a request being served has a payment (`HooksPaid`) and that
  no order is `initiated` (`NeverInitiated`: the status is in the table and nothing
  writes it), so that a save is begun only on a pending order with a checkout.
  `MailsBounded` rests on `MailsAddUp`: an undisputed order has had no email before it
  is paid; once it is, it stays so (`PaidStands`), requests that have not read it yet
  become replays, and the emails sent and the requests that may still send one add up
  to at most the number of requests.
  `NothingStaysStranded` needs sweepers that are not killed: an expired order
  either has nothing reserved or is the one a sweep is about to release
  (`ClosedRelease`).
* `PrizeSettlementProofs`: `TypeCorrect`; `PrizesKept`; `ShownHaveWon` (the
  invariant `FoundTickets`: a request past the search carries the announced
  number, sold, and one past the mark carries a ticket that has won);
  `DrawsAndTicketsAgree` (the invariant `SoloSettlement`: while settlements do
  not overlap, at most one is in flight, and the ticket it is about to show is
  marked with its own draw); `DrawsLive` (`Created`: a request in flight is about a
  draw that exists; a cancellation past its look is in `cancelling`, and that look
  found the draw not yet drawn).
* `PrizeDrawsProofs`: `TypeCorrect`; `OneIsMajor` (`OneCrowning`: those
  between the statement that leaves no major prize and the one that makes one are one
  request, or pages with one slug; no draw is major then, but for one that has the slug
  those pages are about to clash with, and keeps it);
  `MissingPrizeIsExplained`; `SlugsFollow` (`SlugsInOrder`: an edit in flight
  carries the title its draw still has, unless the draw is in `raced`);
  `NothingOutOfReach` (`PlacesInRange`: a position carried by a request is at most
  the number of draws, because draws are never deleted; a reordering that finds as
  many draws as it has entries names distinct existing ones);
  `ReorderingsStand` (`OrdersStand`: without an overlap the entries already
  written are where the list has them); `CalendarIsShown`
  (`ListsSomething`: a visit that has created the first draw, has found one or has
  failed to create it leaves a calendar behind, because draws are never deleted).
* `TicketEmailProofs`: `TypeCorrect`; `SentIsTrue` (whoever is about to write
  `sent` has had the mail delivered); `NobodyIsForgotten` (a call about to write
  `queued` has added its job, a job ends well only by writing to the buyer or
  for an order that was refused, so overwriting a failed status never leaves an
  order with nothing).
* `CampaignProofs`: `TypeCorrect`; `OneSells` (the index, not the check);
  `NobodyMisses` (`Owing`: whoever is owed a notice is still on the list of the
  run, has been told a date at least as new, or the run has not asked yet; dates
  only grow); `AnsweredAreAnnounced`; `LogsAreChains` (`Chained`: no entry of a
  log ends after the campaign's date, and without an overlap one postponement at
  most is in flight and no entry ends after the date it has read).
* `AdminPanelProofs`: `TypeCorrect`; `InventoryIsComplete` (`CountsInOrder`:
  `soldTickets` is read before the assigned tickets are counted, so it is at most
  that count, and a ticket that moves between the reads is met once at least);
  `ChangesReachTheScreen` (`ChangeOnItsWay`: the draws the reload has in hand were
  read after the change); `SettlesOnce` (`SettledAreShown`: a draw this panel settled
  is not scheduled on its screen unless something was missed); `DrawsLiveWithThePanel`
  (each request of the panel is a step of `DrawLife` or none).
* `StorefrontProofs`: `TypeCorrect`; `PreviewIsPaidFor` (`PreviewFollows`: the
  order of the widget, its preview and its checkout are one);
  `ReservationsAreFollowedUp` (`NothingForgotten`: the only order without a
  checkout is the one the widget is working on).

Each of these invariants is there because the property alone is not inductive:
it speaks of the documents, and what breaks or keeps it is what a handler in
flight has read and will write. Only model-checked: liveness
(`LapsedOrdersClose`, `JobsSettle`, `PanelComesBack`, `PaidOrdersAreShown`), which is out of the prover's reach. What is violated
(section 6) is, of course, not proved.

## 5. Properties worth a remark

* `PaidOrdersOwnTheirNumbers` is claimed only of orders with no refused payment
  (`Undisputed`): with one, `NumbersSoldOnce` fails (section 6).
* `WinnersAgree` is claimed only until two settlements overlap: then
  `OneTicketOnePrize` fails. `ShownWinnersHaveWon` needs no such condition.
* `SoldNeverExceedsAssigned`, `AssignedIsForever` and `PaidNeverExpires` say in a line
  each what `CountsSpec`, `SaleSpec` and `LifeSpec` imply; they are theorems, and the
  runs check the refinements.
* `NoApprovalForgotten` is about approvals that were answered. One whose process
  dies after `markPaid` leaves no status and no job, and a redelivery finds the
  order paid and sends nothing.
* `NothingStranded` is claimed of sweepers that are not killed.
* `MailsAreBounded` is as much as the check of `wasAlreadyPaid` gives: two deliveries
  served at once both mail (`Purchase_mailtwice`), a third one does not. It is claimed
  of orders with no refused payment: a refusal may fail an order that was paid, and
  an approval that reads it then, while another is about to save it as paid once
  more, mails as well.
* `ChangesAreShown` lets a draw just settled be shown cancelled: a cancellation that
  looked at the draw before writes after it (`DrawLife!Cancel`).
* `OrderTransitions` says `expired` is final. `markPaid` saves over an order
  that was expired after it was loaded, so an order can go from expired to paid;
  its numbers are assigned by then, and `PaidOrdersOwnTheirNumbers` covers it.
* `OneMajorPrize` covers pages that create the first draw at once: the unique slug lets
  one of them win (mutant `CreateInitialAgain`). It is claimed up to `mixed`: when the
  campaign's prize, or the draw just created, is renamed in between, the slugs no longer
  clash, and a request that sets the flag clashes with nobody.
* `CalendarIsNeverEmpty` does not promise every visitor a page: the one who loses that
  race gets the duplicate key as an error, although all it wanted was to read.
* `SlugFollowsTitle` and `ReorderIsHonoured` are claimed up to `raced` and `crossed`:
  nothing in the code keeps the overlaps from leaving a slug of an older title, or
  positions of two reorderings at once. `PositionsInRange` needs no such condition, but two draws
  can share a position (a new draw's position is a count taken earlier), so
  distinct positions are not claimed.
* `LogIsAChain` is claimed until two postponements of a campaign overlap: each
  would log the date it read.
* `InventoryLeavesNothingOut` is an inequality: between the reads a ticket can be
  counted twice.
* `SettlesOnceWhileAnswersArrive` is what stands between the panel's user and
  `settlement_twice`: the API accepts a second settlement, the panel does not
  offer it, unless it has missed an answer.
* `PaysForThePreview` excepts a form submitted again while the browser is leaving
  for the checkout (`hurried`): `finally` gives the button back before the
  navigation is over.

## 6. Where the code and its documents disagree

Each run ends with a counterexample of TLC.

1. `purchase_resold`: a refusal of one payment deletes the tickets of an order
   between the find and the update that assign them for another payment. The
   order is paid with numbers it does not hold, and they are sold again.
2. `purchase_oversold`: orders that check the capacity together all pass; sold
   tickets not yet counted into `soldTickets` are missed as well.
3. `settlement_twice`: settling a drawn draw again erases its winner.
4. `storefront_static`: `gracias.astro` reads `?order=` from `Astro.url`, and the
   deployed build is static, so it is read once, when the site is built. The card
   gets no order and never polls. `storefront_safety` shows that the same code
   keeps its promise where pages are rendered for each request.

### Further counterexamples

Each with a configuration kept beside the runs; where a document rules the
behaviour out, it is quoted. `FREE` is
`docs/superpowers/specs/2026-04-01-free-mode-inline-notifications-design.md`, `MULTI`
`docs/superpowers/specs/2026-04-01-multi-prize-campaign-design.md`. `tlc -config X.cfg M` ends with a violation of the one
property of the configuration.

| configuration (module) | what it shows |
|---|---|
| `Purchase_stranded` (`MCPurchase`) | a sweeper that dies between its two statements leaves tickets reserved by an expired order, which no later sweep selects: "cleanup endpoint must not partially corrupt orders or tickets" (`FREE:254`) |
| `Purchase_mailtwice` (`MCPurchase`) | two deliveries of one approval both find the order unpaid, and both send the email: "If a duplicate approved webhook arrives: [...] do not send the paid email twice" (`FREE:260`-`262`), "paid order still queues exactly one email" (`MULTI:428`); both hold of a delivery served after the first has saved the order, and no further |
| `Purchase_resend` (`MCPurchase`) | an order expired between the assignment and `markPaid` is never reconciled by resending the webhook: "Reenviar webhook original: el flujo es idempotente y reconcilia estado" (`docs/runbooks/incident-webhook-queue.md:48`) |
| `PrizeSettlement_overlap` (`MCPrizeSettlement`) | two settlements at once give one ticket two prizes: "one ticket wins at most once" (`MULTI:117`) |
| `TicketEmail_shown` (`MCTicketEmail`) | `queued` is written over the worker's `sent` |
| `Campaign_active` (`MCCampaign`) | a postponed campaign is on sale next to a selling one: `assertSingleSellingRaffle` and the index look at `selling` only (`raffles.service.ts:227`), and `docs/plans/2026-02-19-rifaria-design.md:24` says "Una sola rifa activa simultáneamente" |
| `PrizeDraws_moved` (`MCPrizeDraws`) | a draw settled between the read and the update of an edit is moved all the same: "Cannot move an already drawn prize draw" (`prize-draws.service.ts:116`) is decided on the status read before |

## 7. Not modelled

* Email templates and provider payloads, URL building, hashes: text and I/O. A
  provider that only logs the mail counts as one that has taken it.
* Ticket numbers: formatting and a draw of four random digits without state;
  `Purchase` takes any free numbers. The probability that 500 random draws miss
  every free number is left to `AbortReserve`, which lets them.
* Environment validation (`config/env.ts`): a function of the settings, evaluated
  once before a process starts, with unit tests of its cases; nothing interleaves
  with it.
* Start-up: `bootstrapAdmin` and `createDraftIfNoneExists` are a find and a create
  each, run once when the API starts; a unique email and a unique slug stop a
  second process. The seed script is a development tool.
* Audit and health: no handler depends on them.
* Passwords, token signatures and Auth0: delegated to libraries. Login, the
  expiry of the token and the roles are in `AdminPanel`.
* The admin search and the plain lists: read-only queries whose rows no other
  state depends on; their failure is that of the reload in `AdminPanel`.
* The public pages beyond the form and the card, quantity controls and texts:
  presentation. `fetchActiveRaffle` publishes a fallback campaign when the API
  cannot be reached at build time; this is a fact of the build, not of a run.
* `releaseExpiredReservations`, `incrementSoldTickets`, `RafflesService.settleDraw`
  and `setStatus`: nobody calls them.

## 8. Plan

Done: the sale with its abstract specifications (`Purchase`; `TicketSale`,
`TicketCounts`, `OrderLife`), the draws (`PrizeSettlement`, `PrizeDraws`;
`DrawLife`), the emails (`TicketEmail`), the campaigns (`Campaign`), the web site
(`AdminPanel`, `Storefront`) on top of what the API is shown to implement, and every
safety property, action property and refinement the passing runs check as a theorem.

What would come next: `Purchase` composed with `Campaign`, so that a raffle may
leave the market while orders for it are in flight; the buyer's errors of
`createOrder` after its commit; and an abstract specification of a delivered notice,
for `TicketEmail` and `Campaign` to implement.
