------------------------------ MODULE PrizeDraws ------------------------------
(***************************************************************************)
(* The calendar of prize draws of a campaign.  Every page that shows it    *)
(* creates the first draw when there is none (ensureInitialMajorPrize);    *)
(* administrators create, edit and reorder draws.                          *)
(*                                                                         *)
(*   draw[d]     the document of a draw; draws are never deleted           *)
(*   visit[v]    a request that lists the calendar: the public page, the   *)
(*               status page of a paid order, the panel of administrators  *)
(*   request[r]  a request of an administrator that changes it             *)
(*                                                                         *)
(* Each step is one statement on the database; steps of different requests *)
(* interleave.  A title is what its slug makes of it, so descriptions,     *)
(* images and prize types are left out; cancelling is in PrizeSettlement.  *)
(***************************************************************************)
EXTENDS Integers, Sequences, FiniteSets

CONSTANTS
    Draws,      \* identifiers of the draws that can be created
    Titles,
    SlugOf,     \* slugify: different titles may have the same slug
    Dates,
    Visits,
    Requests

ASSUME PrizeDrawsAssumption ==
    /\ IsFiniteSet(Draws)
    /\ DOMAIN SlugOf = Titles
    /\ Titles # {}
    /\ Dates # {}
    /\ "none" \notin Draws \cup Titles \cup Dates

VARIABLES
    prizeName,  \* prizeName of the campaign
    draw, visit, request,
    mixed,      \* history: writers of the major flag have overlapped that nothing keeps apart
    raced,      \* history: draws renamed while another edit of them was in flight
    crossed,    \* history: reorderings that have overlapped another one
    crowned     \* history: some draw has been the major prize

history == <<mixed, raced, crossed, crowned>>
vars == <<prizeName, draw, visit, request, mixed, raced, crossed, crowned>>

None == "none"
NoDraw == [exists |-> FALSE]
Existing == {d \in Draws : draw[d].exists}
Major == {d \in Existing : draw[d].major}

\* The unique index (raffleId, slug): no other draw has the slug.
SlugIsFree(slug, d) == \A e \in Existing \ {d} : draw[e].slug # slug

NewDraw(title, position, date, major) ==
    [exists |-> TRUE, title |-> title, slug |-> SlugOf[title], position |-> position,
     date |-> date, status |-> "scheduled", major |-> major]

NewVisit == [pc |-> "new", name |-> None, featured |-> None]

NewRequest ==
    [pc |-> "new", op |-> None, draw |-> None, title |-> None, date |-> None,
     major |-> None, position |-> 0, order |-> <<>>, todo |-> {}]

\* What is left of a request that has answered.
Ended(q, pc) == [NewRequest EXCEPT !.pc = pc, !.op = q.op, !.major = q.major]

\* Requests between the statement that leaves no major prize and the one that makes one.
Creating == {v \in Visits : visit[v].pc = "create"}
Setting == {r \in Requests : request[r].pc = "write" /\ request[r].major = "yes"}
Crowning == Creating \cup Setting

\* The slug a page is going to create the first draw with.
FirstSlug(v) == SlugOf[visit[v].name]

\* Of those, the ones the unique index does not make fail once the page v has created its draw,
\* and the pages it does make fail for as long as d keeps its slug.
Rivals(v) == {w \in Creating : FirstSlug(w) # FirstSlug(v)} \cup Setting
KeptOut(d) == {v \in Creating : FirstSlug(v) = draw[d].slug}

Reordering == {r \in Requests : request[r].pc = "reorder"}

Init ==
    /\ prizeName \in Titles
    /\ draw = [d \in Draws |-> NoDraw]
    /\ visit = [v \in Visits |-> NewVisit]
    /\ request = [r \in Requests |-> NewRequest]
    /\ mixed = FALSE
    /\ raced = {}
    /\ crossed = {}
    /\ crowned = FALSE

-------------------------------------------------------------------------------
\* ensureAndListForRaffle, called by every page that shows the calendar

\* getActiveRaffleForSales: the snapshot of the campaign the first draw is made from.
ReadRaffle(v) ==
    /\ visit[v].pc = "new"
    /\ visit' = [visit EXCEPT ![v].pc = "count", ![v].name = prizeName]
    /\ UNCHANGED <<prizeName, draw, request, history>>

\* Mutant of CountDraws: the test for a calendar is the wrong way round.
CountDrawsInverted(v) ==
    /\ visit[v].pc = "count"
    /\ visit' = [visit EXCEPT ![v].pc = IF Existing = {} THEN "list" ELSE "create"]
    /\ mixed' = (mixed \/ (Existing = {} /\ Rivals(v) # {}))
    /\ UNCHANGED <<prizeName, draw, request, raced, crossed, crowned>>

\* ensureInitialMajorPrize counts ...
CountDraws(v) ==
    /\ visit[v].pc = "count"
    /\ visit' = [visit EXCEPT ![v].pc = IF Existing = {} THEN "create" ELSE "list"]
    /\ mixed' = (mixed \/ (Existing = {} /\ Rivals(v) # {}))
    /\ UNCHANGED <<prizeName, draw, request, raced, crossed, crowned>>

\* Mutant of CreateInitial: the index on the slug is not unique.
CreateInitialAgain(v) ==
    /\ visit[v].pc = "create"
    /\ \E d \in Draws \ Existing, date \in Dates :
          draw' = [draw EXCEPT ![d] = NewDraw(visit[v].name, 0, date, TRUE)]
    /\ crowned' = TRUE
    /\ visit' = [visit EXCEPT ![v].pc = "list"]
    /\ UNCHANGED <<prizeName, request, mixed, raced, crossed>>

\* ... and creates the first draw, as the major prize.
CreateInitial(v) ==
    /\ visit[v].pc = "create"
    /\ \E d \in Draws \ Existing, date \in Dates :
          /\ SlugIsFree(FirstSlug(v), d)
          /\ draw' = [draw EXCEPT ![d] = NewDraw(visit[v].name, 0, date, TRUE)]
    /\ crowned' = TRUE
    /\ visit' = [visit EXCEPT ![v].pc = "list"]
    /\ UNCHANGED <<prizeName, request, mixed, raced, crossed>>

\* Somebody else has created it meanwhile: the duplicate key fails the whole page.
InitialClashes(v) ==
    /\ visit[v].pc = "create"
    /\ ~SlugIsFree(FirstSlug(v), None)
    /\ visit' = [visit EXCEPT ![v].pc = "failed", ![v].name = None]
    /\ UNCHANGED <<prizeName, draw, request, history>>

\* sort({ position: 1 }), then the first major prize or else the first draw.
First(ds) == {d \in ds : \A e \in ds : draw[d].position <= draw[e].position}
Featured == IF Major # {} THEN First(Major) ELSE First(Existing)

ListDraws(v) ==
    /\ visit[v].pc = "list"
    /\ \/ \E d \in Featured : visit' = [visit EXCEPT ![v].pc = "answered", ![v].featured = d,
                                                         ![v].name = None]
       \/ /\ Existing = {}
          /\ visit' = [visit EXCEPT ![v].pc = "answered"]
    /\ UNCHANGED <<prizeName, draw, request, history>>

Visit(v) ==
    ReadRaffle(v) \/ CountDraws(v) \/ CreateInitial(v) \/ InitialClashes(v) \/ ListDraws(v)

-------------------------------------------------------------------------------
\* createForRaffle

\* Mutant of CountForPosition: the flag of the others is cleared whatever was asked.
CountAndClear(r) ==
    /\ request[r].pc = "new"
    /\ \E title \in Titles, date \in Dates, major \in {"yes", "no"} :
          request' = [request EXCEPT ![r] =
              [@ EXCEPT !.op = "create", !.pc = "clear", !.title = title, !.date = date,
                        !.major = major, !.position = Cardinality(Existing)]]
    /\ UNCHANGED <<prizeName, draw, visit, history>>

\* The position of the new draw is the count of those there are now.
CountForPosition(r) ==
    /\ request[r].pc = "new"
    /\ \E title \in Titles, date \in Dates, major \in {"yes", "no"} :
          request' = [request EXCEPT ![r] =
              [@ EXCEPT !.op = "create", !.pc = IF major = "yes" THEN "clear" ELSE "write",
                        !.title = title, !.date = date, !.major = major,
                        !.position = Cardinality(Existing)]]
    /\ UNCHANGED <<prizeName, draw, visit, history>>

\* Mutant of ClearMajorFlag: the flag of the others is left alone.
KeepMajorFlag(r) ==
    /\ request[r].pc = "clear"
    /\ request' = [request EXCEPT ![r].pc = "write"]
    /\ mixed' = (mixed \/ Crowning # {})
    /\ UNCHANGED <<prizeName, draw, visit, raced, crossed, crowned>>

\* clearMajorFlag: no draw of the campaign is the major prize any more.
ClearMajorFlag(r) ==
    /\ request[r].pc = "clear"
    /\ draw' = [d \in Draws |-> IF d \in Major THEN [draw[d] EXCEPT !.major = FALSE] ELSE draw[d]]
    /\ request' = [request EXCEPT ![r].pc = "write"]
    /\ mixed' = (mixed \/ Crowning # {})
    /\ UNCHANGED <<prizeName, visit, raced, crossed, crowned>>

CreateDraw(r) ==
    /\ request[r].pc = "write"
    /\ request[r].op = "create"
    /\ SlugIsFree(SlugOf[request[r].title], None)
    /\ \E d \in Draws \ Existing :
          draw' = [draw EXCEPT ![d] = NewDraw(request[r].title, request[r].position,
                                              request[r].date, request[r].major = "yes")]
    /\ crowned' = (crowned \/ request[r].major = "yes")
    /\ request' = [request EXCEPT ![r] = Ended(@, "done")]
    /\ UNCHANGED <<prizeName, visit, mixed, raced, crossed>>

\* A draw has the slug: the request fails, and the major prize it cleared stays cleared.
CreateClashes(r) ==
    /\ request[r].pc = "write"
    /\ request[r].op = "create"
    /\ ~SlugIsFree(SlugOf[request[r].title], None)
    /\ request' = [request EXCEPT ![r] = Ended(@, "failed")]
    /\ UNCHANGED <<prizeName, draw, visit, history>>

-------------------------------------------------------------------------------
\* updatePrizeDraw

\* The draw is read; what the request leaves out is None, and the title defaults to the
\* one read here.
ReadDraw(r) ==
    /\ request[r].pc = "new"
    /\ \E d \in Existing, title \in Titles \cup {None}, date \in Dates \cup {None},
          major \in {"yes", "no", None} :
          /\ draw[d].status = "drawn" => date = None
          /\ request' = [request EXCEPT ![r] =
                 [@ EXCEPT !.op = IF title = None THEN "update" ELSE "rename",
                           !.pc = IF major = "yes" THEN "clear" ELSE "write",
                           !.draw = d, !.title = IF title = None THEN draw[d].title ELSE title,
                           !.date = date, !.major = major]]
    /\ UNCHANGED <<prizeName, draw, visit, history>>

\* A drawn draw is not moved to another date.
RefuseMove(r) ==
    /\ request[r].pc = "new"
    /\ \E d \in Existing : draw[d].status = "drawn"
    /\ request' = [request EXCEPT ![r].pc = "failed", ![r].op = "update"]
    /\ UNCHANGED <<prizeName, draw, visit, history>>

\* Mutant of Updated: what the request leaves out is written as well.
UpdatedBlindly(d, q) ==
    [draw[d] EXCEPT !.title = q.title, !.slug = SlugOf[q.title], !.date = q.date,
                    !.major = IF q.major = None THEN @ ELSE q.major = "yes"]

\* $set: { ...dto, slug }: the title only when it was given, the slug always.
Updated(d, q) ==
    [draw[d] EXCEPT !.title = IF q.op = "rename" THEN q.title ELSE @,
                    !.slug = SlugOf[q.title],
                    !.date = IF q.date = None THEN @ ELSE q.date,
                    !.major = IF q.major = None THEN @ ELSE q.major = "yes"]

\* Edits of a draw that have read it and not yet written it.
Editing(d) == {r \in Requests : /\ request[r].draw = d
                                /\ request[r].op \in {"update", "rename"}
                                /\ request[r].pc \in {"clear", "write"}}

\* Mutant of WriteDraw: the slug stays what it was.
WriteDrawKeepingSlug(r) ==
    LET q == request[r]  d == q.draw IN
    /\ q.pc = "write"
    /\ q.op \in {"update", "rename"}
    /\ SlugIsFree(SlugOf[q.title], d)
    /\ draw' = [draw EXCEPT ![d] = [Updated(d, q) EXCEPT !.slug = draw[d].slug]]
    /\ request' = [request EXCEPT ![r] = Ended(@, "done")]
    /\ crowned' = (crowned \/ q.major = "yes")
    /\ raced' = IF q.op = "rename" /\ Editing(d) # {r} THEN raced \cup {d} ELSE raced
    /\ UNCHANGED <<prizeName, visit, mixed, crossed>>

WriteDraw(r) ==
    LET q == request[r]  d == q.draw IN
    /\ q.pc = "write"
    /\ q.op \in {"update", "rename"}
    /\ SlugIsFree(SlugOf[q.title], d)
    /\ draw' = [draw EXCEPT ![d] = Updated(d, q)]
    /\ request' = [request EXCEPT ![r] = Ended(@, "done")]
    /\ crowned' = (crowned \/ q.major = "yes")
    /\ raced' = IF q.op = "rename" /\ Editing(d) # {r} THEN raced \cup {d} ELSE raced
    /\ mixed' = (mixed \/ (SlugOf[q.title] # draw[d].slug /\ KeptOut(d) # {}))
    /\ UNCHANGED <<prizeName, visit, crossed>>

WriteClashes(r) ==
    /\ request[r].pc = "write"
    /\ request[r].op \in {"update", "rename"}
    /\ ~SlugIsFree(SlugOf[request[r].title], request[r].draw)
    /\ request' = [request EXCEPT ![r] = Ended(@, "failed")]
    /\ UNCHANGED <<prizeName, draw, visit, history>>

-------------------------------------------------------------------------------
\* reorderPrizeDraws

Orderings == UNION {[1..n -> Draws] : n \in 0..Cardinality(Draws)}

Found(order) == Cardinality({order[i] : i \in DOMAIN order} \cap Existing)

\* "Ordered ids must belong to the same raffle".
RefuseOrder(r) ==
    /\ request[r].pc = "new"
    /\ \E order \in Orderings : Found(order) # Len(order)
    /\ request' = [request EXCEPT ![r].pc = "failed", ![r].op = "order"]
    /\ UNCHANGED <<prizeName, draw, visit, history>>

\* The ids must find as many draws as there are ids: each exists and is named once.
FindOrdered(r) ==
    /\ request[r].pc = "new"
    /\ \E order \in Orderings :
          /\ Found(order) = Len(order)
          /\ request' = [request EXCEPT ![r] = [@ EXCEPT !.op = "order", !.pc = "reorder",
                                                       !.order = order, !.todo = DOMAIN order]]
          /\ crossed' = IF Reordering # {} THEN crossed \cup Reordering \cup {r} ELSE crossed
    /\ UNCHANGED <<prizeName, draw, visit, mixed, raced, crowned>>

\* Mutant of SetPosition: the position is the number of updates still to come.
SetPositionReversed(r) ==
    /\ request[r].pc = "reorder"
    /\ \E i \in request[r].todo :
          /\ draw' = [draw EXCEPT ![request[r].order[i]].position = Cardinality(request[r].todo) - 1]
          /\ request' = [request EXCEPT ![r].todo = @ \ {i}]
    /\ UNCHANGED <<prizeName, visit, history>>

\* Mutant of SetPosition: positions are counted from one.
SetPositionFromOne(r) ==
    /\ request[r].pc = "reorder"
    /\ \E i \in request[r].todo :
          /\ draw' = [draw EXCEPT ![request[r].order[i]].position = i]
          /\ request' = [request EXCEPT ![r].todo = @ \ {i}]
    /\ UNCHANGED <<prizeName, visit, history>>

\* Promise.all over updateOne: the updates run in any order.
SetPosition(r) ==
    /\ request[r].pc = "reorder"
    /\ \E i \in request[r].todo :
          /\ draw' = [draw EXCEPT ![request[r].order[i]].position = i - 1]
          /\ request' = [request EXCEPT ![r].todo = @ \ {i}]
    /\ UNCHANGED <<prizeName, visit, history>>

\* The answer is listByRaffleId.
AnswerReorder(r) ==
    /\ request[r].pc = "reorder"
    /\ request[r].todo = {}
    /\ request' = [request EXCEPT ![r] = Ended(@, "done")]
    /\ UNCHANGED <<prizeName, draw, visit, history>>

Create(r) == CountForPosition(r) \/ ClearMajorFlag(r) \/ CreateDraw(r) \/ CreateClashes(r)
Update(r) == ReadDraw(r) \/ RefuseMove(r) \/ WriteDraw(r) \/ WriteClashes(r)
Reorder(r) == FindOrdered(r) \/ RefuseOrder(r) \/ SetPosition(r) \/ AnswerReorder(r)

-------------------------------------------------------------------------------
\* What else happens to the campaign

\* markAsSettled, as far as the calendar sees it.
Settle(d) ==
    /\ d \in Existing
    /\ draw[d].status = "scheduled"
    /\ draw' = [draw EXCEPT ![d].status = "drawn"]
    /\ UNCHANGED <<prizeName, visit, request, history>>

\* updateRaffle may rename the prize of the campaign.
RenamePrize ==
    /\ \E name \in Titles \ {prizeName} : prizeName' = name
    /\ UNCHANGED <<draw, visit, request, history>>

Next ==
    \/ \E v \in Visits : Visit(v)
    \/ \E r \in Requests : Create(r) \/ Update(r) \/ Reorder(r)
    \/ \E d \in Draws : Settle(d)
    \/ RenamePrize

Spec == Init /\ [][Next]_vars

-------------------------------------------------------------------------------
DrawRecords ==
    [exists : {TRUE}, title : Titles, slug : {SlugOf[t] : t \in Titles}, position : Nat,
     date : Dates, status : {"scheduled", "drawn"}, major : BOOLEAN]

VisitRecords ==
    [pc : {"new", "count", "create", "list", "answered", "failed"},
     name : Titles \cup {None}, featured : Draws \cup {None}]

RequestRecords ==
    [pc : {"new", "clear", "write", "reorder", "done", "failed"},
     op : {None, "create", "update", "rename", "order"}, draw : Draws \cup {None},
     title : Titles \cup {None}, date : Dates \cup {None}, major : {"yes", "no", None},
     position : Nat, order : Seq(Draws), todo : SUBSET Nat]

TypeOK ==
    /\ prizeName \in Titles
    /\ draw \in [Draws -> {NoDraw} \cup DrawRecords]
    /\ visit \in [Visits -> VisitRecords]
    /\ request \in [Requests -> RequestRecords]
    /\ mixed \in BOOLEAN
    /\ raced \subseteq Draws
    /\ crossed \subseteq Requests
    /\ crowned \in BOOLEAN

\* A page that is answered shows a prize, although it counts, creates and lists in three
\* statements (getActivePublicRaffle would fall back to the raffle's own prize, with no draw to
\* buy for).  A page whose creation loses against somebody else's is an error instead, for a
\* calendar that is there.
CalendarIsNeverEmpty ==
    \A v \in Visits : /\ visit[v].pc = "answered" => visit[v].featured # None
                      /\ visit[v].pc = "failed" => Existing # {}

\* Counting the draws and creating the first one are two statements, and so are clearing the
\* flag and setting it.  Pages that create the first draw at once leave one major prize, because
\* their slugs clash; two are left only when the campaign's prize, or the draw that was created,
\* is renamed in between, or when a request that sets the flag overlaps with another writer of it.
OneMajorPrize == ~mixed => Cardinality(Major) <= 1

\* A campaign that had a major prize has lost it only to somebody who took the flag away, or to
\* a request that cleared it and is still at work or failed at the unique slug afterwards.
MajorPrizeIsAccountedFor ==
    crowned /\ Major = {} =>
        \E r \in Requests :
            \/ request[r].major = "yes" /\ request[r].pc \in {"write", "failed"}
            \/ request[r].major = "no" /\ request[r].op # "create" /\ request[r].pc = "done"

\* updatePrizeDraw computes the slug from a title it may have read before somebody else renamed
\* the draw: only such a race separates the slug of a draw from its title.
SlugFollowsTitle == \A d \in Existing \ raced : draw[d].slug = SlugOf[draw[d].title]

\* No draw is ever placed past the end of the calendar, so a new draw, whose position is an
\* earlier count, and a reordering of some of the draws never push one out of reach.
PositionsInRange == \A d \in Existing : draw[d].position < Cardinality(Existing)

\* A reordering that no other one overlaps leaves the draws it names in the order it names them,
\* although its updates run in any order and draws are created and edited meanwhile.
ReorderIsHonoured ==
    \A r \in Reordering \ crossed : request[r].todo = {} =>
        \A i, j \in DOMAIN request[r].order :
            i < j => draw[request[r].order[i]].position < draw[request[r].order[j]].position

\* "Cannot move an already drawn prize draw" (updatePrizeDraw): the status is read before the
\* update that moves it.
DrawnKeepsDate ==
    [][\A d \in Existing : draw[d].status = "drawn" => draw'[d].date = draw[d].date]_vars
==============================================================================
