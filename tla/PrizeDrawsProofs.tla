---------------------------- MODULE PrizeDrawsProofs ----------------------------
(***************************************************************************)
(* Proofs about PrizeDraws for every set of draws, titles, pages and       *)
(* requests of administrators.                                             *)
(***************************************************************************)
EXTENDS PrizeDraws, FiniteSetTheorems, TLAPS

-------------------------------------------------------------------------------
\* What every reader of the calendar sees

\* A draw exists exactly when it has a whole document.
LEMMA DrawKinds ==
    ASSUME TypeOK, NEW d \in Draws
    PROVE  \/ d \in Existing /\ draw[d] \in DrawRecords
           \/ d \notin Existing /\ draw[d] = NoDraw
<1>1. draw[d] = NoDraw \/ draw[d] \in DrawRecords
  BY DEF TypeOK
<1>2. draw[d] \in DrawRecords => draw[d].exists
  BY DEF DrawRecords
<1>3. draw[d] = NoDraw => ~draw[d].exists
  BY DEF NoDraw
<1> QED
  BY <1>1, <1>2, <1>3 DEF Existing

\* There are finitely many draws; a new one makes them one more.
LEMMA ExistingIsFinite ==
    ASSUME TRUE
    PROVE  /\ IsFiniteSet(Existing)
           /\ Cardinality(Existing) \in Nat
<1>1. Existing \subseteq Draws
  BY DEF Existing
<1> QED
  BY <1>1, PrizeDrawsAssumption, FS_Subset, FS_CardinalityType

\* An order that finds as many draws as it has entries names existing draws, each once.
LEMMA FoundOrder ==
    ASSUME NEW order \in Orderings, Found(order) = Len(order)
    PROVE  /\ order \in Seq(Draws)
           /\ DOMAIN order \subseteq Nat
           /\ DOMAIN order = 1..Len(order)
           /\ Len(order) \in Nat /\ Len(order) <= Cardinality(Existing)
           /\ \A i \in DOMAIN order : order[i] \in Existing
           /\ \A i, j \in DOMAIN order : order[i] = order[j] => i = j
<1>0. IsFiniteSet(Draws) /\ Cardinality(Draws) \in Nat
  BY PrizeDrawsAssumption, FS_CardinalityType
<1>1. PICK n \in Nat : order \in [1..n -> Draws]
  BY <1>0 DEF Orderings
<1>2. order \in Seq(Draws) /\ Len(order) = n /\ DOMAIN order = 1..n
  BY <1>1
<1> DEFINE T == {order[i] : i \in DOMAIN order}
<1>3. order \in Surjection(1..n, T)
  BY <1>1, <1>2 DEF Surjection
<1>4. IsFiniteSet(1..n) /\ Cardinality(1..n) = n
  BY <1>1, FS_Interval
<1>5. /\ IsFiniteSet(T) /\ Cardinality(T) <= n
      /\ Cardinality(T) = n <=> order \in Injection(1..n, T)
  BY <1>3, <1>4, FS_Surjection
<1>6. /\ T \cap Existing \subseteq T /\ T \cap Existing \subseteq Existing
      /\ Cardinality(T \cap Existing) = n
  BY <1>2 DEF Found
<1>7. /\ Cardinality(T \cap Existing) <= Cardinality(T)
      /\ Cardinality(T) = Cardinality(T \cap Existing) => T \cap Existing = T
      /\ Cardinality(T) \in Nat
  BY <1>5, <1>6, FS_Subset, FS_CardinalityType
<1>8. Cardinality(T) = n /\ T \cap Existing = T
  BY <1>5, <1>6, <1>7
<1>9. order \in Injection(1..n, T)
  BY <1>5, <1>8
<1>10. n <= Cardinality(Existing)
  BY <1>6, ExistingIsFinite, FS_Subset
<1> HIDE DEF T
<1>11. \A i \in DOMAIN order : order[i] \in Existing
  BY <1>8 DEF T
<1>12. \A i, j \in DOMAIN order : order[i] = order[j] => i = j
  BY <1>9, <1>2 DEF Injection, IsInjective
<1>13. DOMAIN order \subseteq Nat
  BY <1>1, <1>2
<1> QED
  BY <1>1, <1>2, <1>10, <1>11, <1>12, <1>13

-------------------------------------------------------------------------------
\* What the steps do to the calendar

\* Creating a draw adds it to those that exist and leaves the others alone.
LEMMA CreateLemma ==
    ASSUME TypeOK, NEW d \in Draws \ Existing, NEW title \in Titles, NEW position \in Nat,
           NEW date \in Dates, NEW major \in BOOLEAN,
           draw' = [draw EXCEPT ![d] = NewDraw(title, position, date, major)]
    PROVE  /\ draw' \in [Draws -> {NoDraw} \cup DrawRecords]
           /\ Existing' = Existing \cup {d}
           /\ Major' = IF major THEN Major \cup {d} ELSE Major
           /\ draw'[d].title = title /\ draw'[d].slug = SlugOf[title]
           /\ draw'[d].position = position
           /\ \A e \in Existing : draw'[e] = draw[e]
<1>1. /\ NewDraw(title, position, date, major) \in DrawRecords
      /\ NewDraw(title, position, date, major).exists
      /\ NewDraw(title, position, date, major).major = major
      /\ NewDraw(title, position, date, major).title = title
      /\ NewDraw(title, position, date, major).slug = SlugOf[title]
      /\ NewDraw(title, position, date, major).position = position
  BY DEF NewDraw, DrawRecords
<1>2. draw'[d] = NewDraw(title, position, date, major) /\ \A e \in Draws \ {d} : draw'[e] = draw[e]
  BY DEF TypeOK
<1>3. draw' \in [Draws -> {NoDraw} \cup DrawRecords]
  BY <1>1 DEF TypeOK
<1>4. Existing' = Existing \cup {d}
  BY <1>1, <1>2 DEF Existing
<1>5. Major' = IF major THEN Major \cup {d} ELSE Major
  <2>1. \A e \in Existing : draw'[e] = draw[e]
    BY <1>2 DEF Existing
  <2>2. d \in Major' <=> major
    BY <1>1, <1>2, <1>4 DEF Major
  <2>3. \A e \in Existing : e \in Major' <=> e \in Major
    BY <1>4, <2>1 DEF Major
  <2>4. Major \subseteq Existing /\ Major' \subseteq Existing \cup {d}
    BY <1>4 DEF Major
  <2> QED
    BY <2>2, <2>3, <2>4
<1> QED
  BY <1>1, <1>2, <1>3, <1>4, <1>5 DEF Existing

\* Changing the document of a draw that exists leaves the others alone.
LEMMA EditLemma ==
    ASSUME TypeOK, NEW d \in Existing, NEW doc \in DrawRecords,
           draw' = [draw EXCEPT ![d] = doc]
    PROVE  /\ draw' \in [Draws -> {NoDraw} \cup DrawRecords]
           /\ Existing' = Existing
           /\ Major' = IF doc.major THEN Major \cup {d} ELSE Major \ {d}
           /\ draw'[d] = doc
           /\ \A e \in Draws \ {d} : draw'[e] = draw[e]
<1>1. d \in Draws /\ draw[d].exists /\ doc.exists /\ doc.major \in BOOLEAN
  BY DEF Existing, DrawRecords
<1>2. draw'[d] = doc /\ \A e \in Draws \ {d} : draw'[e] = draw[e]
  BY <1>1 DEF TypeOK
<1>3. draw' \in [Draws -> {NoDraw} \cup DrawRecords]
  BY <1>1 DEF TypeOK
<1>4. Existing' = Existing
  BY <1>1, <1>2 DEF Existing
<1>5. /\ d \in Major' <=> doc.major
      /\ \A e \in Existing \ {d} : e \in Major' <=> e \in Major
  BY <1>1, <1>2, <1>4 DEF Major, Existing
<1>6. Major \subseteq Existing /\ Major' \subseteq Existing
  BY <1>4 DEF Major
<1> QED
  BY <1>2, <1>3, <1>4, <1>5, <1>6

\* Clearing the flag changes nothing else.
LEMMA ClearLemma ==
    ASSUME TypeOK,
           draw' = [d \in Draws |-> IF d \in Major THEN [draw[d] EXCEPT !.major = FALSE] ELSE draw[d]]
    PROVE  /\ draw' \in [Draws -> {NoDraw} \cup DrawRecords]
           /\ Existing' = Existing
           /\ Major' = {}
           /\ \A d \in Existing : /\ draw'[d].title = draw[d].title
                                  /\ draw'[d].slug = draw[d].slug
                                  /\ draw'[d].position = draw[d].position
<1>1. \A d \in Major : draw[d] \in DrawRecords
  BY DrawKinds DEF Major, Existing
<1>2. \A d \in Major :
        /\ draw'[d] \in DrawRecords
        /\ draw'[d].exists = draw[d].exists /\ draw'[d].major = FALSE
        /\ draw'[d].title = draw[d].title /\ draw'[d].slug = draw[d].slug
        /\ draw'[d].position = draw[d].position
  BY <1>1 DEF DrawRecords, Major, Existing
<1>3. \A d \in Draws \ Major : draw'[d] = draw[d]
  OBVIOUS
<1>4. draw' \in [Draws -> {NoDraw} \cup DrawRecords]
  BY <1>2, <1>3 DEF TypeOK
<1>5. Existing' = Existing
  BY <1>2, <1>3 DEF Existing
<1>6. Major' = {}
  <2>1. \A d \in Existing : d \notin Major'
    BY <1>2, <1>3 DEF Major, Existing
  <2> QED
    BY <1>5, <2>1 DEF Major
<1> QED
  BY <1>2, <1>3, <1>4, <1>5, <1>6 DEF Existing

-------------------------------------------------------------------------------
\* Where the steps take a request

\* The requests other than r are where they were.
OthersKept(r) == \A s \in Requests \ {r} : request'[s] = request[s]

LEMMA ClearedLemma ==
    ASSUME TypeOK, NEW r \in Requests, request[r].pc \in {"clear"},
           request' = [request EXCEPT ![r].pc = "write"]
    PROVE  /\ request' \in [Requests -> RequestRecords] /\ OthersKept(r)
           /\ request'[r].pc = "write" /\ request'[r].op = request[r].op
           /\ request'[r].draw = request[r].draw /\ request'[r].title = request[r].title
           /\ request'[r].date = request[r].date /\ request'[r].major = request[r].major
           /\ request'[r].position = request[r].position
<1> DEFINE next == [request[r] EXCEPT !.pc = "write"]
<1>1. request[r] \in RequestRecords /\ request \in [Requests -> RequestRecords]
  BY DEF TypeOK
<1>2. /\ next \in RequestRecords /\ next.pc = "write" /\ next.op = request[r].op
      /\ next.draw = request[r].draw /\ next.title = request[r].title
      /\ next.date = request[r].date /\ next.major = request[r].major
      /\ next.position = request[r].position
  BY <1>1 DEF RequestRecords
<1>3. request' = [request EXCEPT ![r] = next]
  OBVIOUS
<1> HIDE DEF next
<1> QED
  BY <1>1, <1>2, <1>3 DEF OthersKept

\* A request that answers keeps what it was about, and nothing to do.
LEMMA EndedLemma ==
    ASSUME TypeOK, NEW r \in Requests, NEW pc \in {"done", "failed"},
           request' = [request EXCEPT ![r] = Ended(@, pc)]
    PROVE  /\ request' \in [Requests -> RequestRecords] /\ OthersKept(r)
           /\ request'[r].pc = pc /\ request'[r].op = request[r].op
           /\ request'[r].major = request[r].major
<1>1. <<>> \in Seq(Draws) /\ {} \in SUBSET Nat /\ 0 \in Nat
  OBVIOUS
<1>2. request[r] \in RequestRecords /\ request'[r] = Ended(request[r], pc)
  BY DEF TypeOK
<1>3. /\ Ended(request[r], pc) \in RequestRecords
      /\ Ended(request[r], pc).pc = pc /\ Ended(request[r], pc).op = request[r].op
      /\ Ended(request[r], pc).major = request[r].major
  BY <1>1, <1>2 DEF Ended, NewRequest, None, RequestRecords
<1> QED
  BY <1>2, <1>3 DEF TypeOK, OthersKept

\* The requests that are refused before they start.
LEMMA RefusedLemma ==
    ASSUME TypeOK, NEW r \in Requests, RefuseMove(r) \/ RefuseOrder(r)
    PROVE  /\ request' \in [Requests -> RequestRecords] /\ OthersKept(r)
           /\ request[r].pc = "new" /\ request'[r].pc = "failed"
           /\ UNCHANGED <<prizeName, draw, visit, history>>
<1>1. /\ request[r].pc = "new"
      /\ \E op \in {"update", "order"} :
            request' = [request EXCEPT ![r].pc = "failed", ![r].op = op]
  BY DEF RefuseMove, RefuseOrder
<1>2. UNCHANGED <<prizeName, draw, visit, history>>
  BY DEF RefuseMove, RefuseOrder
<1>3. PICK op \in {"update", "order"} :
        request' = [request EXCEPT ![r] = [request[r] EXCEPT !.pc = "failed", !.op = op]]
  BY <1>1 DEF TypeOK
<1> DEFINE next == [request[r] EXCEPT !.pc = "failed", !.op = op]
<1>r. request[r] \in RequestRecords /\ request \in [Requests -> RequestRecords]
  BY DEF TypeOK
<1>4. next \in RequestRecords /\ next.pc = "failed"
  BY <1>r DEF RequestRecords
<1>n. request' = [request EXCEPT ![r] = next]
  BY <1>3
<1> HIDE DEF next
<1>5. request' \in [Requests -> RequestRecords] /\ OthersKept(r) /\ request'[r].pc = "failed"
  BY <1>r, <1>4, <1>n DEF OthersKept
<1> QED
  BY <1>1, <1>2, <1>5

LEMMA CountLemma ==
    ASSUME TypeOK, NEW r \in Requests, CountForPosition(r)
    PROVE  /\ request' \in [Requests -> RequestRecords] /\ OthersKept(r)
           /\ request[r].pc = "new" /\ request'[r].op = "create"
           /\ request'[r].title \in Titles /\ request'[r].date \in Dates
           /\ \/ request'[r].pc = "clear" /\ request'[r].major = "yes"
              \/ request'[r].pc = "write" /\ request'[r].major = "no"
           /\ request'[r].position = Cardinality(Existing)
           /\ UNCHANGED <<prizeName, draw, visit, history>>
<1>1. PICK title \in Titles, date \in Dates, major \in {"yes", "no"} :
        request' = [request EXCEPT ![r] =
              [@ EXCEPT !.op = "create", !.pc = IF major = "yes" THEN "clear" ELSE "write",
                        !.title = title, !.date = date, !.major = major,
                        !.position = Cardinality(Existing)]]
  BY DEF CountForPosition
<1>2. Cardinality(Existing) \in Nat
  BY ExistingIsFinite
<1> DEFINE q == [request[r] EXCEPT !.op = "create", !.pc = IF major = "yes" THEN "clear" ELSE "write",
                        !.title = title, !.date = date, !.major = major,
                        !.position = Cardinality(Existing)]
<1>3. /\ q \in RequestRecords /\ q.op = "create" /\ q.title = title /\ q.date = date
      /\ q.pc = IF major = "yes" THEN "clear" ELSE "write"
      /\ q.major = major /\ q.position = Cardinality(Existing)
  <2>1. request[r] \in RequestRecords
    BY DEF TypeOK
  <2> QED
    BY <1>2, <2>1, ZenonT(60) DEF RequestRecords
<1>4. request' = [request EXCEPT ![r] = q]
  BY <1>1
<1> HIDE DEF q
<1>5. request' \in [Requests -> RequestRecords] /\ OthersKept(r) /\ request'[r] = q
  BY <1>3, <1>4 DEF TypeOK, OthersKept
<1>6. request[r].pc = "new" /\ UNCHANGED <<prizeName, draw, visit, history>>
  BY DEF CountForPosition
<1> QED
  BY <1>3, <1>5, <1>6

LEMMA ReadDrawLemma ==
    ASSUME TypeOK, NEW r \in Requests, ReadDraw(r)
    PROVE  /\ request' \in [Requests -> RequestRecords] /\ OthersKept(r)
           /\ request[r].pc = "new" /\ request'[r].draw \in Existing
           /\ request'[r].title \in Titles
           /\ \/ /\ request'[r].op = "update"
                 /\ request'[r].title = draw[request'[r].draw].title
              \/ request'[r].op = "rename"
           /\ \/ request'[r].pc = "clear" /\ request'[r].major = "yes"
              \/ request'[r].pc = "write" /\ request'[r].major # "yes"
           /\ UNCHANGED <<prizeName, draw, visit, history>>
<1>1. PICK d \in Existing, title \in Titles \cup {None}, date \in Dates \cup {None},
          major \in {"yes", "no", None} :
        /\ draw[d].status = "drawn" => date = None
        /\ request' = [request EXCEPT ![r] =
                 [@ EXCEPT !.op = IF title = None THEN "update" ELSE "rename",
                           !.pc = IF major = "yes" THEN "clear" ELSE "write",
                           !.draw = d, !.title = IF title = None THEN draw[d].title ELSE title,
                           !.date = date, !.major = major]]
  BY DEF ReadDraw
<1>2. d \in Draws /\ draw[d].title \in Titles /\ (title # None => title \in Titles)
  BY DrawKinds DEF Existing, DrawRecords
<1> DEFINE q == [request[r] EXCEPT !.op = IF title = None THEN "update" ELSE "rename",
                           !.pc = IF major = "yes" THEN "clear" ELSE "write",
                           !.draw = d, !.title = IF title = None THEN draw[d].title ELSE title,
                           !.date = date, !.major = major]
<1>3. /\ q \in RequestRecords /\ q.draw = d /\ q.title \in Titles
      /\ (q.op = "update" /\ q.title = draw[d].title) \/ q.op = "rename"
      /\ (q.pc = "clear" /\ q.major = "yes") \/ (q.pc = "write" /\ q.major # "yes")
  <2> DEFINE name == IF title = None THEN draw[d].title ELSE title
             op == IF title = None THEN "update" ELSE "rename"
             pc == IF major = "yes" THEN "clear" ELSE "write"
  <2>1. /\ name \in Titles /\ op \in {"update", "rename"} /\ pc \in {"clear", "write"}
        /\ op = "update" => name = draw[d].title
        /\ pc = "clear" <=> major = "yes"
    BY <1>2
  <2>2. q = [request[r] EXCEPT !.op = op, !.pc = pc, !.draw = d, !.title = name,
                               !.date = date, !.major = major]
    OBVIOUS
  <2> HIDE DEF name, op, pc, q
  <2>a. /\ request[r] \in RequestRecords /\ d \in Draws \cup {None} /\ name \in Titles \cup {None}
        /\ op \in {None, "create", "update", "rename", "order"}
        /\ pc \in {"new", "clear", "write", "reorder", "done", "failed"}
    BY <1>2, <2>1 DEF TypeOK
  <2>3. q \in RequestRecords
    BY <2>a, <2>2, ZenonT(60) DEF RequestRecords
  <2>4. q.draw = d /\ q.title = name /\ q.op = op /\ q.pc = pc /\ q.major = major
    BY <2>2 DEF TypeOK, RequestRecords
  <2> QED
    BY <2>1, <2>3, <2>4
<1>4. request' = [request EXCEPT ![r] = q]
  BY <1>1
<1> HIDE DEF q
<1>5. request' \in [Requests -> RequestRecords] /\ OthersKept(r) /\ request'[r] = q
  BY <1>3, <1>4 DEF TypeOK, OthersKept
<1>6. request[r].pc = "new" /\ UNCHANGED <<prizeName, draw, visit, history>>
  BY DEF ReadDraw
<1> QED
  BY <1>3, <1>5, <1>6

LEMMA FindLemma ==
    ASSUME TypeOK, NEW r \in Requests, FindOrdered(r)
    PROVE  /\ request' \in [Requests -> RequestRecords] /\ OthersKept(r)
           /\ request[r].pc = "new" /\ request'[r].pc = "reorder" /\ request'[r].op = "order"
           /\ request'[r].todo = DOMAIN request'[r].order
           /\ Len(request'[r].order) \in Nat
           /\ Len(request'[r].order) <= Cardinality(Existing)
           /\ DOMAIN request'[r].order = 1..Len(request'[r].order)
           /\ \A i \in DOMAIN request'[r].order : request'[r].order[i] \in Existing
           /\ \A i, j \in DOMAIN request'[r].order :
                 request'[r].order[i] = request'[r].order[j] => i = j
           /\ crossed' = IF Reordering # {} THEN crossed \cup Reordering \cup {r} ELSE crossed
           /\ UNCHANGED <<prizeName, draw, visit, mixed, raced, crowned>>
<1>1. PICK order \in Orderings :
        /\ Found(order) = Len(order)
        /\ request' = [request EXCEPT ![r] = [@ EXCEPT !.op = "order", !.pc = "reorder",
                                                       !.order = order, !.todo = DOMAIN order]]
        /\ crossed' = IF Reordering # {} THEN crossed \cup Reordering \cup {r} ELSE crossed
  BY DEF FindOrdered
<1>2. /\ order \in Seq(Draws) /\ DOMAIN order \subseteq Nat /\ DOMAIN order = 1..Len(order)
      /\ Len(order) \in Nat /\ Len(order) <= Cardinality(Existing)
      /\ \A i \in DOMAIN order : order[i] \in Existing
      /\ \A i, j \in DOMAIN order : order[i] = order[j] => i = j
  BY <1>1, FoundOrder
<1> DEFINE q == [request[r] EXCEPT !.op = "order", !.pc = "reorder",
                                   !.order = order, !.todo = DOMAIN order]
<1>3. /\ q \in RequestRecords /\ q.order = order /\ q.todo = DOMAIN order
      /\ q.pc = "reorder" /\ q.op = "order"
  <2> DEFINE places == DOMAIN order
  <2>1. places \in SUBSET Nat /\ order \in Seq(Draws)
    BY <1>2
  <2> HIDE DEF places
  <2>2. [request[r] EXCEPT !.op = "order", !.pc = "reorder", !.order = order, !.todo = places]
          \in RequestRecords
    <3>1. request[r] \in RequestRecords
      BY DEF TypeOK
    <3> QED
      BY <2>1, <3>1, ZenonT(60) DEF RequestRecords
  <2>3. q \in RequestRecords
    BY <2>2 DEF places
  <2> QED
    BY <2>3 DEF TypeOK, RequestRecords
<1>4. request' = [request EXCEPT ![r] = q]
  BY <1>1
<1> HIDE DEF q
<1>5. request' \in [Requests -> RequestRecords] /\ OthersKept(r) /\ request'[r] = q
  BY <1>3, <1>4 DEF TypeOK, OthersKept
<1>6. request[r].pc = "new" /\ UNCHANGED <<prizeName, draw, visit, mixed, raced, crowned>>
  BY DEF FindOrdered
<1> QED
  BY <1>1, <1>2, <1>3, <1>5, <1>6

-------------------------------------------------------------------------------
\* Types

\* What a page that is about to create the first draw knows.
VisitShape(v) == visit[v].pc \in {"count", "create"} => visit[v].name \in Titles

\* What a request carries by the time it writes.
Writing(r) == request[r].pc \in {"clear", "write"}
Naming(r) == request[r].pc = "reorder"

RequestShape(r) ==
    /\ request[r].pc = "clear" => request[r].major = "yes"
    /\ Writing(r) => request[r].op \in {"create", "update", "rename"}
    /\ Writing(r) /\ request[r].op = "create" =>
         /\ request[r].title \in Titles /\ request[r].date \in Dates
         /\ request[r].major \in {"yes", "no"}
    /\ Writing(r) /\ request[r].op \in {"update", "rename"} =>
         request[r].draw \in Existing /\ request[r].title \in Titles
    /\ Naming(r) =>
         /\ request[r].todo \subseteq DOMAIN request[r].order
         /\ DOMAIN request[r].order = 1..Len(request[r].order)
         /\ \A i \in DOMAIN request[r].order : request[r].order[i] \in Existing
         /\ \A i, j \in DOMAIN request[r].order :
               request[r].order[i] = request[r].order[j] => i = j

TypeInv ==
    /\ TypeOK
    /\ \A v \in Visits : VisitShape(v)
    /\ \A r \in Requests : RequestShape(r)

\* The calendar only grows, so what a request knows of it stays true.
LEMMA ShapesKept ==
    ASSUME NEW r \in Requests, \A s \in Requests : RequestShape(s), OthersKept(r),
           RequestShape(r)', Existing \subseteq Existing'
    PROVE  \A s \in Requests : RequestShape(s)'
<1> TAKE s \in Requests
<1>1. CASE s = r
  BY <1>1
<1>2. CASE s # r
  <2>1. request'[s] = request[s] /\ RequestShape(s)
    BY <1>2 DEF OthersKept
  <2> QED
    BY <2>1 DEF RequestShape, Writing, Naming
<1> QED
  BY <1>1, <1>2

LEMMA AllShapesKept ==
    ASSUME \A s \in Requests : RequestShape(s), UNCHANGED request, Existing \subseteq Existing'
    PROVE  \A s \in Requests : RequestShape(s)'
  BY DEF RequestShape, Writing, Naming

\* A page creates the first draw.
LEMMA InitialLemma ==
    ASSUME TypeOK, NEW v \in Visits, VisitShape(v), CreateInitial(v)
    PROVE  \E d \in Draws \ Existing :
             /\ draw' \in [Draws -> {NoDraw} \cup DrawRecords]
             /\ Existing' = Existing \cup {d}
             /\ Major' = Major \cup {d}
             /\ draw'[d].slug = SlugOf[draw'[d].title]
             /\ draw'[d].slug = FirstSlug(v)
             /\ draw'[d].position = 0
             /\ \A e \in Existing : draw'[e] = draw[e]
<1>1. PICK d \in Draws \ Existing, date \in Dates :
        draw' = [draw EXCEPT ![d] = NewDraw(visit[v].name, 0, date, TRUE)]
  BY DEF CreateInitial
<1>2. visit[v].name \in Titles /\ 0 \in Nat /\ TRUE \in BOOLEAN
  BY DEF CreateInitial, VisitShape
<1> DEFINE name == visit[v].name
<1>3. name \in Titles /\ draw' = [draw EXCEPT ![d] = NewDraw(name, 0, date, TRUE)]
  BY <1>1, <1>2
<1>a. FirstSlug(v) = SlugOf[name]
  BY DEF FirstSlug
<1> HIDE DEF name
<1> QED
  BY <1>2, <1>3, <1>a, CreateLemma, ZenonT(60)

\* A page has moved on, and holds what it needs.
LEMMA VisitLemma ==
    ASSUME TypeOK, NEW v \in Visits, Visit(v), \A w \in Visits : VisitShape(w)
    PROVE  /\ visit' \in [Visits -> VisitRecords]
           /\ \A w \in Visits : VisitShape(w)'
           /\ \A w \in Visits \ {v} : visit'[w] = visit[w]
           /\ visit'[v].pc = "create" => CountDraws(v) /\ Existing = {}
<1>0. visit[v] \in VisitRecords /\ VisitShape(v)
  BY DEF TypeOK
<1>1. CASE ReadRaffle(v)
  <2>1. /\ visit' \in [Visits -> VisitRecords] /\ visit'[v].pc = "count"
        /\ visit'[v].name \in Titles /\ \A w \in Visits \ {v} : visit'[w] = visit[w]
    BY <1>1 DEF ReadRaffle, TypeOK, VisitRecords
  <2> QED
    BY <2>1 DEF VisitShape
<1>2. CASE CountDraws(v)
  <2>1. /\ visit' \in [Visits -> VisitRecords] /\ visit'[v].name \in Titles
        /\ visit'[v].pc = "create" => Existing = {}
        /\ \A w \in Visits \ {v} : visit'[w] = visit[w]
    BY <1>0, <1>2 DEF CountDraws, TypeOK, VisitRecords, VisitShape
  <2> QED
    BY <1>2, <2>1 DEF VisitShape
<1>3. CASE CreateInitial(v)
  <2>1. /\ visit' \in [Visits -> VisitRecords] /\ visit'[v].pc = "list"
        /\ \A w \in Visits \ {v} : visit'[w] = visit[w]
    BY <1>3 DEF CreateInitial, TypeOK, VisitRecords
  <2> QED
    BY <2>1 DEF VisitShape
<1>4. CASE InitialClashes(v)
  <2>1. /\ visit' \in [Visits -> VisitRecords] /\ visit'[v].pc = "failed"
        /\ \A w \in Visits \ {v} : visit'[w] = visit[w]
    BY <1>4, ZenonT(60) DEF InitialClashes, TypeOK, VisitRecords
  <2> QED
    BY <2>1 DEF VisitShape
<1>5. CASE ListDraws(v)
  <2>1. Featured \subseteq Draws
    BY DEF Featured, First, Major, Existing
  <2>2. \/ \E d \in Draws : visit' = [visit EXCEPT ![v].pc = "answered", ![v].featured = d,
                                                   ![v].name = None]
        \/ visit' = [visit EXCEPT ![v].pc = "answered"]
    BY <1>5, <2>1 DEF ListDraws
  <2>a. \A d \in Draws :
          LET shown == [visit[v] EXCEPT !.pc = "answered", !.featured = d, !.name = None] IN
          shown \in VisitRecords /\ shown.pc = "answered"
    BY <1>0 DEF VisitRecords
  <2>b. LET shown == [visit[v] EXCEPT !.pc = "answered"] IN
        shown \in VisitRecords /\ shown.pc = "answered"
    BY <1>0 DEF VisitRecords
  <2>c. \/ \E d \in Draws : visit' = [visit EXCEPT ![v] =
              [visit[v] EXCEPT !.pc = "answered", !.featured = d, !.name = None]]
        \/ visit' = [visit EXCEPT ![v] = [visit[v] EXCEPT !.pc = "answered"]]
    BY <2>2 DEF TypeOK
  <2>d. \E shown \in VisitRecords : shown.pc = "answered" /\ visit' = [visit EXCEPT ![v] = shown]
    BY <2>a, <2>b, <2>c
  <2>3. /\ visit' \in [Visits -> VisitRecords] /\ visit'[v].pc = "answered"
        /\ \A w \in Visits \ {v} : visit'[w] = visit[w]
    BY <2>d DEF TypeOK
  <2> QED
    BY <2>3 DEF VisitShape
<1> QED
  BY <1>1, <1>2, <1>3, <1>4, <1>5 DEF Visit

\* A request creates a draw.
LEMMA CreateDrawLemma ==
    ASSUME TypeOK, NEW r \in Requests, RequestShape(r), CreateDraw(r)
    PROVE  \E d \in Draws \ Existing :
             /\ draw' \in [Draws -> {NoDraw} \cup DrawRecords]
             /\ Existing' = Existing \cup {d}
             /\ Major' = IF request[r].major = "yes" THEN Major \cup {d} ELSE Major
             /\ draw'[d].slug = SlugOf[draw'[d].title]
             /\ draw'[d].position = request[r].position
             /\ \A e \in Existing : draw'[e] = draw[e]
<1> DEFINE q == request[r]
<1>1. PICK d \in Draws \ Existing :
        draw' = [draw EXCEPT ![d] = NewDraw(q.title, q.position, q.date, q.major = "yes")]
  BY DEF CreateDraw
<1>2. q.title \in Titles /\ q.position \in Nat /\ q.date \in Dates
  BY DEF CreateDraw, RequestShape, Writing, TypeOK, RequestRecords
<1> DEFINE title == q.title  position == q.position  date == q.date  major == q.major = "yes"
<1>3. /\ title \in Titles /\ position \in Nat /\ date \in Dates /\ major \in BOOLEAN
      /\ draw' = [draw EXCEPT ![d] = NewDraw(title, position, date, major)]
  BY <1>1, <1>2
<1> HIDE DEF q, title, position, date, major
<1>4. /\ draw' \in [Draws -> {NoDraw} \cup DrawRecords]
      /\ Existing' = Existing \cup {d}
      /\ Major' = IF major THEN Major \cup {d} ELSE Major
      /\ draw'[d].slug = SlugOf[draw'[d].title]
      /\ draw'[d].position = position
      /\ \A e \in Existing : draw'[e] = draw[e]
  BY <1>3, CreateLemma, ZenonT(60)
<1> QED
  BY <1>4 DEF q, position, major

\* A request writes the draw it has read.
LEMMA WriteLemma ==
    ASSUME TypeOK, NEW r \in Requests, RequestShape(r), WriteDraw(r)
    PROVE  LET q == request[r]  d == q.draw IN
           /\ d \in Existing
           /\ draw' \in [Draws -> {NoDraw} \cup DrawRecords]
           /\ Existing' = Existing
           /\ Major' = IF draw'[d].major THEN Major \cup {d} ELSE Major \ {d}
           /\ draw'[d].major = (q.major = "yes" \/ (q.major = None /\ draw[d].major))
           /\ draw'[d].title = IF q.op = "rename" THEN q.title ELSE draw[d].title
           /\ draw'[d].slug = SlugOf[q.title]
           /\ draw'[d].position = draw[d].position
           /\ \A e \in Draws \ {d} : draw'[e] = draw[e]
<1> DEFINE q == request[r]  d == q.draw  doc == Updated(d, q)
<1>1. d \in Existing /\ q.title \in Titles /\ q \in RequestRecords
  BY DEF WriteDraw, RequestShape, Writing, TypeOK
<1>2. d \in Draws /\ draw[d] \in DrawRecords
  BY <1>1, DrawKinds DEF Existing
<1>3. /\ doc \in DrawRecords
      /\ doc.major = (q.major = "yes" \/ (q.major = None /\ draw[d].major))
      /\ doc.title = IF q.op = "rename" THEN q.title ELSE draw[d].title
      /\ doc.slug = SlugOf[q.title] /\ doc.position = draw[d].position
  <2> HIDE DEF q, d
  <2>1. q.date \in Dates \cup {None} /\ q.major \in {"yes", "no", None}
    BY <1>1 DEF RequestRecords
  <2>2. SlugOf[q.title] \in {SlugOf[t] : t \in Titles}
    BY <1>1
  <2> QED
    BY <1>1, <1>2, <2>1, <2>2 DEF DrawRecords, Updated, None
<1>4. draw' = [draw EXCEPT ![d] = doc]
  BY DEF WriteDraw
<1> HIDE DEF doc
<1>5. /\ draw' \in [Draws -> {NoDraw} \cup DrawRecords]
      /\ Existing' = Existing
      /\ Major' = IF doc.major THEN Major \cup {d} ELSE Major \ {d}
      /\ draw'[d] = doc
      /\ \A e \in Draws \ {d} : draw'[e] = draw[e]
  BY <1>1, <1>3, <1>4, EditLemma
<1> QED
  BY <1>1, <1>3, <1>5

\* A reordering gives one of its draws its position.
LEMMA PositionLemma ==
    ASSUME TypeOK, NEW r \in Requests, RequestShape(r), SetPosition(r)
    PROVE  \E i \in request[r].todo :
             /\ i \in DOMAIN request[r].order /\ request[r].order[i] \in Existing
             /\ draw' \in [Draws -> {NoDraw} \cup DrawRecords]
             /\ Existing' = Existing
             /\ Major' = Major
             /\ draw'[request[r].order[i]].position = i - 1
             /\ \A e \in Existing : /\ draw'[e].title = draw[e].title
                                    /\ draw'[e].slug = draw[e].slug
             /\ \A e \in Draws \ {request[r].order[i]} : draw'[e] = draw[e]
             /\ request' \in [Requests -> RequestRecords] /\ OthersKept(r)
             /\ request'[r].pc = "reorder" /\ request'[r].order = request[r].order
             /\ request'[r].todo = request[r].todo \ {i}
<1>1. PICK i \in request[r].todo :
        /\ draw' = [draw EXCEPT ![request[r].order[i]].position = i - 1]
        /\ request' = [request EXCEPT ![r].todo = @ \ {i}]
  BY DEF SetPosition
<1> DEFINE d == request[r].order[i]  doc == [draw[d] EXCEPT !.position = i - 1]
<1>2. i \in DOMAIN request[r].order /\ i \in 1..Len(request[r].order) /\ d \in Existing
  BY DEF SetPosition, RequestShape, Naming
<1>3. d \in Draws /\ draw[d] \in DrawRecords /\ (d \in Major <=> draw[d].major)
  BY <1>2, DrawKinds DEF Existing, Major
<1>4. i \in Nat /\ i >= 1
  BY <1>2
<1>5. /\ doc \in DrawRecords /\ doc.major = draw[d].major /\ doc.title = draw[d].title
      /\ doc.slug = draw[d].slug /\ doc.position = i - 1
  <2> DEFINE place == i - 1
  <2>1. place \in Nat
    BY <1>4
  <2> HIDE DEF d, place
  <2>2. /\ [draw[d] EXCEPT !.position = place] \in DrawRecords
        /\ [draw[d] EXCEPT !.position = place].major = draw[d].major
        /\ [draw[d] EXCEPT !.position = place].title = draw[d].title
        /\ [draw[d] EXCEPT !.position = place].slug = draw[d].slug
        /\ [draw[d] EXCEPT !.position = place].position = place
    BY <1>3, <2>1 DEF DrawRecords
  <2> QED
    BY <2>2 DEF place
<1>6. draw' = [draw EXCEPT ![d] = doc]
  BY <1>1
<1> HIDE DEF doc
<1>7. /\ draw' \in [Draws -> {NoDraw} \cup DrawRecords]
      /\ Existing' = Existing
      /\ Major' = IF doc.major THEN Major \cup {d} ELSE Major \ {d}
      /\ draw'[d] = doc
      /\ \A e \in Draws \ {d} : draw'[e] = draw[e]
  BY <1>2, <1>5, <1>6, EditLemma
<1>8. Major' = Major
  BY <1>3, <1>5, <1>7
<1>9. \A e \in Existing : draw'[e].title = draw[e].title /\ draw'[e].slug = draw[e].slug
  BY <1>5, <1>7 DEF Existing
<1>10. /\ request' \in [Requests -> RequestRecords] /\ OthersKept(r)
       /\ request'[r].pc = "reorder" /\ request'[r].order = request[r].order
       /\ request'[r].todo = request[r].todo \ {i}
  <2>1. request[r].pc = "reorder" /\ request[r].todo \in SUBSET Nat
    BY DEF SetPosition, TypeOK, RequestRecords
  <2> DEFINE left == request[r].todo \ {i}
  <2>2. left \in SUBSET Nat /\ request' = [request EXCEPT ![r].todo = left]
    BY <1>1, <2>1
  <2> HIDE DEF left
  <2> DEFINE rest == [request[r] EXCEPT !.todo = left]
  <2>a. /\ rest \in RequestRecords /\ rest.pc = "reorder" /\ rest.order = request[r].order
        /\ rest.todo = left
    <3>1. request[r] \in RequestRecords
      BY DEF TypeOK
    <3> QED
      BY <2>1, <2>2, <3>1, SMTT(30) DEF RequestRecords
  <2>b. request' = [request EXCEPT ![r] = rest]
    BY <2>2
  <2> HIDE DEF rest
  <2>3. /\ request' \in [Requests -> RequestRecords] /\ OthersKept(r)
        /\ request'[r].pc = "reorder" /\ request'[r].order = request[r].order
        /\ request'[r].todo = left
    BY <2>a, <2>b DEF TypeOK, OthersKept
  <2> QED
    BY <2>3 DEF left
<1> QED
  BY <1>2, <1>5, <1>7, <1>8, <1>9, <1>10

\* A settlement changes the status of a draw and nothing else of it.
LEMMA SettleLemma ==
    ASSUME TypeOK, NEW d \in Draws, Settle(d)
    PROVE  /\ draw' \in [Draws -> {NoDraw} \cup DrawRecords]
           /\ Existing' = Existing
           /\ Major' = Major
           /\ \A e \in Existing : /\ draw'[e].title = draw[e].title
                                  /\ draw'[e].slug = draw[e].slug
                                  /\ draw'[e].position = draw[e].position
<1> DEFINE doc == [draw[d] EXCEPT !.status = "drawn"]
<1>1. d \in Existing /\ draw' = [draw EXCEPT ![d] = doc]
  BY DEF Settle
<1>2. draw[d] \in DrawRecords /\ (d \in Major <=> draw[d].major)
  BY <1>1, DrawKinds DEF Major
<1>3. /\ doc \in DrawRecords /\ doc.major = draw[d].major /\ doc.title = draw[d].title
      /\ doc.slug = draw[d].slug /\ doc.position = draw[d].position
  BY <1>2 DEF DrawRecords
<1> HIDE DEF doc
<1>4. /\ draw' \in [Draws -> {NoDraw} \cup DrawRecords]
      /\ Existing' = Existing
      /\ Major' = IF doc.major THEN Major \cup {d} ELSE Major \ {d}
      /\ draw'[d] = doc
      /\ \A e \in Draws \ {d} : draw'[e] = draw[e]
  BY <1>1, <1>3, EditLemma
<1>5. Major' = Major
  BY <1>2, <1>3, <1>4
<1> QED
  BY <1>3, <1>4, <1>5 DEF Existing

LEMMA InitTypeInv == ASSUME Init PROVE TypeInv
<1>1. NewVisit \in VisitRecords /\ NewVisit.pc = "new"
  BY DEF NewVisit, VisitRecords
<1>2. NewRequest \in RequestRecords /\ NewRequest.pc = "new"
  <2>1. <<>> \in Seq(Draws) /\ {} \in SUBSET Nat /\ 0 \in Nat
    OBVIOUS
  <2> QED
    BY <2>1 DEF NewRequest, RequestRecords
<1>3. TypeOK
  BY <1>1, <1>2 DEF Init, TypeOK
<1>4. \A v \in Visits : VisitShape(v)
  BY <1>1 DEF Init, VisitShape
<1>5. \A r \in Requests : RequestShape(r)
  BY <1>2 DEF Init, RequestShape, Writing, Naming
<1> QED
  BY <1>3, <1>4, <1>5 DEF TypeInv

\* Each step keeps the state well typed.
LEMMA StepTypeInv == TypeInv /\ [Next]_vars => TypeInv'
<1> SUFFICES ASSUME TypeInv, [Next]_vars
             PROVE  TypeInv'
  OBVIOUS
<1>0. /\ TypeOK /\ \A v \in Visits : VisitShape(v)
      /\ \A s \in Requests : RequestShape(s)
  BY DEF TypeInv
<1>1. CASE UNCHANGED vars
  <2>1. TypeOK' /\ (\A v \in Visits : VisitShape(v)') /\ Existing' = Existing
    BY <1>0, <1>1 DEF vars, history, TypeOK, VisitShape, Existing
  <2> QED
    BY <1>0, <1>1, <2>1, AllShapesKept DEF vars, TypeInv
<1>2. ASSUME NEW v \in Visits, Visit(v) PROVE TypeInv'
  <2>1. /\ draw' \in [Draws -> {NoDraw} \cup DrawRecords]
        /\ Existing \subseteq Existing'
    <3>1. CASE CreateInitial(v)
      BY <1>0, <3>1, InitialLemma
    <3>2. CASE ~CreateInitial(v)
      <4>1. UNCHANGED draw
        BY <1>2, <3>2 DEF Visit, ReadRaffle, CountDraws, InitialClashes, ListDraws
      <4> QED
        BY <1>0, <4>1 DEF TypeOK, Existing
    <3> QED
      BY <3>1, <3>2
  <2>2. /\ UNCHANGED <<prizeName, request, raced, crossed>>
        /\ mixed' \in BOOLEAN /\ crowned' \in BOOLEAN
    BY <1>0, <1>2
    DEF TypeOK, history, Visit, ReadRaffle, CountDraws, CreateInitial, InitialClashes, ListDraws
  <2>3. visit' \in [Visits -> VisitRecords] /\ \A w \in Visits : VisitShape(w)'
    BY <1>0, <1>2, VisitLemma
  <2>4. TypeOK'
    BY <1>0, <2>1, <2>2, <2>3 DEF TypeOK
  <2> QED
    BY <1>0, <2>1, <2>2, <2>3, <2>4, AllShapesKept DEF TypeInv
<1>3. ASSUME NEW r \in Requests, Create(r) \/ Update(r) \/ Reorder(r) PROVE TypeInv'
  <2>1. UNCHANGED <<prizeName, visit>>
    BY <1>3
    DEF history, Create, CountForPosition, ClearMajorFlag, CreateDraw, CreateClashes,
        Update, ReadDraw, RefuseMove, WriteDraw, WriteClashes,
        Reorder, FindOrdered, RefuseOrder, SetPosition, AnswerReorder
  <2>2. mixed' \in BOOLEAN /\ crowned' \in BOOLEAN /\ raced' \subseteq Draws /\ crossed' \subseteq Requests
    <3>1. CASE FindOrdered(r)
      BY <1>0, <3>1, FindLemma DEF TypeOK, Reordering
    <3>2. CASE WriteDraw(r)
      <4>1. request[r].draw \in Draws
        BY <1>0, <3>2, WriteLemma DEF Existing
      <4> QED
        BY <1>0, <3>2, <4>1 DEF TypeOK, WriteDraw
    <3>3. CASE ~FindOrdered(r) /\ ~WriteDraw(r)
      BY <1>0, <1>3, <3>3
      DEF TypeOK, history, Create, CountForPosition, ClearMajorFlag, CreateDraw, CreateClashes,
          Update, ReadDraw, RefuseMove, WriteClashes,
          Reorder, RefuseOrder, SetPosition, AnswerReorder
    <3> QED
      BY <3>1, <3>2, <3>3
  <2>3. /\ draw' \in [Draws -> {NoDraw} \cup DrawRecords]
        /\ request' \in [Requests -> RequestRecords]
        /\ OthersKept(r) /\ RequestShape(r)' /\ Existing \subseteq Existing'
    <3>0. draw \in [Draws -> {NoDraw} \cup DrawRecords] /\ RequestShape(r)
      BY <1>0 DEF TypeOK
    <3>1. CASE CountForPosition(r)
      <4>1. UNCHANGED draw /\ Existing' = Existing
        BY <1>0, <3>1, CountLemma DEF Existing
      <4> QED
        BY <1>0, <3>0, <3>1, <4>1, CountLemma DEF RequestShape, Writing, Naming
    <3>2. CASE ClearMajorFlag(r)
      <4>1. /\ request[r].pc = "clear" /\ request' = [request EXCEPT ![r].pc = "write"]
            /\ draw' = [d \in Draws |-> IF d \in Major THEN [draw[d] EXCEPT !.major = FALSE] ELSE draw[d]]
        BY <3>2 DEF ClearMajorFlag
      <4>2. draw' \in [Draws -> {NoDraw} \cup DrawRecords] /\ Existing' = Existing
        BY <1>0, <4>1, ClearLemma
      <4>3. /\ request' \in [Requests -> RequestRecords] /\ OthersKept(r)
            /\ request'[r].pc = "write" /\ request'[r].op = request[r].op
            /\ request'[r].draw = request[r].draw /\ request'[r].title = request[r].title
            /\ request'[r].date = request[r].date /\ request'[r].major = request[r].major
        BY <1>0, <4>1, ClearedLemma
      <4>4. RequestShape(r)'
        BY <3>0, <4>1, <4>2, <4>3 DEF RequestShape, Writing, Naming
      <4> QED
        BY <3>0, <4>2, <4>3, <4>4
    <3>3. CASE CreateDraw(r)
      <4>1. request' = [request EXCEPT ![r] = Ended(@, "done")]
        BY <3>3 DEF CreateDraw
      <4>2. /\ request'[r].pc = "done"
            /\ request' \in [Requests -> RequestRecords] /\ OthersKept(r)
        BY <1>0, <4>1, EndedLemma
      <4>3. draw' \in [Draws -> {NoDraw} \cup DrawRecords] /\ Existing \subseteq Existing'
        BY <1>0, <3>0, <3>3, CreateDrawLemma
      <4>4. RequestShape(r)'
        BY <4>2 DEF RequestShape, Writing, Naming
      <4> QED
        BY <4>2, <4>3, <4>4
    <3>4. CASE CreateClashes(r) \/ WriteClashes(r)
      <4>1. UNCHANGED draw /\ request' = [request EXCEPT ![r] = Ended(@, "failed")]
        BY <3>4 DEF CreateClashes, WriteClashes
      <4> QED
        BY <1>0, <3>0, <4>1, EndedLemma DEF RequestShape, Writing, Naming, Existing
    <3>5. CASE ReadDraw(r)
      <4>1. UNCHANGED draw /\ Existing' = Existing
        BY <1>0, <3>5, ReadDrawLemma DEF Existing
      <4>2. /\ request'[r].draw \in Existing' /\ request'[r].title \in Titles
            /\ request'[r].op \in {"update", "rename"} /\ request'[r].pc \in {"clear", "write"}
            /\ request'[r].pc = "clear" => request'[r].major = "yes"
            /\ request' \in [Requests -> RequestRecords] /\ OthersKept(r)
        BY <1>0, <3>5, <4>1, ReadDrawLemma
      <4>3. RequestShape(r)'
        BY <4>2 DEF RequestShape, Writing, Naming
      <4> QED
        BY <3>0, <4>1, <4>2, <4>3
    <3>6. CASE RefuseMove(r) \/ RefuseOrder(r)
      <4>1. /\ UNCHANGED draw /\ request'[r].pc = "failed"
            /\ request' \in [Requests -> RequestRecords] /\ OthersKept(r)
        BY <1>0, <3>6, RefusedLemma
      <4>2. RequestShape(r)'
        BY <4>1 DEF RequestShape, Writing, Naming
      <4> QED
        BY <3>0, <4>1, <4>2 DEF Existing
    <3>7. CASE WriteDraw(r)
      <4>1. request' = [request EXCEPT ![r] = Ended(@, "done")]
        BY <3>7 DEF WriteDraw
      <4> QED
        BY <1>0, <3>0, <3>7, <4>1, EndedLemma, WriteLemma DEF RequestShape, Writing, Naming
    <3>8. CASE FindOrdered(r)
      <4>1. UNCHANGED draw /\ Existing' = Existing
        BY <1>0, <3>8, FindLemma DEF Existing
      <4>2. RequestShape(r)'
        BY <1>0, <3>8, <4>1, FindLemma DEF RequestShape, Writing, Naming
      <4> QED
        BY <1>0, <3>0, <3>8, <4>1, <4>2, FindLemma
    <3>9. CASE SetPosition(r)
      <4>1. request[r].pc = "reorder"
        BY <3>9 DEF SetPosition
      <4> QED
        BY <1>0, <3>0, <3>9, <4>1, PositionLemma DEF RequestShape, Writing, Naming
    <3>10. CASE AnswerReorder(r)
      <4>1. UNCHANGED draw /\ request' = [request EXCEPT ![r] = Ended(@, "done")]
        BY <3>10 DEF AnswerReorder
      <4> QED
        BY <1>0, <3>0, <4>1, EndedLemma DEF RequestShape, Writing, Naming, Existing
    <3> QED
      BY <1>3, <3>1, <3>2, <3>3, <3>4, <3>5, <3>6, <3>7, <3>8, <3>9, <3>10
      DEF Create, Update, Reorder
  <2>4. TypeOK'
    BY <1>0, <2>1, <2>2, <2>3 DEF TypeOK
  <2>5. \A w \in Visits : VisitShape(w)'
    BY <1>0, <2>1 DEF VisitShape
  <2> QED
    BY <1>0, <2>3, <2>4, <2>5, ShapesKept DEF TypeInv
<1>4. ASSUME NEW d \in Draws, Settle(d) PROVE TypeInv'
  <2>1. UNCHANGED <<prizeName, visit, request, mixed, raced, crossed, crowned>>
    BY <1>4 DEF Settle, history
  <2>2. TypeOK' /\ Existing' = Existing
    BY <1>0, <1>4, <2>1, SettleLemma DEF TypeOK
  <2> QED
    BY <1>0, <2>1, <2>2, AllShapesKept DEF TypeInv, VisitShape
<1>5. CASE RenamePrize
  <2>1. UNCHANGED <<draw, visit, request, mixed, raced, crossed, crowned>> /\ prizeName' \in Titles
    BY <1>5 DEF RenamePrize, history
  <2>2. TypeOK' /\ Existing' = Existing
    BY <1>0, <2>1 DEF TypeOK, Existing
  <2> QED
    BY <1>0, <2>1, <2>2, AllShapesKept DEF TypeInv, VisitShape
<1> QED
  BY <1>1, <1>2, <1>3, <1>4, <1>5 DEF Next

\* Draws, pages and requests keep their shape.
THEOREM TypeCorrect == Spec => []TypeOK
<1>1. TypeInv => TypeOK
  BY DEF TypeInv
<1>2. Init => TypeInv
  BY InitTypeInv
<1> QED
  BY <1>1, <1>2, StepTypeInv, PTL DEF Spec

-------------------------------------------------------------------------------
\* The major prize

\* A page, or a request, is about to make a draw the major prize.
Makes(v) == visit[v].pc = "create"
Crowns(r) == request[r].pc = "write" /\ request[r].major = "yes"

\* Some draw has the slug, so nobody creates another one with it.
Taken(slug) == \E d \in Existing : draw[d].slug = slug

\* Unless they overlap with others, those about to crown a draw are one request, or pages with
\* one slug; and nothing is crowned then, but for the draw whose slug they will clash with.
OneCrowning ==
    ~mixed =>
        /\ \A v, w \in Visits : Makes(v) /\ Makes(w) => FirstSlug(v) = FirstSlug(w)
        /\ \A r, q \in Requests : Crowns(r) /\ Crowns(q) => r = q
        /\ \A v \in Visits, r \in Requests : ~(Makes(v) /\ Crowns(r))
        /\ \A v \in Visits : Makes(v) => Major = {} \/ Taken(FirstSlug(v))
        /\ \A r \in Requests : Crowns(r) => Major = {}
        /\ \A d, e \in Major : d = e

\* No page starts on a first draw, or on another one than it had in mind.
PagesKept == \A v \in Visits : Makes(v)' => Makes(v) /\ FirstSlug(v)' = FirstSlug(v)
RequestsKept == \A r \in Requests : Crowns(r)' => Crowns(r)
SlugsKept == \A d \in Existing : d \in Existing' /\ draw'[d].slug = draw[d].slug

\* The five things a step can do about it: nothing, start a first draw, clear the flag, crown a
\* first draw, crown another.
CrownsNothing ==
    /\ PagesKept /\ RequestsKept
    /\ Major' \subseteq Major
    /\ ~mixed' => /\ ~mixed
                  /\ \A v \in Visits : Makes(v)' /\ Taken(FirstSlug(v)) => Taken(FirstSlug(v))'

StartsFirst(v) ==
    /\ \A w \in Visits \ {v} : Makes(w)' => Makes(w) /\ FirstSlug(w)' = FirstSlug(w)
    /\ FirstSlug(v)' = FirstSlug(v)
    /\ RequestsKept
    /\ Major' = {}
    /\ mixed' = (mixed \/ Rivals(v) # {})

ClearsFlag(r) ==
    /\ PagesKept
    /\ \A q \in Requests : Crowns(q)' => Crowns(q) \/ q = r
    /\ Major' = {}
    /\ mixed' = (mixed \/ Crowning # {})

CrownsFirst(v, d) ==
    /\ Makes(v) /\ ~Taken(FirstSlug(v))
    /\ Taken(FirstSlug(v))' /\ FirstSlug(v)' = FirstSlug(v)
    /\ PagesKept /\ RequestsKept
    /\ Major' = Major \cup {d}
    /\ UNCHANGED mixed

CrownsDraw(r, d) ==
    /\ Crowns(r) /\ ~Crowns(r)'
    /\ PagesKept /\ RequestsKept
    /\ Major' \subseteq Major \cup {d}
    /\ ~mixed' => ~mixed

LEMMA CrowningSteps ==
    ASSUME TypeInv, [Next]_vars
    PROVE  \/ CrownsNothing
           \/ \E v \in Visits : StartsFirst(v)
           \/ \E r \in Requests : ClearsFlag(r)
           \/ \E v \in Visits, d \in Draws : CrownsFirst(v, d)
           \/ \E r \in Requests, d \in Draws : CrownsDraw(r, d)
<1>0. /\ TypeOK /\ \A v \in Visits : VisitShape(v)
      /\ \A s \in Requests : RequestShape(s)
  BY DEF TypeInv
<1>a. UNCHANGED draw => Existing' = Existing /\ Major' = Major /\ SlugsKept
  BY DEF Existing, Major, SlugsKept
<1>b. UNCHANGED visit => PagesKept
  BY DEF Makes, FirstSlug, PagesKept
<1>c. UNCHANGED request => RequestsKept
  BY DEF Crowns, RequestsKept
<1>d. \A r \in Requests :
        OthersKept(r) => \A q \in Requests \ {r} : Crowns(q)' <=> Crowns(q)
  BY DEF Crowns, OthersKept
<1>e. SlugsKept /\ PagesKept =>
        \A v \in Visits : Makes(v)' /\ Taken(FirstSlug(v)) => Taken(FirstSlug(v))'
  <2> SUFFICES ASSUME SlugsKept, PagesKept, NEW v \in Visits, Makes(v)', Taken(FirstSlug(v))
               PROVE  Taken(FirstSlug(v))'
    OBVIOUS
  <2>1. FirstSlug(v)' = FirstSlug(v)
    BY DEF PagesKept
  <2>2. PICK d \in Existing : draw[d].slug = FirstSlug(v)
    BY DEF Taken
  <2>3. d \in Existing' /\ draw'[d].slug = FirstSlug(v)'
    BY <2>1, <2>2 DEF SlugsKept
  <2> QED
    BY <2>3 DEF Taken
<1>f. PagesKept /\ RequestsKept /\ SlugsKept /\ Major' \subseteq Major /\ UNCHANGED mixed
        => CrownsNothing
  BY <1>e DEF CrownsNothing
<1>1. CASE UNCHANGED vars
  BY <1>1, <1>a, <1>b, <1>c, <1>f DEF vars, history
<1>2. ASSUME NEW v \in Visits, Visit(v)
      PROVE  CrownsNothing \/ StartsFirst(v) \/ \E d \in Draws : CrownsFirst(v, d)
  <2>0. /\ RequestsKept
        /\ \A w \in Visits \ {v} : Makes(w)' => Makes(w) /\ FirstSlug(w)' = FirstSlug(w)
    <3>1. UNCHANGED request
      BY <1>2
      DEF Visit, ReadRaffle, CountDraws, CreateInitial, InitialClashes, ListDraws, history
    <3>2. \A w \in Visits \ {v} : visit'[w] = visit[w]
      BY <1>0, <1>2, VisitLemma
    <3> QED
      BY <3>1, <3>2, <1>c DEF Makes, FirstSlug
  <2>1. CASE CreateInitial(v)
    <3>1. PICK d \in Draws \ Existing :
            Major' = Major \cup {d} /\ Existing' = Existing \cup {d} /\ draw'[d].slug = FirstSlug(v)
      BY <1>0, <2>1, InitialLemma
    <3>2. /\ Makes(v) /\ ~Makes(v)' /\ UNCHANGED mixed
          /\ FirstSlug(v)' = FirstSlug(v)
      BY <1>0, <2>1 DEF CreateInitial, Makes, FirstSlug, TypeOK, VisitRecords
    <3>3. ~Taken(FirstSlug(v))
      BY <2>1 DEF CreateInitial, SlugIsFree, Taken, Existing
    <3>4. Taken(FirstSlug(v))'
      BY <3>1, <3>2 DEF Taken
    <3>5. PagesKept
      BY <2>0, <3>2 DEF PagesKept
    <3>6. CrownsFirst(v, d)
      BY <2>0, <3>1, <3>2, <3>3, <3>4, <3>5 DEF CrownsFirst
    <3> QED
      BY <3>6
  <2>2. CASE CountDraws(v)
    <3>1. UNCHANGED draw /\ mixed' = (mixed \/ (Existing = {} /\ Rivals(v) # {}))
      BY <2>2 DEF CountDraws
    <3>2. CASE Existing = {}
      <4>1. Major = {} /\ Major' = {}
        BY <3>2, <3>1, <1>a DEF Major
      <4>2. FirstSlug(v)' = FirstSlug(v)
        BY <1>0, <2>2 DEF CountDraws, FirstSlug, TypeOK, VisitRecords
      <4> QED
        BY <2>0, <3>1, <3>2, <4>1, <4>2 DEF StartsFirst
    <3>3. CASE Existing # {}
      <4>1. ~Makes(v)'
        BY <1>0, <1>2, <3>3, VisitLemma DEF Makes
      <4>2. UNCHANGED mixed
        BY <1>0, <3>1, <3>3 DEF TypeOK
      <4>3. PagesKept
        BY <2>0, <4>1 DEF PagesKept
      <4> QED
        BY <2>0, <3>1, <4>2, <4>3, <1>a, <1>f
    <3> QED
      BY <3>2, <3>3
  <2>3. CASE ~CreateInitial(v) /\ ~CountDraws(v)
    <3>1. UNCHANGED <<draw, mixed>>
      BY <1>2, <2>3 DEF Visit, ReadRaffle, InitialClashes, ListDraws, history
    <3>2. ~Makes(v)'
      BY <1>0, <1>2, <2>3, VisitLemma DEF Makes
    <3>3. PagesKept
      BY <2>0, <3>2 DEF PagesKept
    <3> QED
      BY <2>0, <3>1, <3>3, <1>a, <1>f
  <2> QED
    BY <2>1, <2>2, <2>3
<1>3. ASSUME NEW r \in Requests, Create(r) \/ Update(r) \/ Reorder(r)
      PROVE  CrownsNothing \/ ClearsFlag(r) \/ \E d \in Draws : CrownsDraw(r, d)
  <2>0. /\ PagesKept /\ RequestShape(r)
        /\ ClearMajorFlag(r) \/ WriteDraw(r) \/ UNCHANGED mixed
    <3>1. /\ UNCHANGED visit
          /\ ClearMajorFlag(r) \/ WriteDraw(r) \/ UNCHANGED mixed
      BY <1>3
      DEF history, Create, CountForPosition, ClearMajorFlag, CreateDraw, CreateClashes,
          Update, ReadDraw, RefuseMove, WriteDraw, WriteClashes,
          Reorder, FindOrdered, RefuseOrder, SetPosition, AnswerReorder
    <3> QED
      BY <1>0, <1>b, <3>1
  <2>a. OthersKept(r) /\ ~Crowns(r)' => RequestsKept
    BY <1>d DEF RequestsKept
  <2>1. CASE ClearMajorFlag(r)
    <3>1. /\ request[r].pc = "clear" /\ request' = [request EXCEPT ![r].pc = "write"]
          /\ draw' = [d \in Draws |-> IF d \in Major THEN [draw[d] EXCEPT !.major = FALSE] ELSE draw[d]]
          /\ mixed' = (mixed \/ Crowning # {})
      BY <2>1 DEF ClearMajorFlag
    <3>2. Major' = {}
      BY <1>0, <3>1, ClearLemma
    <3>3. OthersKept(r)
      BY <1>0, <3>1, ClearedLemma
    <3> QED
      BY <2>0, <3>1, <3>2, <3>3, <1>d DEF ClearsFlag
  <2>2. CASE CreateDraw(r)
    <3>1. /\ request' = [request EXCEPT ![r] = Ended(@, "done")] /\ request[r].pc = "write"
          /\ UNCHANGED mixed
      BY <2>2 DEF CreateDraw
    <3>2. RequestsKept /\ ~Crowns(r)'
      BY <1>0, <3>1, <2>a, EndedLemma DEF Crowns
    <3>3. PICK d \in Draws \ Existing :
            /\ Major' = IF request[r].major = "yes" THEN Major \cup {d} ELSE Major
            /\ Existing' = Existing \cup {d}
            /\ \A e \in Existing : draw'[e] = draw[e]
      BY <1>0, <2>0, <2>2, CreateDrawLemma
    <3>4. CASE request[r].major = "yes"
      <4>1. CrownsDraw(r, d)
        BY <2>0, <3>1, <3>2, <3>3, <3>4 DEF CrownsDraw, Crowns
      <4> QED
        BY <4>1
    <3>5. CASE request[r].major # "yes"
      <4>1. SlugsKept
        BY <3>3 DEF SlugsKept
      <4> QED
        BY <2>0, <3>1, <3>2, <3>3, <3>5, <4>1, <1>f
    <3> QED
      BY <3>4, <3>5
  <2>3. CASE WriteDraw(r)
    <3> DEFINE d == request[r].draw  slug == SlugOf[request[r].title]
    <3>1. /\ request' = [request EXCEPT ![r] = Ended(@, "done")] /\ request[r].pc = "write"
          /\ mixed' = (mixed \/ (slug # draw[d].slug /\ KeptOut(d) # {}))
      BY <2>3 DEF WriteDraw
    <3>2. RequestsKept /\ ~Crowns(r)'
      BY <1>0, <3>1, <2>a, EndedLemma DEF Crowns
    <3>3. /\ d \in Existing /\ Existing' = Existing
          /\ Major' = IF draw'[d].major THEN Major \cup {d} ELSE Major \ {d}
          /\ draw'[d].major = (request[r].major = "yes" \/ (request[r].major = None /\ draw[d].major))
          /\ draw'[d].slug = slug
          /\ \A e \in Draws \ {d} : draw'[e] = draw[e]
      BY <1>0, <2>0, <2>3, WriteLemma
    <3>a. ~mixed' => ~mixed /\ (slug = draw[d].slug \/ KeptOut(d) = {})
      BY <3>1
    <3> HIDE DEF d, slug
    <3>4. CASE request[r].major = "yes"
      <4>1. d \in Draws /\ CrownsDraw(r, d)
        BY <2>0, <3>1, <3>2, <3>3, <3>4, <3>a DEF CrownsDraw, Crowns, Existing
      <4> QED
        BY <4>1
    <3>5. CASE request[r].major # "yes"
      <4>1. draw'[d].major => d \in Major
        BY <3>3, <3>5 DEF Major
      <4>2. Major' \subseteq Major
        BY <3>3, <4>1
      <4>3. ASSUME ~mixed', NEW v \in Visits, Makes(v)', Taken(FirstSlug(v))
            PROVE  Taken(FirstSlug(v))'
        <5>1. Makes(v) /\ FirstSlug(v)' = FirstSlug(v)
          BY <2>0, <4>3 DEF PagesKept
        <5>2. PICK e \in Existing : draw[e].slug = FirstSlug(v)
          BY <4>3 DEF Taken
        <5>3. CASE e # d
          <6>1. draw'[e].slug = FirstSlug(v)' /\ e \in Existing'
            BY <3>3, <5>1, <5>2, <5>3 DEF Existing
          <6> QED
            BY <6>1 DEF Taken
        <5>4. CASE e = d
          <6>1. v \in KeptOut(d)
            BY <5>1, <5>2, <5>4 DEF KeptOut, Creating, Makes
          <6>2. draw'[d].slug = FirstSlug(v)' /\ d \in Existing'
            BY <3>3, <3>a, <4>3, <5>1, <5>2, <5>4, <6>1
          <6> QED
            BY <6>2 DEF Taken
        <5> QED
          BY <5>3, <5>4
      <4> QED
        BY <2>0, <3>2, <3>a, <4>2, <4>3 DEF CrownsNothing
    <3> QED
      BY <3>4, <3>5
  <2>4. CASE SetPosition(r)
    <3>1. UNCHANGED mixed
      BY <2>4 DEF SetPosition, history
    <3>2. Major' = Major /\ OthersKept(r) /\ ~Crowns(r)'
      BY <1>0, <2>0, <2>4, PositionLemma DEF Crowns
    <3>3. SlugsKept
      <4>1. Existing' = Existing /\ \A e \in Existing : draw'[e].slug = draw[e].slug
        BY <1>0, <2>0, <2>4, PositionLemma
      <4> QED
        BY <4>1 DEF SlugsKept
    <3> QED
      BY <2>0, <2>a, <3>1, <3>2, <3>3, <1>f
  <2>5. CASE CountForPosition(r) \/ ReadDraw(r) \/ RefuseMove(r) \/ FindOrdered(r) \/ RefuseOrder(r)
    <3>1. UNCHANGED <<draw, mixed>> /\ OthersKept(r) /\ ~Crowns(r)'
      BY <1>0, <2>5, CountLemma, ReadDrawLemma, RefusedLemma, FindLemma DEF Crowns, history
    <3> QED
      BY <2>0, <2>a, <3>1, <1>a, <1>f
  <2>6. CASE CreateClashes(r) \/ WriteClashes(r) \/ AnswerReorder(r)
    <3>1. /\ UNCHANGED <<draw, mixed>>
          /\ \E pc \in {"done", "failed"} : request' = [request EXCEPT ![r] = Ended(@, pc)]
      BY <2>6 DEF CreateClashes, WriteClashes, AnswerReorder, history
    <3>2. OthersKept(r) /\ ~Crowns(r)'
      BY <1>0, <3>1, EndedLemma DEF Crowns
    <3> QED
      BY <2>0, <2>a, <3>1, <3>2, <1>a, <1>f
  <2> QED
    BY <1>3, <2>1, <2>2, <2>3, <2>4, <2>5, <2>6 DEF Create, Update, Reorder
<1>4. ASSUME NEW d \in Draws, Settle(d) PROVE CrownsNothing
  <2>1. UNCHANGED <<visit, request, mixed>>
    BY <1>4 DEF Settle, history
  <2>2. Major' = Major /\ SlugsKept
    BY <1>0, <1>4, SettleLemma DEF SlugsKept
  <2> QED
    BY <2>1, <2>2, <1>b, <1>c, <1>f
<1>5. CASE RenamePrize
  BY <1>5, <1>a, <1>b, <1>c, <1>f DEF RenamePrize, history
<1> QED
  BY <1>1, <1>2, <1>3, <1>4, <1>5 DEF Next

LEMMA StepOneCrowning ==
    ASSUME TypeInv, OneCrowning, [Next]_vars
    PROVE  OneCrowning'
<1>0. Crowning = {} <=> /\ \A v \in Visits : ~Makes(v)
                        /\ \A r \in Requests : ~Crowns(r)
  BY DEF Crowning, Creating, Setting, Makes, Crowns
<1> SUFFICES ASSUME ~mixed' PROVE OneCrowning'
  BY DEF OneCrowning
<1>1. CASE CrownsNothing
  BY <1>1 DEF CrownsNothing, PagesKept, RequestsKept, OneCrowning
<1>2. ASSUME NEW v \in Visits, StartsFirst(v) PROVE OneCrowning'
  <2>1. Rivals(v) = {} /\ RequestsKept /\ Major' = {}
    BY <1>2 DEF StartsFirst
  <2>2. \A r \in Requests : ~Crowns(r)'
    BY <2>1 DEF Rivals, Setting, Crowns, RequestsKept
  <2>3. \A w \in Visits : Makes(w)' => FirstSlug(w)' = FirstSlug(v)
    BY <1>2, <2>1 DEF StartsFirst, Rivals, Creating, Makes
  <2> QED
    BY <2>1, <2>2, <2>3 DEF OneCrowning
<1>3. ASSUME NEW r \in Requests, ClearsFlag(r) PROVE OneCrowning'
  BY <1>0, <1>3 DEF ClearsFlag, PagesKept, OneCrowning
<1>4. ASSUME NEW v \in Visits, NEW d \in Draws, CrownsFirst(v, d) PROVE OneCrowning'
  <2>1. /\ Makes(v) /\ ~mixed /\ ~Taken(FirstSlug(v)) /\ Taken(FirstSlug(v))'
        /\ FirstSlug(v)' = FirstSlug(v) /\ Major' = Major \cup {d}
    BY <1>4 DEF CrownsFirst
  <2>2. Major' = {d}
    BY <2>1 DEF OneCrowning
  <2>3. \A r \in Requests : ~Crowns(r)'
    BY <1>4, <2>1 DEF CrownsFirst, RequestsKept, OneCrowning
  <2>4. \A w \in Visits : Makes(w)' => FirstSlug(w)' = FirstSlug(v)'
    BY <1>4, <2>1 DEF CrownsFirst, PagesKept, OneCrowning
  <2>5. \A w \in Visits : Makes(w)' => Taken(FirstSlug(w))'
    BY <2>1, <2>4 DEF Taken
  <2> QED
    BY <2>2, <2>3, <2>4, <2>5 DEF OneCrowning
<1>5. ASSUME NEW r \in Requests, NEW d \in Draws, CrownsDraw(r, d) PROVE OneCrowning'
  <2>1. /\ Crowns(r) /\ ~Crowns(r)' /\ ~mixed /\ PagesKept /\ RequestsKept
        /\ Major' \subseteq Major \cup {d}
    BY <1>5 DEF CrownsDraw
  <2>2. Major' \subseteq {d}
    BY <2>1 DEF OneCrowning
  <2>3. /\ \A v \in Visits : ~Makes(v)'
        /\ \A q \in Requests : ~Crowns(q)'
    BY <2>1 DEF PagesKept, RequestsKept, OneCrowning
  <2> QED
    BY <2>2, <2>3 DEF OneCrowning
<1> QED
  BY <1>1, <1>2, <1>3, <1>4, <1>5, CrowningSteps

LEMMA OneCrowningIsOne ==
    ASSUME TypeInv, OneCrowning
    PROVE  OneMajorPrize
<1>1. SUFFICES ASSUME ~mixed PROVE Cardinality(Major) <= 1
  BY DEF OneMajorPrize
<1>2. CASE Major = {}
  BY <1>2, FS_EmptySet
<1>3. CASE Major # {}
  <2>1. PICK d : Major = {d}
    BY <1>1, <1>3 DEF OneCrowning
  <2> QED
    BY <2>1, FS_Singleton
<1> QED
  BY <1>2, <1>3

\* Pages that create the first draw at once leave one major prize; two are left only by writers of
\* the flag that overlap and that no slug keeps apart.
THEOREM OneIsMajor == Spec => []OneMajorPrize
<1>1. Init => TypeInv
  BY InitTypeInv
<1>2. Init => OneCrowning
  <2>1. Init => Major = {}
    BY DEF Init, Major, Existing, NoDraw
  <2> QED
    BY <2>1 DEF Init, OneCrowning, Makes, Crowns, NewVisit, NewRequest
<1> QED
  BY <1>1, <1>2, StepTypeInv, StepOneCrowning, OneCrowningIsOne, PTL DEF Spec

-------------------------------------------------------------------------------
\* Who took the major prize away

\* A request that accounts for a campaign without a major prize.
Accounts(r) ==
    \/ request[r].major = "yes" /\ request[r].pc \in {"write", "failed"}
    \/ request[r].major = "no" /\ request[r].op # "create" /\ request[r].pc = "done"

LEMMA StepAccounted ==
    ASSUME TypeInv, MajorPrizeIsAccountedFor, [Next]_vars
    PROVE  MajorPrizeIsAccountedFor'
<1> SUFFICES ASSUME crowned', Major' = {} PROVE \E r \in Requests : Accounts(r)'
  BY DEF MajorPrizeIsAccountedFor, Accounts
<1>0. /\ TypeOK /\ \A v \in Visits : VisitShape(v)
      /\ \A s \in Requests : RequestShape(s)
  BY DEF TypeInv
<1>a. UNCHANGED draw => Major' = Major
  BY DEF Existing, Major
<1>b. crowned /\ Major = {} => \E r \in Requests : Accounts(r)
  BY DEF MajorPrizeIsAccountedFor, Accounts
<1>c. \A r \in Requests : OthersKept(r) => \A q \in Requests \ {r} : Accounts(q) => Accounts(q)'
  BY DEF Accounts, OthersKept
<1>d. UNCHANGED request => \A q \in Requests : Accounts(q) => Accounts(q)'
  BY DEF Accounts
<1>1. CASE UNCHANGED vars
  BY <1>1, <1>a, <1>b, <1>d DEF vars, history
<1>2. ASSUME NEW v \in Visits, Visit(v) PROVE \E r \in Requests : Accounts(r)'
  <2>1. ~CreateInitial(v)
    BY <1>0, InitialLemma
  <2>2. UNCHANGED <<draw, request, crowned>>
    BY <1>2, <2>1 DEF Visit, ReadRaffle, CountDraws, InitialClashes, ListDraws, history
  <2> QED
    BY <2>2, <1>a, <1>b, <1>d
<1>3. ASSUME NEW r \in Requests, Create(r) \/ Update(r) \/ Reorder(r)
      PROVE  \E q \in Requests : Accounts(q)'
  <2>1. CASE ClearMajorFlag(r)
    <3>1. request[r].pc = "clear" /\ request' = [request EXCEPT ![r].pc = "write"]
      BY <2>1 DEF ClearMajorFlag
    <3>2. request[r].major = "yes"
      BY <1>0, <3>1 DEF RequestShape
    <3>3. request'[r].pc = "write" /\ request'[r].major = "yes"
      BY <1>0, <3>1, <3>2, ClearedLemma
    <3> QED
      BY <3>3 DEF Accounts
  <2>2. CASE CreateDraw(r)
    <3>1. /\ request' = [request EXCEPT ![r] = Ended(@, "done")] /\ request[r].pc = "write"
          /\ request[r].op = "create" /\ crowned' = (crowned \/ request[r].major = "yes")
      BY <2>2 DEF CreateDraw
    <3>2. OthersKept(r)
      BY <1>0, <3>1, EndedLemma
    <3>3. PICK d \in Draws \ Existing :
            Major' = IF request[r].major = "yes" THEN Major \cup {d} ELSE Major
      BY <1>0, <2>2, CreateDrawLemma
    <3>4. request[r].major # "yes" /\ Major = {} /\ crowned
      BY <3>1, <3>3
    <3>5. ~Accounts(r)
      BY <3>1, <3>4 DEF Accounts
    <3> QED
      BY <3>2, <3>4, <3>5, <1>b, <1>c
  <2>3. CASE WriteDraw(r)
    <3>1. /\ request' = [request EXCEPT ![r] = Ended(@, "done")] /\ request[r].pc = "write"
          /\ request[r].op \in {"update", "rename"}
          /\ crowned' = (crowned \/ request[r].major = "yes")
      BY <2>3 DEF WriteDraw
    <3>2. OthersKept(r) /\ request'[r].pc = "done" /\ request'[r].op = request[r].op
          /\ request'[r].major = request[r].major
      BY <1>0, <3>1, EndedLemma
    <3> DEFINE d == request[r].draw
    <3>3. /\ d \in Existing
          /\ Major' = IF draw'[d].major THEN Major \cup {d} ELSE Major \ {d}
          /\ draw'[d].major = (request[r].major = "yes" \/ (request[r].major = None /\ draw[d].major))
      BY <1>0, <2>3, WriteLemma
    <3>4. request[r].major # "yes" /\ crowned /\ ~draw'[d].major
      BY <3>1, <3>3
    <3>5. CASE request[r].major = "no"
      BY <3>1, <3>2, <3>5 DEF Accounts
    <3>6. CASE request[r].major = None
      <4>1. d \notin Major
        BY <3>3, <3>4, <3>6 DEF Major
      <4>2. Major = {}
        BY <3>3, <3>4, <4>1
      <4>3. ~Accounts(r)
        BY <3>1, <3>6 DEF Accounts, None
      <4> QED
        BY <3>2, <3>4, <4>2, <4>3, <1>b, <1>c
    <3>7. request[r].major \in {"yes", "no", None}
      BY <1>0 DEF TypeOK, RequestRecords
    <3> QED
      BY <3>4, <3>5, <3>6, <3>7
  <2>4. CASE SetPosition(r)
    <3>1. request[r].pc = "reorder" /\ UNCHANGED crowned
      BY <2>4 DEF SetPosition, history
    <3>2. Major' = Major /\ OthersKept(r)
      BY <1>0, <2>4, PositionLemma
    <3>3. ~Accounts(r)
      BY <3>1 DEF Accounts
    <3> QED
      BY <3>1, <3>2, <3>3, <1>b, <1>c
  <2>5. CASE CountForPosition(r) \/ ReadDraw(r) \/ RefuseMove(r) \/ FindOrdered(r) \/ RefuseOrder(r)
    <3>1. UNCHANGED <<draw, crowned>> /\ OthersKept(r) /\ request[r].pc = "new"
      BY <1>0, <2>5, CountLemma, ReadDrawLemma, RefusedLemma, FindLemma DEF history
    <3>2. ~Accounts(r)
      BY <3>1 DEF Accounts
    <3> QED
      BY <3>1, <3>2, <1>a, <1>b, <1>c
  <2>6. CASE CreateClashes(r) \/ WriteClashes(r) \/ AnswerReorder(r)
    <3>1. /\ UNCHANGED <<draw, crowned>>
          /\ \/ request[r].pc = "write" /\ request' = [request EXCEPT ![r] = Ended(@, "failed")]
             \/ request[r].pc = "reorder" /\ request' = [request EXCEPT ![r] = Ended(@, "done")]
      BY <2>6 DEF CreateClashes, WriteClashes, AnswerReorder, history
    <3>2. CASE request[r].pc = "write" /\ request' = [request EXCEPT ![r] = Ended(@, "failed")]
      <4>1. /\ OthersKept(r) /\ request'[r].pc = "failed"
            /\ request'[r].major = request[r].major
        BY <1>0, <3>2, EndedLemma
      <4>2. Accounts(r) => Accounts(r)'
        BY <3>2, <4>1 DEF Accounts
      <4> QED
        BY <3>1, <4>1, <4>2, <1>a, <1>b, <1>c
    <3>3. CASE request[r].pc = "reorder" /\ request' = [request EXCEPT ![r] = Ended(@, "done")]
      <4>1. OthersKept(r)
        BY <1>0, <3>3, EndedLemma
      <4>2. ~Accounts(r)
        BY <3>3 DEF Accounts
      <4> QED
        BY <3>1, <4>1, <4>2, <1>a, <1>b, <1>c
    <3> QED
      BY <3>1, <3>2, <3>3
  <2> QED
    BY <1>3, <2>1, <2>2, <2>3, <2>4, <2>5, <2>6 DEF Create, Update, Reorder
<1>4. ASSUME NEW d \in Draws, Settle(d) PROVE \E r \in Requests : Accounts(r)'
  <2>1. UNCHANGED <<request, crowned>>
    BY <1>4 DEF Settle, history
  <2> QED
    BY <1>0, <1>4, <2>1, <1>b, <1>d, SettleLemma
<1>5. CASE RenamePrize
  BY <1>5, <1>a, <1>b, <1>d DEF RenamePrize, history
<1> QED
  BY <1>1, <1>2, <1>3, <1>4, <1>5 DEF Next

\* A campaign that had a major prize and has none was left without by a request that says so.
THEOREM MissingPrizeIsExplained == Spec => []MajorPrizeIsAccountedFor
<1>1. Init => TypeInv
  BY InitTypeInv
<1>2. Init => MajorPrizeIsAccountedFor
  BY DEF Init, MajorPrizeIsAccountedFor
<1> QED
  BY <1>1, <1>2, StepTypeInv, StepAccounted, PTL DEF Spec

-------------------------------------------------------------------------------
\* Slugs

\* An edit that does not change the title writes the slug of the title the draw still has.
SlugsInOrder ==
    /\ SlugFollowsTitle
    /\ \A r \in Requests :
          Writing(r) /\ request[r].op = "update" /\ request[r].draw \notin raced =>
              request[r].title = draw[request[r].draw].title

\* What an edit in flight relies on, for a request the step does not touch.
LEMMA EditsKept ==
    ASSUME TypeInv, SlugsInOrder, raced \subseteq raced',
           NEW r \in Requests, request'[r] = request[r],
           \A d \in Existing : draw'[d].title = draw[d].title \/ d \in raced'
    PROVE  Writing(r)' /\ request'[r].op = "update" /\ request'[r].draw \notin raced' =>
              request'[r].title = draw'[request'[r].draw].title
<1> SUFFICES ASSUME Writing(r)', request'[r].op = "update", request'[r].draw \notin raced'
             PROVE  request'[r].title = draw'[request'[r].draw].title
  OBVIOUS
<1>1. Writing(r) /\ request[r].op = "update" /\ request[r].draw \notin raced
  BY DEF Writing
<1>2. request[r].draw \in Existing
  BY <1>1 DEF TypeInv, RequestShape
<1>3. request[r].title = draw[request[r].draw].title
  BY <1>1 DEF SlugsInOrder
<1> QED
  BY <1>2, <1>3

LEMMA StepSlugs ==
    ASSUME TypeInv, SlugsInOrder, [Next]_vars
    PROVE  SlugsInOrder'
<1>0. /\ TypeOK /\ \A v \in Visits : VisitShape(v)
      /\ \A s \in Requests : RequestShape(s)
  BY DEF TypeInv
<1>a. UNCHANGED draw => Existing' = Existing
  BY DEF Existing
<1>b. UNCHANGED <<draw, raced>> => SlugFollowsTitle'
  BY <1>a DEF SlugsInOrder, SlugFollowsTitle
<1>1. CASE UNCHANGED vars
  BY <1>1, <1>a, <1>b DEF vars, history, SlugsInOrder, Writing
<1>2. ASSUME NEW v \in Visits, Visit(v) PROVE SlugsInOrder'
  <2>0. UNCHANGED <<request, raced>>
    BY <1>2 DEF Visit, ReadRaffle, CountDraws, CreateInitial, InitialClashes, ListDraws, history
  <2>1. CASE CreateInitial(v)
    <3>1. PICK d \in Draws \ Existing :
            /\ Existing' = Existing \cup {d}
            /\ draw'[d].slug = SlugOf[draw'[d].title]
            /\ \A e \in Existing : draw'[e] = draw[e]
      BY <1>0, <2>1, InitialLemma
    <3>2. SlugFollowsTitle'
      BY <2>0, <3>1 DEF SlugsInOrder, SlugFollowsTitle
    <3> QED
      BY <2>0, <3>1, <3>2, EditsKept DEF SlugsInOrder
  <2>2. CASE ~CreateInitial(v)
    <3>1. UNCHANGED draw
      BY <1>2, <2>2 DEF Visit, ReadRaffle, CountDraws, InitialClashes, ListDraws
    <3> QED
      BY <2>0, <3>1, <1>b DEF SlugsInOrder, Writing
  <2> QED
    BY <2>1, <2>2
<1>3. ASSUME NEW r \in Requests, Create(r) \/ Update(r) \/ Reorder(r) PROVE SlugsInOrder'
  <2>0. RequestShape(r) /\ (WriteDraw(r) \/ UNCHANGED raced)
    BY <1>0, <1>3
    DEF history, Create, CountForPosition, ClearMajorFlag, CreateDraw, CreateClashes,
        Update, ReadDraw, RefuseMove, WriteClashes,
        Reorder, FindOrdered, RefuseOrder, SetPosition, AnswerReorder
  \* A step that leaves titles and slugs alone, and r without an edit of its own.
  <2>a. ASSUME OthersKept(r), UNCHANGED raced, Existing \subseteq Existing',
               \A e \in Existing : /\ draw'[e].title = draw[e].title
                                  /\ draw'[e].slug = draw[e].slug,
               \A e \in Existing' \ Existing : draw'[e].slug = SlugOf[draw'[e].title],
               Writing(r)' /\ request'[r].op = "update" /\ request'[r].draw \notin raced =>
                   request'[r].title = draw'[request'[r].draw].title
        PROVE  SlugsInOrder'
    <3>1. SlugFollowsTitle'
      BY <2>a DEF SlugsInOrder, SlugFollowsTitle
    <3>2. \A q \in Requests \ {r} : Writing(q)' /\ request'[q].op = "update" /\ request'[q].draw \notin raced' =>
              request'[q].title = draw'[request'[q].draw].title
      BY <2>a, EditsKept DEF OthersKept
    <3> QED
      BY <2>a, <3>1, <3>2 DEF SlugsInOrder
  <2>1. CASE ClearMajorFlag(r)
    <3>1. /\ request[r].pc = "clear" /\ request' = [request EXCEPT ![r].pc = "write"]
          /\ draw' = [d \in Draws |-> IF d \in Major THEN [draw[d] EXCEPT !.major = FALSE] ELSE draw[d]]
          /\ UNCHANGED raced
      BY <2>1 DEF ClearMajorFlag
    <3>2. /\ Existing' = Existing
          /\ \A d \in Existing : draw'[d].title = draw[d].title /\ draw'[d].slug = draw[d].slug
      BY <1>0, <3>1, ClearLemma
    <3>3. /\ OthersKept(r) /\ request'[r].op = request[r].op /\ request'[r].title = request[r].title
          /\ request'[r].draw = request[r].draw
      BY <1>0, <3>1, ClearedLemma
    <3>4. request'[r].op = "update" /\ request'[r].draw \notin raced =>
              request'[r].title = draw'[request'[r].draw].title
      BY <2>0, <3>1, <3>2, <3>3 DEF SlugsInOrder, Writing, RequestShape
    <3> QED
      BY <3>1, <3>2, <3>3, <3>4, <2>a
  <2>2. CASE CreateDraw(r)
    <3>1. /\ request' = [request EXCEPT ![r] = Ended(@, "done")]
          /\ UNCHANGED raced
      BY <2>2 DEF CreateDraw
    <3>2. OthersKept(r) /\ ~Writing(r)'
      BY <1>0, <3>1, EndedLemma DEF Writing
    <3>3. PICK d \in Draws \ Existing :
            /\ Existing' = Existing \cup {d}
            /\ draw'[d].slug = SlugOf[draw'[d].title]
            /\ \A e \in Existing : draw'[e] = draw[e]
      BY <1>0, <2>0, <2>2, CreateDrawLemma
    <3> QED
      BY <3>1, <3>2, <3>3, <2>a
  <2>3. CASE WriteDraw(r)
    <3> DEFINE d == request[r].draw
    <3>1. /\ request' = [request EXCEPT ![r] = Ended(@, "done")] /\ request[r].pc = "write"
          /\ request[r].op \in {"update", "rename"}
          /\ raced' = IF request[r].op = "rename" /\ Editing(d) # {r} THEN raced \cup {d} ELSE raced
      BY <2>3 DEF WriteDraw
    <3>2. OthersKept(r) /\ ~Writing(r)'
      BY <1>0, <3>1, EndedLemma DEF Writing
    <3>3. /\ d \in Existing /\ Existing' = Existing
          /\ draw'[d].title = IF request[r].op = "rename" THEN request[r].title ELSE draw[d].title
          /\ draw'[d].slug = SlugOf[request[r].title]
          /\ \A e \in Draws \ {d} : draw'[e] = draw[e]
      BY <1>0, <2>0, <2>3, WriteLemma
    <3>4. SlugFollowsTitle'
      <4>1. ASSUME NEW e \in Existing, e \notin raced' PROVE draw'[e].slug = SlugOf[draw'[e].title]
        <5>1. CASE e # d
          BY <3>1, <3>3, <4>1, <5>1 DEF SlugsInOrder, SlugFollowsTitle, Existing
        <5>2. CASE e = d /\ request[r].op = "rename"
          BY <3>3, <5>2
        <5>3. CASE e = d /\ request[r].op = "update"
          <6>1. request[r].title = draw[d].title
            BY <3>1, <4>1, <5>3 DEF SlugsInOrder, Writing
          <6> QED
            BY <3>3, <5>3, <6>1
        <5> QED
          BY <3>1, <5>1, <5>2, <5>3
      <4> QED
        BY <3>3, <4>1 DEF SlugFollowsTitle
    <3>5. ASSUME NEW q \in Requests, Writing(q)', request'[q].op = "update",
                 request'[q].draw \notin raced'
          PROVE  request'[q].title = draw'[request'[q].draw].title
      <4>1. q # r /\ request'[q] = request[q]
        BY <3>2, <3>5 DEF OthersKept
      <4>2. /\ Writing(q) /\ request[q].op = "update" /\ request[q].draw \notin raced
            /\ request[q].draw \in Existing
        BY <1>0, <3>1, <3>5, <4>1 DEF Writing, RequestShape
      <4>3. request[q].title = draw[request[q].draw].title
        BY <4>2 DEF SlugsInOrder
      <4>4. CASE request[q].draw # d
        BY <3>3, <4>1, <4>2, <4>3, <4>4 DEF Existing
      <4>5. CASE request[q].draw = d
        <5>1. q \in Editing(d)
          BY <4>2, <4>5 DEF Editing, Writing
        <5>2. request[r].op = "update"
          BY <3>1, <3>5, <4>1, <4>5, <5>1
        <5> QED
          BY <3>3, <4>1, <4>3, <4>5, <5>2
      <4> QED
        BY <4>4, <4>5
    <3> QED
      BY <3>4, <3>5 DEF SlugsInOrder
  <2>4. CASE SetPosition(r)
    <3>1. request[r].pc = "reorder" /\ UNCHANGED raced
      BY <2>4 DEF SetPosition, history
    <3>2. /\ Existing' = Existing /\ OthersKept(r) /\ ~Writing(r)'
          /\ \A e \in Existing : draw'[e].title = draw[e].title /\ draw'[e].slug = draw[e].slug
      BY <1>0, <2>0, <2>4, PositionLemma DEF Writing
    <3> QED
      BY <3>1, <3>2, <2>a
  <2>5. CASE ReadDraw(r)
    <3>1. /\ UNCHANGED <<draw, raced>> /\ OthersKept(r)
          /\ request'[r].op = "update" => request'[r].title = draw[request'[r].draw].title
      BY <1>0, <2>5, ReadDrawLemma DEF history
    <3> QED
      BY <3>1, <1>a, <2>a
  <2>6. CASE CountForPosition(r) \/ RefuseMove(r) \/ FindOrdered(r) \/ RefuseOrder(r)
    <3>1. /\ UNCHANGED <<draw, raced>> /\ OthersKept(r)
          /\ request'[r].op # "update" \/ ~Writing(r)'
      BY <1>0, <2>6, CountLemma, RefusedLemma, FindLemma DEF Writing, history
    <3> QED
      BY <3>1, <1>a, <2>a
  <2>7. CASE CreateClashes(r) \/ WriteClashes(r) \/ AnswerReorder(r)
    <3>1. /\ UNCHANGED <<draw, raced>>
          /\ \E pc \in {"done", "failed"} : request' = [request EXCEPT ![r] = Ended(@, pc)]
      BY <2>7 DEF CreateClashes, WriteClashes, AnswerReorder, history
    <3>2. OthersKept(r) /\ ~Writing(r)'
      BY <1>0, <3>1, EndedLemma DEF Writing
    <3> QED
      BY <3>1, <3>2, <1>a, <2>a
  <2> QED
    BY <1>3, <2>1, <2>2, <2>3, <2>4, <2>5, <2>6, <2>7 DEF Create, Update, Reorder
<1>4. ASSUME NEW d \in Draws, Settle(d) PROVE SlugsInOrder'
  <2>1. UNCHANGED <<request, raced>>
    BY <1>4 DEF Settle, history
  <2>2. /\ Existing' = Existing
        /\ \A e \in Existing : draw'[e].title = draw[e].title /\ draw'[e].slug = draw[e].slug
    BY <1>0, <1>4, SettleLemma
  <2>3. SlugFollowsTitle'
    BY <2>1, <2>2 DEF SlugsInOrder, SlugFollowsTitle
  <2> QED
    BY <2>1, <2>2, <2>3, EditsKept DEF SlugsInOrder
<1>5. CASE RenamePrize
  BY <1>5, <1>a, <1>b DEF RenamePrize, history, SlugsInOrder, Writing
<1> QED
  BY <1>1, <1>2, <1>3, <1>4, <1>5 DEF Next

\* Only a rename under an edit in flight separates a slug from its title.
THEOREM SlugsFollow == Spec => []SlugFollowsTitle
<1>1. Init => TypeInv
  BY InitTypeInv
<1>2. Init => SlugsInOrder
  <2>1. Init => Existing = {}
    BY DEF Init, Existing, NoDraw
  <2> QED
    BY <2>1 DEF Init, SlugsInOrder, SlugFollowsTitle, Writing, NewRequest
<1>3. SlugsInOrder => SlugFollowsTitle
  BY DEF SlugsInOrder
<1> QED
  BY <1>1, <1>2, <1>3, StepTypeInv, StepSlugs, PTL DEF Spec

-------------------------------------------------------------------------------
\* Positions

\* The places that are still to be written are in the calendar, which only grows.
PlacesInRange ==
    /\ PositionsInRange
    /\ \A r \in Requests :
          /\ Writing(r) /\ request[r].op = "create" => request[r].position <= Cardinality(Existing)
          /\ Naming(r) => Len(request[r].order) <= Cardinality(Existing)

\* How many draws there are after a step that creates none, or one.
LEMMA CountOfDraws ==
    ASSUME \/ Existing' = Existing
           \/ \E d \in Draws \ Existing : Existing' = Existing \cup {d}
    PROVE  /\ Cardinality(Existing)' \in Nat
           /\ Existing' # Existing => Cardinality(Existing)' = Cardinality(Existing) + 1
           /\ Existing' = Existing => Cardinality(Existing)' = Cardinality(Existing)
           /\ Cardinality(Existing) <= Cardinality(Existing)'
<1>1. IsFiniteSet(Existing) /\ Cardinality(Existing) \in Nat
  BY ExistingIsFinite
<1>2. CASE Existing' = Existing
  BY <1>1, <1>2
<1>3. ASSUME NEW d \in Draws \ Existing, Existing' = Existing \cup {d}
      PROVE  Cardinality(Existing') = Cardinality(Existing) + 1
  BY <1>1, <1>3, FS_AddElement
<1> QED
  BY <1>1, <1>2, <1>3

\* A step that only lets the calendar grow keeps what the requests it does not touch rely on.
LEMMA PlacesKept ==
    ASSUME TypeInv, PlacesInRange, Cardinality(Existing) <= Cardinality(Existing)',
           Cardinality(Existing)' \in Nat, NEW r \in Requests, request'[r] = request[r]
    PROVE  /\ Writing(r)' /\ request'[r].op = "create" =>
                 request'[r].position <= Cardinality(Existing)'
           /\ Naming(r)' => Len(request'[r].order) <= Cardinality(Existing)'
<1>1. Cardinality(Existing) \in Nat
  BY ExistingIsFinite
<1>2. request[r].position \in Nat /\ Len(request[r].order) \in Nat
  <2>1. request[r].position \in Nat /\ request[r].order \in Seq(Draws)
    BY DEF TypeInv, TypeOK, RequestRecords
  <2> QED
    BY <2>1
<1>3. Writing(r)' => Writing(r)
  BY DEF Writing
<1>4. Naming(r)' => Naming(r)
  BY DEF Naming
<1> QED
  BY <1>1, <1>2, <1>3, <1>4 DEF PlacesInRange

LEMMA StepPlaces ==
    ASSUME TypeInv, PlacesInRange, [Next]_vars
    PROVE  PlacesInRange'
<1>0. /\ TypeOK /\ \A v \in Visits : VisitShape(v)
      /\ \A s \in Requests : RequestShape(s)
  BY DEF TypeInv
<1>a. UNCHANGED draw => Existing' = Existing
  BY DEF Existing
<1>b. Cardinality(Existing) \in Nat /\ \A d \in Existing : draw[d].position \in Nat
  BY <1>0, ExistingIsFinite, DrawKinds DEF Existing, DrawRecords
<1>c. \A d \in Existing : draw[d].position < Cardinality(Existing)
  BY DEF PlacesInRange, PositionsInRange
\* A step that leaves the positions alone.
<1>d. ASSUME Existing' = Existing, \A d \in Existing : draw'[d].position = draw[d].position
      PROVE  PositionsInRange' /\ Cardinality(Existing)' = Cardinality(Existing)
  BY <1>c, <1>d DEF PositionsInRange
\* A step that creates a draw within the calendar.
<1>e. ASSUME NEW d \in Draws \ Existing, Existing' = Existing \cup {d},
             draw'[d].position \in Nat, draw'[d].position <= Cardinality(Existing),
             \A e \in Existing : draw'[e] = draw[e]
      PROVE  /\ PositionsInRange' /\ Cardinality(Existing)' \in Nat
             /\ Cardinality(Existing) <= Cardinality(Existing)'
  <2>1. /\ Cardinality(Existing)' = Cardinality(Existing) + 1 /\ Cardinality(Existing)' \in Nat
    <3>1. Existing' # Existing
      BY <1>e
    <3> QED
      BY <1>e, <3>1, CountOfDraws
  <2>2. ASSUME NEW e \in Existing' PROVE draw'[e].position < Cardinality(Existing)'
    <3>1. CASE e = d
      BY <1>b, <1>e, <2>1, <3>1
    <3>2. CASE e \in Existing
      BY <1>b, <1>c, <1>e, <2>1, <3>2
    <3> QED
      BY <1>e, <2>2, <3>1, <3>2
  <2> QED
    BY <1>b, <2>1, <2>2 DEF PositionsInRange
<1>f. Cardinality(Existing) <= Cardinality(Existing)
  BY <1>b
<1>1. CASE UNCHANGED vars
  <2>1. UNCHANGED <<draw, request>>
    BY <1>1 DEF vars
  <2> QED
    BY <1>a, <1>b, <1>d, <1>f, <2>1, PlacesKept DEF PlacesInRange
<1>2. ASSUME NEW v \in Visits, Visit(v) PROVE PlacesInRange'
  <2>0. UNCHANGED request
    BY <1>2 DEF Visit, ReadRaffle, CountDraws, CreateInitial, InitialClashes, ListDraws, history
  <2>1. CASE CreateInitial(v)
    <3>1. PICK d \in Draws \ Existing :
            /\ Existing' = Existing \cup {d}
            /\ draw'[d].position = 0
            /\ \A e \in Existing : draw'[e] = draw[e]
      BY <1>0, <2>1, InitialLemma
    <3>2. /\ PositionsInRange' /\ Cardinality(Existing)' \in Nat
          /\ Cardinality(Existing) <= Cardinality(Existing)'
      <4>1. 0 \in Nat /\ 0 <= Cardinality(Existing)
        BY <1>b
      <4> QED
        BY <1>e, <3>1, <4>1
    <3> QED
      BY <2>0, <3>2, PlacesKept DEF PlacesInRange
  <2>2. CASE ~CreateInitial(v)
    <3>1. UNCHANGED draw
      BY <1>2, <2>2 DEF Visit, ReadRaffle, CountDraws, InitialClashes, ListDraws
    <3> QED
      BY <1>a, <1>b, <1>d, <1>f, <2>0, <3>1, PlacesKept DEF PlacesInRange
  <2> QED
    BY <2>1, <2>2
<1>3. ASSUME NEW r \in Requests, Create(r) \/ Update(r) \/ Reorder(r) PROVE PlacesInRange'
  <2>0. RequestShape(r) /\ request[r].position \in Nat
    BY <1>0 DEF TypeOK, RequestRecords
  \* What is left to show of a step of r.
  <2>a. ASSUME OthersKept(r), PositionsInRange', Cardinality(Existing)' \in Nat,
               Cardinality(Existing) <= Cardinality(Existing)',
               Writing(r)' /\ request'[r].op = "create" =>
                   request'[r].position <= Cardinality(Existing)',
               Naming(r)' => Len(request'[r].order) <= Cardinality(Existing)'
        PROVE  PlacesInRange'
    <3>1. \A q \in Requests \ {r} :
            /\ Writing(q)' /\ request'[q].op = "create" =>
                  request'[q].position <= Cardinality(Existing)'
            /\ Naming(q)' => Len(request'[q].order) <= Cardinality(Existing)'
      BY <2>a, PlacesKept DEF OthersKept
    <3> QED
      BY <2>a, <3>1 DEF PlacesInRange
  <2>1. CASE ClearMajorFlag(r)
    <3>1. /\ request[r].pc = "clear" /\ request' = [request EXCEPT ![r].pc = "write"]
          /\ draw' = [d \in Draws |-> IF d \in Major THEN [draw[d] EXCEPT !.major = FALSE] ELSE draw[d]]
      BY <2>1 DEF ClearMajorFlag
    <3>2. PositionsInRange' /\ Cardinality(Existing)' = Cardinality(Existing)
      BY <1>0, <1>d, <3>1, ClearLemma
    <3>3. /\ OthersKept(r) /\ request'[r].op = request[r].op
          /\ request'[r].position = request[r].position /\ request'[r].pc = "write"
      BY <1>0, <3>1, ClearedLemma
    <3>4. request[r].op = "create" => request[r].position <= Cardinality(Existing)
      BY <3>1 DEF PlacesInRange, Writing
    <3>5. ~Naming(r)'
      BY <3>3 DEF Naming
    <3> QED
      BY <1>b, <1>f, <3>2, <3>3, <3>4, <3>5, <2>a
  <2>2. CASE CreateDraw(r)
    <3>1. /\ request' = [request EXCEPT ![r] = Ended(@, "done")]
          /\ request[r].pc = "write" /\ request[r].op = "create"
      BY <2>2 DEF CreateDraw
    <3>2. OthersKept(r) /\ ~Writing(r)' /\ ~Naming(r)'
      BY <1>0, <3>1, EndedLemma DEF Writing, Naming
    <3>3. PICK d \in Draws \ Existing :
            /\ Existing' = Existing \cup {d}
            /\ draw'[d].position = request[r].position
            /\ \A e \in Existing : draw'[e] = draw[e]
      BY <1>0, <2>0, <2>2, CreateDrawLemma
    <3>4. request[r].position <= Cardinality(Existing)
      BY <3>1 DEF PlacesInRange, Writing
    <3>5. /\ PositionsInRange' /\ Cardinality(Existing)' \in Nat
          /\ Cardinality(Existing) <= Cardinality(Existing)'
      BY <1>e, <2>0, <3>3, <3>4
    <3> QED
      BY <3>2, <3>5, <2>a
  <2>3. CASE WriteDraw(r)
    <3>1. request' = [request EXCEPT ![r] = Ended(@, "done")]
      BY <2>3 DEF WriteDraw
    <3>2. OthersKept(r) /\ ~Writing(r)' /\ ~Naming(r)'
      BY <1>0, <3>1, EndedLemma DEF Writing, Naming
    <3>3. Existing' = Existing /\ \A e \in Existing : draw'[e].position = draw[e].position
      BY <1>0, <2>0, <2>3, WriteLemma DEF Existing
    <3> QED
      BY <1>b, <1>d, <1>f, <3>2, <3>3, <2>a
  <2>4. CASE SetPosition(r)
    <3>1. request[r].pc = "reorder"
      BY <2>4 DEF SetPosition
    <3>2. PICK i \in request[r].todo :
            /\ i \in DOMAIN request[r].order /\ request[r].order[i] \in Existing
            /\ Existing' = Existing
            /\ draw'[request[r].order[i]].position = i - 1
            /\ \A e \in Draws \ {request[r].order[i]} : draw'[e] = draw[e]
            /\ OthersKept(r) /\ request'[r].pc = "reorder" /\ request'[r].order = request[r].order
      BY <1>0, <2>0, <2>4, PositionLemma
    <3>3. /\ i \in 1..Len(request[r].order) /\ Len(request[r].order) <= Cardinality(Existing)
          /\ request[r].order \in Seq(Draws)
      BY <1>0, <2>0, <3>1, <3>2 DEF RequestShape, Naming, PlacesInRange, TypeOK, RequestRecords
    <3>4. i - 1 < Cardinality(Existing)
      BY <1>b, <3>3
    <3>5. PositionsInRange'
      BY <1>c, <3>2, <3>4 DEF PositionsInRange, Existing
    <3>6. ~Writing(r)'
      BY <3>2 DEF Writing
    <3> QED
      BY <1>b, <1>f, <3>2, <3>3, <3>5, <3>6, <2>a
  <2>5. CASE FindOrdered(r)
    <3>1. /\ UNCHANGED draw /\ OthersKept(r) /\ request'[r].pc = "reorder"
          /\ Len(request'[r].order) <= Cardinality(Existing)
      BY <1>0, <2>5, FindLemma
    <3> QED
      BY <1>a, <1>b, <1>d, <1>f, <3>1, <2>a DEF Writing
  <2>6. CASE CountForPosition(r)
    <3>1. /\ UNCHANGED draw /\ OthersKept(r) /\ request'[r].pc \in {"clear", "write"}
          /\ request'[r].position = Cardinality(Existing)
      BY <1>0, <2>6, CountLemma
    <3> QED
      BY <1>a, <1>b, <1>d, <1>f, <3>1, <2>a DEF Naming
  <2>7. CASE ReadDraw(r)
    <3>1. /\ UNCHANGED draw /\ OthersKept(r) /\ request'[r].pc \in {"clear", "write"}
          /\ request'[r].op \in {"update", "rename"}
      BY <1>0, <2>7, ReadDrawLemma
    <3> QED
      BY <1>a, <1>b, <1>d, <1>f, <3>1, <2>a DEF Naming
  <2>8. CASE RefuseMove(r) \/ RefuseOrder(r)
    <3>1. UNCHANGED draw /\ OthersKept(r) /\ request'[r].pc = "failed"
      BY <1>0, <2>8, RefusedLemma
    <3> QED
      BY <1>a, <1>b, <1>d, <1>f, <3>1, <2>a DEF Naming, Writing
  <2>9. CASE CreateClashes(r) \/ WriteClashes(r) \/ AnswerReorder(r)
    <3>1. /\ UNCHANGED draw
          /\ \E pc \in {"done", "failed"} : request' = [request EXCEPT ![r] = Ended(@, pc)]
      BY <2>9 DEF CreateClashes, WriteClashes, AnswerReorder
    <3>2. OthersKept(r) /\ ~Writing(r)' /\ ~Naming(r)'
      BY <1>0, <3>1, EndedLemma DEF Writing, Naming
    <3> QED
      BY <1>a, <1>b, <1>d, <1>f, <3>1, <3>2, <2>a
  <2> QED
    BY <1>3, <2>1, <2>2, <2>3, <2>4, <2>5, <2>6, <2>7, <2>8, <2>9 DEF Create, Update, Reorder
<1>4. ASSUME NEW d \in Draws, Settle(d) PROVE PlacesInRange'
  <2>1. UNCHANGED request
    BY <1>4 DEF Settle
  <2>2. Existing' = Existing /\ \A e \in Existing : draw'[e].position = draw[e].position
    BY <1>0, <1>4, SettleLemma
  <2> QED
    BY <1>b, <1>d, <1>f, <2>1, <2>2, PlacesKept DEF PlacesInRange
<1>5. CASE RenamePrize
  <2>1. UNCHANGED <<draw, request>>
    BY <1>5 DEF RenamePrize
  <2> QED
    BY <1>a, <1>b, <1>d, <1>f, <2>1, PlacesKept DEF PlacesInRange
<1> QED
  BY <1>1, <1>2, <1>3, <1>4, <1>5 DEF Next

\* No draw is placed past the end of the calendar, by stale counts or by partial reorderings.
THEOREM NothingOutOfReach == Spec => []PositionsInRange
<1>1. Init => TypeInv
  BY InitTypeInv
<1>2. Init => PlacesInRange
  <2>1. Init => Existing = {}
    BY DEF Init, Existing, NoDraw
  <2> QED
    BY <2>1 DEF Init, PlacesInRange, PositionsInRange, Writing, Naming, NewRequest
<1>3. PlacesInRange => PositionsInRange
  BY DEF PlacesInRange
<1> QED
  BY <1>1, <1>2, <1>3, StepTypeInv, StepPlaces, PTL DEF Spec

-------------------------------------------------------------------------------
\* Reorderings

\* A reordering nobody crosses is the only one, and what it has written stands.
OrdersStand ==
    \A r \in Requests : Naming(r) /\ r \notin crossed =>
        /\ \A q \in Requests : Naming(q) => q = r
        /\ \A i \in DOMAIN request[r].order \ request[r].todo :
              draw[request[r].order[i]].position = i - 1

\* A step that leaves positions and reorderings alone.
LEMMA OrdersKept ==
    ASSUME TypeInv, OrdersStand, UNCHANGED crossed,
           \A r \in Requests : Naming(r)' => Naming(r) /\ request'[r] = request[r],
           \A d \in Existing : draw'[d].position = draw[d].position
    PROVE  OrdersStand'
<1> SUFFICES ASSUME NEW r \in Requests, Naming(r)', r \notin crossed'
             PROVE  /\ \A q \in Requests : Naming(q)' => q = r
                    /\ \A i \in DOMAIN request'[r].order \ request'[r].todo :
                          draw'[request'[r].order[i]].position = i - 1
  BY DEF OrdersStand
<1>1. Naming(r) /\ request'[r] = request[r] /\ r \notin crossed /\ RequestShape(r)
  BY DEF TypeInv
<1>2. \A i \in DOMAIN request[r].order : request[r].order[i] \in Existing
  BY <1>1 DEF RequestShape
<1> QED
  BY <1>1, <1>2 DEF OrdersStand

LEMMA StepOrders ==
    ASSUME TypeInv, OrdersStand, [Next]_vars
    PROVE  OrdersStand'
<1>0. /\ TypeOK /\ \A v \in Visits : VisitShape(v)
      /\ \A s \in Requests : RequestShape(s)
  BY DEF TypeInv
<1>a. UNCHANGED request => \A r \in Requests : Naming(r)' => Naming(r) /\ request'[r] = request[r]
  BY DEF Naming
<1>b. ASSUME NEW r \in Requests, OthersKept(r), ~Naming(r)'
      PROVE  \A q \in Requests : Naming(q)' => Naming(q) /\ request'[q] = request[q]
  BY <1>b DEF Naming, OthersKept
<1>1. CASE UNCHANGED vars
  BY <1>1, <1>a, OrdersKept DEF vars, history
<1>2. ASSUME NEW v \in Visits, Visit(v) PROVE OrdersStand'
  <2>1. UNCHANGED <<request, crossed>>
    BY <1>2 DEF Visit, ReadRaffle, CountDraws, CreateInitial, InitialClashes, ListDraws, history
  <2>2. \A e \in Existing : draw'[e] = draw[e]
    <3>1. CASE CreateInitial(v)
      BY <1>0, <3>1, InitialLemma
    <3>2. CASE ~CreateInitial(v)
      BY <1>2, <3>2 DEF Visit, ReadRaffle, CountDraws, InitialClashes, ListDraws
    <3> QED
      BY <3>1, <3>2
  <2> QED
    BY <1>a, <2>1, <2>2, OrdersKept
<1>3. ASSUME NEW r \in Requests, Create(r) \/ Update(r) \/ Reorder(r) PROVE OrdersStand'
  <2>0. RequestShape(r) /\ (FindOrdered(r) \/ UNCHANGED crossed)
    BY <1>0, <1>3
    DEF history, Create, CountForPosition, ClearMajorFlag, CreateDraw, CreateClashes,
        Update, ReadDraw, RefuseMove, WriteDraw, WriteClashes,
        Reorder, RefuseOrder, SetPosition, AnswerReorder
  <2>1. CASE ClearMajorFlag(r)
    <3>1. /\ request[r].pc = "clear" /\ request' = [request EXCEPT ![r].pc = "write"]
          /\ draw' = [d \in Draws |-> IF d \in Major THEN [draw[d] EXCEPT !.major = FALSE] ELSE draw[d]]
          /\ UNCHANGED crossed
      BY <2>1 DEF ClearMajorFlag
    <3>2. \A d \in Existing : draw'[d].position = draw[d].position
      BY <1>0, <3>1, ClearLemma
    <3>3. OthersKept(r) /\ ~Naming(r)'
      BY <1>0, <3>1, ClearedLemma DEF Naming
    <3> QED
      BY <1>b, <3>1, <3>2, <3>3, OrdersKept
  <2>2. CASE CreateDraw(r) \/ WriteDraw(r)
    <3>1. request' = [request EXCEPT ![r] = Ended(@, "done")] /\ UNCHANGED crossed
      BY <2>2 DEF CreateDraw, WriteDraw
    <3>2. OthersKept(r) /\ ~Naming(r)'
      BY <1>0, <3>1, EndedLemma DEF Naming
    <3>3. \A e \in Existing : draw'[e].position = draw[e].position
      <4>1. CASE CreateDraw(r)
        BY <1>0, <2>0, <4>1, CreateDrawLemma
      <4>2. CASE WriteDraw(r)
        BY <1>0, <2>0, <4>2, WriteLemma DEF Existing
      <4> QED
        BY <2>2, <4>1, <4>2
    <3> QED
      BY <1>b, <3>1, <3>2, <3>3, OrdersKept
  <2>3. CASE SetPosition(r)
    <3>1. Naming(r) /\ UNCHANGED crossed
      BY <2>3 DEF SetPosition, history, Naming
    <3>2. PICK i \in request[r].todo :
            /\ i \in DOMAIN request[r].order
            /\ draw'[request[r].order[i]].position = i - 1
            /\ \A e \in Draws \ {request[r].order[i]} : draw'[e] = draw[e]
            /\ OthersKept(r) /\ request'[r].order = request[r].order
            /\ request'[r].pc = "reorder" /\ request'[r].todo = request[r].todo \ {i}
      BY <1>0, <2>0, <2>3, PositionLemma
    <3>3. \A q \in Requests : Naming(q)' => Naming(q)
      BY <3>1, <3>2 DEF Naming, OthersKept
    <3>4. ASSUME NEW q \in Requests, Naming(q)', q \notin crossed'
          PROVE  q = r
      BY <3>1, <3>3, <3>4 DEF OrdersStand
    <3>5. ASSUME Naming(r)', r \notin crossed',
                 NEW j \in DOMAIN request'[r].order \ request'[r].todo
          PROVE  draw'[request'[r].order[j]].position = j - 1
      <4>1. CASE j = i
        BY <3>2, <4>1
      <4>2. CASE j # i
        <5>1. j \in DOMAIN request[r].order \ request[r].todo
          BY <3>2, <3>5, <4>2
        <5>2. draw[request[r].order[j]].position = j - 1
          BY <3>1, <3>5, <5>1 DEF OrdersStand
        <5>3. request[r].order[j] \in Draws \ {request[r].order[i]}
          BY <2>0, <3>1, <3>2, <4>2, <5>1 DEF RequestShape, Existing
        <5> QED
          BY <3>2, <5>2, <5>3
      <4> QED
        BY <4>1, <4>2
    <3>6. \A q \in Requests : Naming(q)' /\ r \notin crossed' => q = r
      BY <3>1, <3>3 DEF OrdersStand
    <3> QED
      BY <3>4, <3>5, <3>6 DEF OrdersStand
  <2>4. CASE FindOrdered(r)
    <3>1. /\ UNCHANGED draw /\ OthersKept(r) /\ request[r].pc = "new" /\ request'[r].pc = "reorder"
          /\ request'[r].todo = DOMAIN request'[r].order
          /\ crossed' = IF Reordering # {} THEN crossed \cup Reordering \cup {r} ELSE crossed
      BY <1>0, <2>4, FindLemma
    <3>2. \A q \in Requests : Naming(q) <=> q \in Reordering
      BY DEF Naming, Reordering
    <3>3. \A q \in Requests : Naming(q)' => q = r \/ Naming(q)
      BY <3>1 DEF Naming, OthersKept
    <3>4. CASE Reordering = {}
      BY <3>1, <3>2, <3>3, <3>4 DEF OrdersStand
    <3>5. CASE Reordering # {}
      <4>1. \A q \in Requests : Naming(q)' => q \in crossed'
        BY <3>1, <3>2, <3>3, <3>5
      <4> QED
        BY <4>1 DEF OrdersStand
    <3> QED
      BY <3>4, <3>5
  <2>5. CASE CountForPosition(r) \/ ReadDraw(r) \/ RefuseMove(r) \/ RefuseOrder(r)
    <3>1. /\ UNCHANGED draw /\ OthersKept(r) /\ ~Naming(r)' /\ request[r].pc = "new"
          /\ UNCHANGED crossed
      BY <1>0, <2>5, CountLemma, ReadDrawLemma, RefusedLemma DEF Naming, history
    <3> QED
      BY <1>b, <3>1, OrdersKept
  <2>6. CASE CreateClashes(r) \/ WriteClashes(r) \/ AnswerReorder(r)
    <3>1. /\ UNCHANGED <<draw, crossed>>
          /\ \E pc \in {"done", "failed"} : request' = [request EXCEPT ![r] = Ended(@, pc)]
      BY <2>6 DEF CreateClashes, WriteClashes, AnswerReorder, history
    <3>2. OthersKept(r) /\ ~Naming(r)'
      BY <1>0, <3>1, EndedLemma DEF Naming
    <3> QED
      BY <1>b, <3>1, <3>2, OrdersKept
  <2> QED
    BY <1>3, <2>1, <2>2, <2>3, <2>4, <2>5, <2>6 DEF Create, Update, Reorder
<1>4. ASSUME NEW d \in Draws, Settle(d) PROVE OrdersStand'
  <2>1. UNCHANGED <<request, crossed>>
    BY <1>4 DEF Settle, history
  <2> QED
    BY <1>0, <1>4, <1>a, <2>1, SettleLemma, OrdersKept
<1>5. CASE RenamePrize
  BY <1>5, <1>a, OrdersKept DEF RenamePrize, history
<1> QED
  BY <1>1, <1>2, <1>3, <1>4, <1>5 DEF Next

LEMMA StandingIsHonoured ==
    ASSUME TypeInv, OrdersStand
    PROVE  ReorderIsHonoured
<1> SUFFICES ASSUME NEW r \in Reordering \ crossed, request[r].todo = {},
                    NEW i \in DOMAIN request[r].order, NEW j \in DOMAIN request[r].order, i < j
             PROVE  draw[request[r].order[i]].position < draw[request[r].order[j]].position
  BY DEF ReorderIsHonoured
<1>1. r \in Requests /\ Naming(r) /\ RequestShape(r) /\ request[r].order \in Seq(Draws)
  BY DEF Reordering, Naming, TypeInv, TypeOK, RequestRecords
<1>2. draw[request[r].order[i]].position = i - 1 /\ draw[request[r].order[j]].position = j - 1
  BY <1>1 DEF OrdersStand
<1>3. i \in Nat /\ j \in Nat
  BY <1>1
<1> QED
  BY <1>2, <1>3

\* A reordering that overlaps no other leaves its draws in the order it names them.
THEOREM ReorderingsStand == Spec => []ReorderIsHonoured
<1>1. Init => TypeInv
  BY InitTypeInv
<1>2. Init => OrdersStand
  BY DEF Init, OrdersStand, Naming, NewRequest
<1> QED
  BY <1>1, <1>2, StepTypeInv, StepOrders, StandingIsHonoured, PTL DEF Spec

-------------------------------------------------------------------------------
\* The page of the calendar

\* A page lists the calendar, or fails to create it, only once there is one.
ListsSomething ==
    \A v \in Visits : /\ visit[v].pc \in {"list", "failed"} => Existing # {}
                      /\ visit[v].pc = "answered" => visit[v].featured \in Draws

LEMMA StepLists ==
    ASSUME TypeInv, ListsSomething, [Next]_vars
    PROVE  ListsSomething'
<1>0. /\ TypeOK /\ \A v \in Visits : VisitShape(v)
      /\ \A s \in Requests : RequestShape(s)
  BY DEF TypeInv
<1>a. UNCHANGED draw => Existing' = Existing
  BY DEF Existing
<1>b. UNCHANGED visit /\ Existing \subseteq Existing' => ListsSomething'
  BY DEF ListsSomething
<1>1. CASE UNCHANGED vars
  BY <1>1, <1>a, <1>b DEF vars
<1>2. ASSUME NEW v \in Visits, Visit(v) PROVE ListsSomething'
  <2>1. \A w \in Visits \ {v} : visit'[w] = visit[w]
    BY <1>0, <1>2, VisitLemma
  <2>2. /\ Existing \subseteq Existing'
        /\ visit'[v].pc \in {"list", "failed"} => Existing' # {}
        /\ visit'[v].pc = "answered" => visit'[v].featured \in Draws
    <3>1. CASE CreateInitial(v)
      <4>1. visit'[v].pc = "list"
        BY <1>0, <3>1 DEF CreateInitial, TypeOK, VisitRecords
      <4>2. \E d \in Draws \ Existing : Existing' = Existing \cup {d}
        BY <1>0, <3>1, InitialLemma
      <4> QED
        BY <4>1, <4>2
    <3>2. CASE CountDraws(v)
      <4>1. visit'[v].pc = IF Existing = {} THEN "create" ELSE "list"
        BY <1>0, <3>2 DEF CountDraws, TypeOK, VisitRecords
      <4>2. Existing' = Existing
        BY <3>2, <1>a DEF CountDraws
      <4> QED
        BY <4>1, <4>2
    <3>3. CASE ListDraws(v)
      <4>1. Featured \subseteq Draws /\ Existing # {}
        BY <3>3 DEF Featured, First, Major, Existing, ListsSomething, ListDraws
      <4>2. PICK d \in Draws : visit' = [visit EXCEPT ![v].pc = "answered", ![v].featured = d,
                                                     ![v].name = None]
        BY <3>3, <4>1 DEF ListDraws
      <4>3. visit'[v].pc = "answered" /\ visit'[v].featured = d
        BY <1>0, <4>2 DEF TypeOK, VisitRecords
      <4> QED
        BY <3>3, <4>3, <1>a DEF ListDraws
    <3>4. CASE ReadRaffle(v)
      <4>1. visit'[v].pc = "count"
        BY <1>0, <3>4 DEF ReadRaffle, TypeOK, VisitRecords
      <4>2. Existing' = Existing
        BY <3>4, <1>a DEF ReadRaffle
      <4> QED
        BY <4>1, <4>2
    <3>5. CASE InitialClashes(v)
      <4>1. visit'[v].pc = "failed"
        BY <1>0, <3>5 DEF InitialClashes, TypeOK, VisitRecords
      <4>2. Existing' = Existing /\ Existing # {}
        BY <3>5, <1>a DEF InitialClashes, SlugIsFree
      <4> QED
        BY <4>1, <4>2
    <3> QED
      BY <1>2, <3>1, <3>2, <3>3, <3>4, <3>5 DEF Visit
  <2> QED
    BY <2>1, <2>2 DEF ListsSomething
<1>3. ASSUME NEW r \in Requests, Create(r) \/ Update(r) \/ Reorder(r) PROVE ListsSomething'
  <2>1. UNCHANGED visit
    BY <1>3
    DEF Create, CountForPosition, ClearMajorFlag, CreateDraw, CreateClashes,
        Update, ReadDraw, RefuseMove, WriteDraw, WriteClashes,
        Reorder, FindOrdered, RefuseOrder, SetPosition, AnswerReorder
  <2>2. Existing \subseteq Existing'
    <3>1. CASE CreateDraw(r)
      BY <1>0, <3>1, CreateDrawLemma
    <3>2. CASE WriteDraw(r)
      BY <1>0, <3>2, WriteLemma
    <3>3. CASE SetPosition(r)
      BY <1>0, <3>3, PositionLemma
    <3>4. CASE ClearMajorFlag(r)
      BY <1>0, <3>4, ClearLemma DEF ClearMajorFlag
    <3>5. CASE ~CreateDraw(r) /\ ~WriteDraw(r) /\ ~SetPosition(r) /\ ~ClearMajorFlag(r)
      BY <1>3, <1>a, <3>5
      DEF Create, CountForPosition, CreateClashes, Update, ReadDraw, RefuseMove, WriteClashes,
          Reorder, FindOrdered, RefuseOrder, AnswerReorder
    <3> QED
      BY <3>1, <3>2, <3>3, <3>4, <3>5
  <2> QED
    BY <2>1, <2>2, <1>b
<1>4. ASSUME NEW d \in Draws, Settle(d) PROVE ListsSomething'
  BY <1>0, <1>4, <1>b, SettleLemma DEF Settle
<1>5. CASE RenamePrize
  BY <1>5, <1>a, <1>b DEF RenamePrize
<1> QED
  BY <1>1, <1>2, <1>3, <1>4, <1>5 DEF Next

\* An answered page shows a prize, and one that has lost the race for the first draw is an error
\* for a calendar that is there.
THEOREM CalendarIsShown == Spec => []CalendarIsNeverEmpty
<1>1. Init => TypeInv
  BY InitTypeInv
<1>2. Init => ListsSomething
  BY DEF Init, ListsSomething, NewVisit
<1>3. ListsSomething => CalendarIsNeverEmpty
  BY PrizeDrawsAssumption DEF ListsSomething, CalendarIsNeverEmpty, None
<1> QED
  BY <1>1, <1>2, <1>3, StepTypeInv, StepLists, PTL DEF Spec

=================================================================================
