---------------------------- MODULE CampaignProofs ----------------------------
(***************************************************************************)
(* Proofs about Campaign for every set of campaigns, buyers and requests,  *)
(* every number of attempts and every choice of faults.                    *)
(***************************************************************************)
EXTENDS Campaign, TLAPS

-------------------------------------------------------------------------------
\* Where a step takes its request and its notice.

\* What a step of r says of the other requests.
OthersKept(r) == \A s \in Requests \ {r} : request'[s] = request[s] /\ notice'[s] = notice[s]

RequestPlaces == {"new", "check", "write", "notify", "telling", "done", "failed"}

LEMMA EmptyRecords ==
    /\ NewRequest \in RequestRecords /\ NewRequest.pc = "new" /\ NewRequest.op = None
    /\ NoNotice \in NoticeRecords /\ NoNotice.run.pc = "none"
    /\ NewJob \in RunRecords /\ NewJob.pc = "waiting" /\ NewJob.left >= 1
  BY JobsAssumption
  DEF NewRequest, RequestRecords, NoNotice, NoticeRecords, RunRecords, NoJob, NewJob

LEMMA GotoLemma ==
    ASSUME TypeOK, NEW r \in Requests, NEW pc \in RequestPlaces, Goto(r, pc)
    PROVE  /\ request' \in [Requests -> RequestRecords]
           /\ request'[r].pc = pc /\ request'[r].op = request[r].op
           /\ request'[r].campaign = request[r].campaign
           /\ request'[r].notify = request[r].notify
           /\ request'[r].date = request[r].date /\ request'[r].owed = request[r].owed
           /\ \A s \in Requests \ {r} : request'[s] = request[s]
<1> DEFINE next == [request[r] EXCEPT !.pc = pc]
<1>1. request[r] \in RequestRecords /\ request \in [Requests -> RequestRecords]
  BY DEF TypeOK
<1>2. /\ next \in RequestRecords /\ next.pc = pc /\ next.op = request[r].op
      /\ next.campaign = request[r].campaign /\ next.notify = request[r].notify
      /\ next.date = request[r].date /\ next.owed = request[r].owed
  BY <1>1 DEF RequestPlaces, RequestRecords
<1>3. request' = [request EXCEPT ![r] = next]
  BY DEF Goto
<1> HIDE DEF next
<1> QED
  BY <1>1, <1>2, <1>3

LEMMA EndUpdateLemma ==
    ASSUME TypeOK, NEW r \in Requests, NEW pc \in RequestPlaces, EndUpdate(r, pc)
    PROVE  /\ request' \in [Requests -> RequestRecords]
           /\ request'[r].pc = pc /\ request'[r].op = "update"
           /\ \A s \in Requests \ {r} : request'[s] = request[s]
<1> DEFINE next == [NewRequest EXCEPT !.pc = pc, !.op = "update"]
<1>1. next \in RequestRecords /\ next.pc = pc /\ next.op = "update"
  BY DEF NewRequest, RequestRecords, RequestPlaces
<1>2. request' = [request EXCEPT ![r] = next]
  BY DEF EndUpdate
<1> HIDE DEF next
<1> QED
  BY <1>1, <1>2 DEF TypeOK

LEMMA ReadForUpdateLemma ==
    ASSUME TypeOK, NEW r \in Requests, ReadForUpdate(r)
    PROVE  /\ request' \in [Requests -> RequestRecords]
           /\ request'[r].op = "update" /\ request'[r].campaign \in Campaigns
           /\ request'[r].pc \in {"check", "write"}
           /\ OthersKept(r)
<1>1. PICK c \in Campaigns, status \in Statuses \cup {None}, moves \in BOOLEAN :
        request' = [request EXCEPT ![r] =
          [@ EXCEPT !.op = "update", !.campaign = c, !.status = status, !.moves = moves,
                    !.pc = IF status = "selling" /\ c \notin Selling THEN "check" ELSE "write"]]
  BY DEF ReadForUpdate
<1>2. UNCHANGED notice
  BY DEF ReadForUpdate
<1> DEFINE next ==
      [request[r] EXCEPT !.op = "update", !.campaign = c, !.status = status, !.moves = moves,
                         !.pc = IF status = "selling" /\ c \notin Selling
                                THEN "check" ELSE "write"]
<1>3. /\ next \in RequestRecords /\ next.op = "update" /\ next.campaign = c
      /\ next.pc \in {"check", "write"}
  <2>1. request[r] \in RequestRecords
    BY DEF TypeOK
  <2> QED
    BY <2>1, ZenonT(60) DEF RequestRecords
<1>4. request' = [request EXCEPT ![r] = next]
  BY <1>1
<1> HIDE DEF next
<1> QED
  BY <1>2, <1>3, <1>4 DEF TypeOK, OthersKept

LEMMA ReadForPostponeLemma ==
    ASSUME TypeOK, NEW r \in Requests, ReadForPostpone(r)
    PROVE  /\ request' \in [Requests -> RequestRecords]
           /\ request'[r].op = "postpone" /\ request'[r].pc = "write"
           /\ \E c \in Campaigns :
                /\ request'[r].campaign = c
                /\ request'[r].date = campaign[c].date
                /\ overlapped' = (overlapped \/ Postponing(c) # {})
           /\ OthersKept(r)
<1>1. PICK c \in Campaigns, notify \in BOOLEAN :
        /\ request' = [request EXCEPT ![r] =
             [@ EXCEPT !.op = "postpone", !.pc = "write", !.campaign = c, !.notify = notify,
                       !.date = campaign[c].date]]
        /\ overlapped' = (overlapped \/ Postponing(c) # {})
  BY DEF ReadForPostpone
<1>2. UNCHANGED notice
  BY DEF ReadForPostpone
<1> DEFINE next ==
      [request[r] EXCEPT !.op = "postpone", !.pc = "write", !.campaign = c, !.notify = notify,
                         !.date = campaign[c].date]
<1>3. /\ next \in RequestRecords /\ next.op = "postpone" /\ next.pc = "write"
      /\ next.campaign = c /\ next.date = campaign[c].date
  <2>1. request[r] \in RequestRecords /\ campaign[c].date \in Nat
    BY DEF TypeOK, CampaignRecords
  <2> QED
    BY <2>1, ZenonT(60) DEF RequestRecords
<1>4. request' = [request EXCEPT ![r] = next]
  BY <1>1
<1> HIDE DEF next
<1> QED
  BY <1>1, <1>2, <1>3, <1>4 DEF TypeOK, OthersKept

LEMMA WriteUpdateLemma ==
    ASSUME TypeOK, NEW r \in Requests, request[r].campaign \in Campaigns, WriteUpdate(r)
    PROVE  /\ request' \in [Requests -> RequestRecords]
           /\ request'[r].pc \in {"done", "failed"} /\ request'[r].op = "update"
           /\ campaign' \in [Campaigns -> CampaignRecords]
           /\ \A c \in Campaigns :
                /\ campaign[c].date <= campaign'[c].date
                /\ campaign'[c].log = campaign[c].log
                /\ \/ campaign'[c].status = campaign[c].status
                   \/ campaign'[c].status # "selling"
                   \/ c = request[r].campaign /\ Selling \ {c} = {}
           /\ OthersKept(r)
<1> DEFINE q == request[r]  c == request[r].campaign
<1>1. UNCHANGED notice
  BY DEF WriteUpdate
<1>2. CASE IndexAllows(c, q.status) /\ campaign' = [campaign EXCEPT ![c] = Changed(c, q)]
                                    /\ EndUpdate(r, "done")
  <2>1. /\ Changed(c, q) \in CampaignRecords
        /\ campaign[c].date <= Changed(c, q).date /\ Changed(c, q).log = campaign[c].log
        /\ Changed(c, q).status \in {campaign[c].status, q.status}
    <3>1. campaign[c] \in CampaignRecords /\ q \in RequestRecords
      BY DEF TypeOK
    <3>2. /\ campaign[c].date \in Nat /\ campaign[c].date + 1 \in Nat
          /\ campaign[c].status \in Statuses /\ q.status \in Statuses \cup {None}
      BY <3>1 DEF CampaignRecords, RequestRecords
    <3>3. PICK status, date :
            /\ status = IF q.status = None THEN campaign[c].status ELSE q.status
            /\ date = IF q.moves THEN campaign[c].date + 1 ELSE campaign[c].date
      OBVIOUS
    <3>4. Changed(c, q) = [campaign[c] EXCEPT !.status = status, !.date = date]
      BY <3>3 DEF Changed
    <3>5. status \in Statuses /\ date \in Nat /\ campaign[c].date <= date
      BY <3>2, <3>3
    <3>6. status \in {campaign[c].status, q.status}
      BY <3>3
    <3> QED
      BY <3>1, <3>4, <3>5, <3>6 DEF CampaignRecords
  <2>2. q.status = "selling" => Selling \ {c} = {}
    BY <1>2 DEF IndexAllows
  <2> QED
    BY <1>1, <1>2, <2>1, <2>2, EndUpdateLemma
    DEF TypeOK, OthersKept, RequestPlaces, CampaignRecords
<1>3. CASE EndUpdate(r, "failed") /\ UNCHANGED campaign
  BY <1>1, <1>3, EndUpdateLemma DEF TypeOK, OthersKept, RequestPlaces, CampaignRecords
<1> QED
  BY <1>2, <1>3 DEF WriteUpdate

LEMMA WritePostponementLemma ==
    ASSUME TypeOK, NEW r \in Requests, NEW c \in Campaigns, c = request[r].campaign,
           WritePostponement(r)
    PROVE  /\ request' \in [Requests -> RequestRecords]
           /\ request'[r].pc = IF request[r].notify THEN "notify" ELSE "done"
           /\ request'[r].op = "postpone" /\ request'[r].campaign = c
           /\ request'[r].notify = request[r].notify
           /\ request'[r].date = campaign[c].date + 1
           /\ request'[r].owed = BuyersOf(c)
           /\ campaign' \in [Campaigns -> CampaignRecords]
           /\ campaign'[c].status = "postponed" /\ campaign'[c].date = campaign[c].date + 1
           /\ campaign'[c].log = Append(campaign[c].log, <<request[r].date, campaign[c].date + 1>>)
           /\ \A d \in Campaigns \ {c} : campaign'[d] = campaign[d]
           /\ OthersKept(r)
<1> DEFINE old == campaign[c].date
           entry == <<request[r].date, old + 1>>
           doc == [status |-> "postponed", date |-> old + 1,
                   log |-> Append(campaign[c].log, entry)]
           next == [request[r] EXCEPT !.pc = IF request[r].notify THEN "notify" ELSE "done",
                                      !.date = old + 1, !.owed = BuyersOf(c)]
<1>0. campaign[c] \in CampaignRecords /\ request[r] \in RequestRecords /\ paid \subseteq Buyers
  BY DEF TypeOK
<1>1. old \in Nat /\ old + 1 \in Nat /\ request[r].date \in Nat
  BY <1>0 DEF CampaignRecords, RequestRecords
<1>2. Append(campaign[c].log, entry) \in Seq(Nat \X Nat)
  <2>1. entry \in Nat \X Nat /\ campaign[c].log \in Seq(Nat \X Nat)
    BY <1>0, <1>1 DEF CampaignRecords
  <2> HIDE DEF entry
  <2> QED
    BY <2>1
<1>3. doc \in CampaignRecords
  BY <1>1, <1>2 DEF CampaignRecords, Statuses
<1>4. /\ next \in RequestRecords /\ next.pc = IF request[r].notify THEN "notify" ELSE "done"
      /\ next.op = request[r].op /\ next.campaign = request[r].campaign
      /\ next.notify = request[r].notify
      /\ next.date = old + 1 /\ next.owed = BuyersOf(c)
  <2>1. BuyersOf(c) \in SUBSET Buyers
    BY <1>0 DEF BuyersOf
  <2> QED
    BY <1>0, <1>1, <2>1 DEF RequestRecords
<1>5. /\ campaign' = [campaign EXCEPT ![c] = doc]
      /\ request' = [request EXCEPT ![r] = next]
      /\ request[r].op = "postpone" /\ UNCHANGED notice
  BY DEF WritePostponement
<1>6. /\ doc.status = "postponed" /\ doc.date = campaign[c].date + 1
      /\ doc.log = Append(campaign[c].log, <<request[r].date, campaign[c].date + 1>>)
  OBVIOUS
<1> HIDE DEF old, entry, doc, next
<1>7. /\ request' \in [Requests -> RequestRecords] /\ request'[r] = next
      /\ campaign' \in [Campaigns -> CampaignRecords] /\ campaign'[c] = doc
      /\ \A d \in Campaigns \ {c} : campaign'[d] = campaign[d]
      /\ OthersKept(r)
  BY <1>3, <1>4, <1>5 DEF TypeOK, OthersKept
<1> QED
  BY <1>4, <1>5, <1>6, <1>7 DEF old

\* A postponement hands its notice over, to the queue or to the loop of its own.
LEMMA NotifyLemma ==
    ASSUME TypeOK, NEW r \in Requests, Enqueue(r) \/ EnqueueThrows(r) \/ StartInline(r)
    PROVE  /\ request' \in [Requests -> RequestRecords] /\ notice' \in [Requests -> NoticeRecords]
           /\ request[r].pc = "notify" /\ request'[r].op = request[r].op
           /\ request'[r].campaign = request[r].campaign
           /\ request'[r].notify = request[r].notify
           /\ request'[r].date = request[r].date /\ request'[r].owed = request[r].owed
           /\ \/ request'[r].pc = "failed" /\ notice'[r] = notice[r]
              \/ /\ request'[r].pc \in {"done", "telling", "failed"}
                 /\ request'[r].pc = "done" => mode = "queue"
                 /\ notice'[r].run.pc = "waiting" /\ notice'[r].run.left >= 1
           /\ OthersKept(r)
<1>1. CASE UNCHANGED notice /\ Goto(r, "failed") /\ At(r, "notify")
  BY <1>1, GotoLemma DEF TypeOK, At, OthersKept, RequestPlaces
<1>2. ASSUME NEW run \in RunRecords, run.pc = "waiting", run.left >= 1,
             NEW pc \in {"done", "telling", "failed"}, Goto(r, pc), At(r, "notify"),
             notice' = [notice EXCEPT ![r].run = run]
      PROVE  /\ request' \in [Requests -> RequestRecords] /\ request'[r].pc = pc
             /\ notice' \in [Requests -> NoticeRecords] /\ notice'[r].run = run
             /\ request[r].pc = "notify" /\ request'[r].op = request[r].op
             /\ request'[r].campaign = request[r].campaign
             /\ request'[r].notify = request[r].notify
             /\ request'[r].date = request[r].date /\ request'[r].owed = request[r].owed
             /\ OthersKept(r)
  <2>1. /\ request' \in [Requests -> RequestRecords] /\ request'[r].pc = pc
        /\ request'[r].op = request[r].op /\ request'[r].campaign = request[r].campaign
        /\ request'[r].notify = request[r].notify
        /\ request'[r].date = request[r].date /\ request'[r].owed = request[r].owed
        /\ OthersKept(r)
    BY <1>2, GotoLemma DEF OthersKept, RequestPlaces
  <2> DEFINE noted == [notice[r] EXCEPT !.run = run]
  <2>2. noted \in NoticeRecords /\ noted.run = run
    BY <1>2 DEF TypeOK, NoticeRecords
  <2>3. notice' = [notice EXCEPT ![r] = noted]
    BY <1>2
  <2> HIDE DEF noted
  <2>4. notice' \in [Requests -> NoticeRecords] /\ notice'[r].run = run
    BY <2>2, <2>3 DEF TypeOK
  <2> QED
    BY <1>2, <2>1, <2>4 DEF At
<1>3. CASE Enqueue(r)
  BY <1>2, <1>3, EmptyRecords DEF Enqueue
<1>4. CASE EnqueueThrows(r)
  BY <1>1, <1>2, <1>4, EmptyRecords DEF EnqueueThrows
<1>5. CASE StartInline(r)
  <2> DEFINE run == [NewJob EXCEPT !.left = 1]
  <2>1. run \in RunRecords /\ run.pc = "waiting" /\ run.left >= 1
    BY EmptyRecords DEF RunRecords
  <2>2. notice' = [notice EXCEPT ![r].run = run] /\ Goto(r, "telling") /\ At(r, "notify")
    BY <1>5 DEF StartInline
  <2> HIDE DEF run
  <2>3. /\ request' \in [Requests -> RequestRecords] /\ request'[r].pc = "telling"
        /\ notice' \in [Requests -> NoticeRecords] /\ notice'[r].run = run
        /\ request[r].pc = "notify" /\ request'[r].op = request[r].op
        /\ request'[r].campaign = request[r].campaign
        /\ request'[r].notify = request[r].notify
        /\ request'[r].date = request[r].date /\ request'[r].owed = request[r].owed
        /\ OthersKept(r)
    BY <1>2, <2>1, <2>2
  <2> QED
    BY <2>1, <2>3
<1> QED
  BY <1>3, <1>4, <1>5

LEMMA EndInlineLemma ==
    ASSUME TypeOK, NEW r \in Requests, EndInline(r)
    PROVE  /\ request' \in [Requests -> RequestRecords] /\ UNCHANGED notice
           /\ request[r].pc = "telling" /\ request'[r].op = request[r].op
           /\ request'[r].campaign = request[r].campaign
           /\ request'[r].notify = request[r].notify
           /\ request'[r].date = request[r].date /\ request'[r].owed = request[r].owed
           /\ request'[r].pc = notice[r].run.pc /\ notice[r].run.pc \in {"done", "failed"}
           /\ OthersKept(r)
  BY GotoLemma DEF EndInline, At, OthersKept, RequestPlaces

\* A failed attempt waits for the next one or ends the job.
LEMMA FailedLemma ==
    ASSUME NEW j \in RunRecords, j.left >= 1
    PROVE  /\ Failed(j) \in RunRecords /\ Failed(j).pc \in {"waiting", "failed"}
           /\ Failed(j).pc = "waiting" => Failed(j).left >= 1
<1>1. j.left \in Nat /\ j.left - 1 \in Nat
  BY DEF RunRecords
<1>2. CASE j.left > 1
  <2>1. Failed(j) = [j EXCEPT !.pc = "waiting", !.left = j.left - 1]
    BY <1>2 DEF Failed
  <2>2. j.left - 1 >= 1
    BY <1>1, <1>2
  <2> QED
    BY <1>1, <2>1, <2>2 DEF RunRecords
<1>3. CASE ~(j.left > 1)
  <2>1. Failed(j) = [j EXCEPT !.pc = "failed", !.left = j.left - 1]
    BY <1>3 DEF Failed
  <2> QED
    BY <1>1, <2>1 DEF RunRecords
<1> QED
  BY <1>2, <1>3

LEMMA StalledLemma ==
    ASSUME NEW j \in RunRecords
    PROVE  /\ Stalled(j) \in RunRecords /\ Stalled(j).pc \in {"waiting", "failed"}
           /\ Stalled(j).left = j.left
  BY DEF Stalled, RunRecords

\* The loop over the buyers that API and worker share, one statement at a time.
Loop(r) == TellBuyers(r) \/ TellThrows(r) \/ WorkerDies(r)

LEMMA LoopLemma ==
    ASSUME TypeOK, NEW r \in Requests, Loop(r),
           request[r].campaign \in Campaigns, notice[r].run.left >= 1
    PROVE  /\ notice' \in [Requests -> NoticeRecords] /\ told' \in [Buyers -> SUBSET Nat]
           /\ \A b \in Buyers : told[b] \subseteq told'[b]
           /\ notice'[r].run.pc \in {"waiting", "asking", "telling"} => notice'[r].run.left >= 1
           /\ UNCHANGED <<mode, campaign, paid, request, overlapped>> /\ OthersKept(r)
           /\ \/ /\ notice[r].run.pc = "waiting" /\ notice'[r].run.pc = "asking"
                 /\ notice'[r].date = campaign[request[r].campaign].date
              \/ /\ notice[r].run.pc = "asking" /\ notice'[r].run.pc = "telling"
                 /\ notice'[r].date = notice[r].date
                 /\ notice'[r].todo = BuyersOf(request[r].campaign)
              \/ /\ notice[r].run.pc = "telling" /\ notice'[r].run.pc = "telling"
                 /\ notice'[r].date = notice[r].date
                 /\ \E b \in notice[r].todo :
                      /\ notice[r].date \in told'[b] /\ notice'[r].todo = notice[r].todo \ {b}
              \/ /\ notice[r].run.pc = "telling" /\ notice[r].todo = {}
                 /\ notice'[r].run.pc = "done"
              \/ /\ notice[r].run.pc \in {"asking", "telling"}
                 /\ notice'[r].run.pc \in {"waiting", "failed"}
<1>0. /\ notice[r] \in NoticeRecords /\ notice[r].run \in RunRecords
      /\ told \in [Buyers -> SUBSET Nat] /\ paid \subseteq Buyers
      /\ campaign[request[r].campaign].date \in Nat /\ notice[r].date \in Nat
  BY DEF TypeOK, NoticeRecords, CampaignRecords
<1>a. ASSUME NEW next \in NoticeRecords, notice' = [notice EXCEPT ![r] = next], UNCHANGED request
      PROVE  notice' \in [Requests -> NoticeRecords] /\ notice'[r] = next /\ OthersKept(r)
  BY <1>a DEF TypeOK, OthersKept
<1>1. CASE ReadCampaign(r)
  <2> DEFINE next == [notice[r] EXCEPT !.run.pc = "asking",
                                       !.date = campaign[request[r].campaign].date]
  <2>1. /\ next \in NoticeRecords /\ next.run.pc = "asking" /\ next.run.left = notice[r].run.left
        /\ next.date = campaign[request[r].campaign].date
    BY <1>0 DEF NoticeRecords, RunRecords
  <2>2. notice' = [notice EXCEPT ![r] = next]
    BY <1>1 DEF ReadCampaign
  <2> HIDE DEF next
  <2> QED
    BY <1>0, <1>1, <1>a, <2>1, <2>2 DEF ReadCampaign, InRun
<1>2. CASE FindBuyers(r)
  <2> DEFINE next == [notice[r] EXCEPT !.run.pc = "telling",
                                       !.todo = BuyersOf(request[r].campaign)]
  <2>1. /\ next \in NoticeRecords /\ next.run.pc = "telling" /\ next.run.left = notice[r].run.left
        /\ next.date = notice[r].date /\ next.todo = BuyersOf(request[r].campaign)
    BY <1>0 DEF NoticeRecords, RunRecords, BuyersOf
  <2>2. notice' = [notice EXCEPT ![r] = next]
    BY <1>2 DEF FindBuyers
  <2> HIDE DEF next
  <2> QED
    BY <1>0, <1>2, <1>a, <2>1, <2>2 DEF FindBuyers, InRun
<1>3. CASE Tell(r)
  <2>1. PICK b \in notice[r].todo :
          /\ told' = [told EXCEPT ![b] = @ \cup {notice[r].date}]
          /\ notice' = [notice EXCEPT ![r].todo = @ \ {b}]
    BY <1>3 DEF Tell
  <2>2. b \in Buyers
    BY <1>0 DEF NoticeRecords
  <2> DEFINE next == [notice[r] EXCEPT !.todo = @ \ {b}]
  <2>3. /\ next \in NoticeRecords /\ next.run = notice[r].run
        /\ next.date = notice[r].date /\ next.todo = notice[r].todo \ {b}
    BY <1>0 DEF NoticeRecords
  <2>4. notice' = [notice EXCEPT ![r] = next]
    BY <2>1
  <2>5. /\ told' \in [Buyers -> SUBSET Nat] /\ notice[r].date \in told'[b]
        /\ \A a \in Buyers : told[a] \subseteq told'[a]
    BY <1>0, <2>1, <2>2
  <2> HIDE DEF next
  <2> QED
    BY <1>3, <1>a, <2>3, <2>4, <2>5 DEF Tell, InRun
<1>4. CASE TellThrows(r)
  <2>1. PICK b \in notice[r].todo : told' \in {told, [told EXCEPT ![b] = @ \cup {notice[r].date}]}
    BY <1>4 DEF TellThrows
  <2>2. b \in Buyers
    BY <1>0 DEF NoticeRecords
  <2>3. told' \in [Buyers -> SUBSET Nat] /\ \A a \in Buyers : told[a] \subseteq told'[a]
    BY <1>0, <2>1, <2>2
  <2> DEFINE next == [notice[r] EXCEPT !.run = Failed(notice[r].run), !.todo = {}, !.date = 0]
  <2>4. next \in NoticeRecords /\ next.run = Failed(notice[r].run)
    BY <1>0, FailedLemma DEF NoticeRecords
  <2>5. notice' = [notice EXCEPT ![r] = next]
    BY <1>4 DEF TellThrows
  <2> HIDE DEF next
  <2> QED
    BY <1>0, <1>4, <1>a, <2>3, <2>4, <2>5, FailedLemma, ZenonT(60) DEF TellThrows, InRun
<1>5. CASE FinishNotice(r)
  <2> DEFINE next == [notice[r] EXCEPT !.run.pc = "done", !.date = 0]
  <2>1. next \in NoticeRecords /\ next.run.pc = "done"
    BY <1>0 DEF NoticeRecords, RunRecords
  <2>2. notice' = [notice EXCEPT ![r] = next]
    BY <1>5 DEF FinishNotice
  <2> HIDE DEF next
  <2> QED
    BY <1>0, <1>5, <1>a, <2>1, <2>2 DEF FinishNotice, InRun
<1>6. CASE WorkerDies(r)
  <2> DEFINE next == [notice[r] EXCEPT !.run = Stalled(notice[r].run), !.todo = {}, !.date = 0]
  <2>1. next \in NoticeRecords /\ next.run = Stalled(notice[r].run)
    BY <1>0, StalledLemma DEF NoticeRecords
  <2>2. notice' = [notice EXCEPT ![r] = next]
    BY <1>6 DEF WorkerDies
  <2> HIDE DEF next
  <2> QED
    <3>1. /\ notice' \in [Requests -> NoticeRecords] /\ notice'[r].run = Stalled(notice[r].run)
          /\ OthersKept(r)
      BY <1>6, <1>a, <2>1, <2>2 DEF WorkerDies
    <3>2. /\ Stalled(notice[r].run).pc \in {"waiting", "failed"}
          /\ Stalled(notice[r].run).left = notice[r].run.left
      BY <1>0, StalledLemma
    <3>3. /\ notice[r].run.pc \in {"asking", "telling"}
          /\ UNCHANGED <<mode, campaign, paid, told, request, overlapped>>
      BY <1>6 DEF WorkerDies
    <3> QED
      BY <1>0, <3>1, <3>2, <3>3
<1> QED
  BY <1>1, <1>2, <1>3, <1>4, <1>5, <1>6 DEF Loop, TellBuyers

-------------------------------------------------------------------------------
\* Types

\* How far a request and its notice have got, and what they have by then.
Shape(r) ==
    /\ request[r].op \in {"update", "postpone"} \/ request[r].pc = "new"
    /\ request[r].pc \in {"check", "write"} \/ request[r].op = "postpone" =>
         request[r].campaign \in Campaigns
    /\ request[r].pc = "check" => request[r].op = "update"
    /\ request[r].pc \in {"notify", "telling"} => request[r].op = "postpone"
    /\ request[r].pc = "new" => request[r].op = None
    /\ notice[r].run.pc # "none" =>
         request[r].op = "postpone" /\ request[r].pc \in {"telling", "done", "failed"}
    /\ notice[r].run.pc \in {"waiting", "asking", "telling"} => notice[r].run.left >= 1

TypeInv == TypeOK /\ \A r \in Requests : Shape(r)

LEMMA InitTypeInv == ASSUME Init PROVE TypeInv
<1>1. /\ request \in [Requests -> RequestRecords] /\ notice \in [Requests -> NoticeRecords]
      /\ \A r \in Requests : request[r] = NewRequest /\ notice[r] = NoNotice
  BY EmptyRecords DEF Init
<1>2. campaign \in [Campaigns -> CampaignRecords]
  <2>1. [status : {"draft", "selling"}, date : {0}, log : {<<>>}] \subseteq CampaignRecords
    <3>1. {<<>>} \subseteq Seq(Nat \X Nat)
      OBVIOUS
    <3>2. {"draft", "selling"} \subseteq Statuses /\ {0} \subseteq Nat
      BY DEF Statuses
    <3> DEFINE Logs == {<<>>}  Moves == Seq(Nat \X Nat)
    <3>3. Logs \subseteq Moves
      BY <3>1
    <3> HIDE DEF Logs, Moves
    <3>4. [status : {"draft", "selling"}, date : {0}, log : Logs]
            \subseteq [status : Statuses, date : Nat, log : Moves]
      BY <3>2, <3>3
    <3> QED
      BY <3>4 DEF CampaignRecords, Logs, Moves
  <2> QED
    BY <2>1 DEF Init
<1>3. TypeOK
  BY <1>1, <1>2 DEF Init, TypeOK
<1>4. \A r \in Requests : Shape(r)
  BY <1>1, EmptyRecords DEF Shape, None
<1> QED
  BY <1>3, <1>4 DEF TypeInv

\* Another request's step leaves a request as it is.
LEMMA ShapeKept ==
    ASSUME NEW r \in Requests, \A s \in Requests : Shape(s), OthersKept(r), Shape(r)'
    PROVE  \A s \in Requests : Shape(s)'
  BY DEF Shape, OthersKept

\* Each step keeps the state well typed.
LEMMA StepTypeInv == TypeInv /\ [Next]_vars => TypeInv'
<1> SUFFICES ASSUME TypeInv, [Next]_vars
             PROVE  TypeInv'
  OBVIOUS
<1>0. TypeOK /\ \A s \in Requests : Shape(s)
  BY DEF TypeInv
<1>1. CASE UNCHANGED vars
  BY <1>1 DEF vars, TypeInv, TypeOK, Shape
<1>2. ASSUME NEW r \in Requests, ReadForUpdate(r) PROVE TypeInv'
  <2>1. notice'[r] = notice[r] /\ request[r].pc = "new"
    BY <1>2 DEF ReadForUpdate, At
  <2>2. TypeOK'
    BY <1>0, <1>2, ReadForUpdateLemma DEF ReadForUpdate, TypeOK
  <2>3. Shape(r)'
    BY <1>0, <1>2, <2>1, ReadForUpdateLemma DEF Shape
  <2> QED
    BY <1>0, <1>2, <2>2, <2>3, ShapeKept, ReadForUpdateLemma DEF TypeInv
<1>3. ASSUME NEW r \in Requests, CheckSingleSelling(r) PROVE TypeInv'
  <2>1. UNCHANGED notice /\ request[r].pc = "check"
    BY <1>3 DEF CheckSingleSelling, At
  <2>2. /\ request' \in [Requests -> RequestRecords]
        /\ \/ /\ request'[r].pc = "write" /\ request'[r].op = request[r].op
              /\ request'[r].campaign = request[r].campaign
           \/ request'[r].pc = "failed" /\ request'[r].op = "update"
        /\ \A s \in Requests \ {r} : request'[s] = request[s]
    BY <1>0, <1>3, GotoLemma, EndUpdateLemma DEF CheckSingleSelling, RequestPlaces
  <2>3. TypeOK'
    BY <1>0, <1>3, <2>2 DEF CheckSingleSelling, TypeOK
  <2>4. OthersKept(r)
    BY <2>1, <2>2 DEF OthersKept
  <2>5. Shape(r)'
    BY <1>0, <2>1, <2>2 DEF Shape
  <2> QED
    BY <1>0, <2>3, <2>4, <2>5, ShapeKept DEF TypeInv
<1>4. ASSUME NEW r \in Requests, WriteUpdate(r) PROVE TypeInv'
  <2>1. /\ notice'[r] = notice[r] /\ request[r].pc = "write"
        /\ request[r].campaign \in Campaigns /\ Shape(r)
    BY <1>0, <1>4 DEF WriteUpdate, At, Shape
  <2>2. TypeOK'
    BY <1>0, <1>4, <2>1, WriteUpdateLemma DEF WriteUpdate, TypeOK
  <2>3. request'[r].pc \in {"done", "failed"} /\ request'[r].op = "update" /\ OthersKept(r)
    BY <1>0, <1>4, <2>1, WriteUpdateLemma
  <2>4. Shape(r)'
    BY <2>1, <2>3 DEF Shape
  <2> QED
    BY <1>0, <2>2, <2>3, <2>4, ShapeKept DEF TypeInv
<1>5. ASSUME NEW r \in Requests, ReadForPostpone(r) PROVE TypeInv'
  <2>1. notice'[r] = notice[r] /\ request[r].pc = "new" /\ Shape(r)
    BY <1>0, <1>5 DEF ReadForPostpone, At
  <2>2. overlapped' \in BOOLEAN
    BY <1>0, <1>5 DEF ReadForPostpone, TypeOK
  <2>3. TypeOK'
    BY <1>0, <1>5, <2>2, ReadForPostponeLemma DEF ReadForPostpone, TypeOK
  <2>4. Shape(r)'
    BY <1>0, <1>5, <2>1, ReadForPostponeLemma DEF Shape
  <2> QED
    BY <1>0, <1>5, <2>3, <2>4, ShapeKept, ReadForPostponeLemma DEF TypeInv
<1>6. ASSUME NEW r \in Requests, WritePostponement(r) PROVE TypeInv'
  <2>1. /\ notice'[r] = notice[r] /\ request[r].pc = "write"
        /\ request[r].campaign \in Campaigns /\ Shape(r)
    BY <1>0, <1>6 DEF WritePostponement, At, Shape
  <2>2. /\ request'[r].pc \in {"notify", "done"} /\ request'[r].op = "postpone"
        /\ request'[r].campaign \in Campaigns /\ OthersKept(r)
    BY <1>0, <1>6, <2>1, WritePostponementLemma
  <2>3. TypeOK'
    BY <1>0, <1>6, <2>1, WritePostponementLemma DEF WritePostponement, TypeOK
  <2>4. Shape(r)'
    BY <2>1, <2>2 DEF Shape
  <2> QED
    BY <1>0, <2>2, <2>3, <2>4, ShapeKept DEF TypeInv
<1>7. ASSUME NEW r \in Requests, Enqueue(r) \/ EnqueueThrows(r) \/ StartInline(r) PROVE TypeInv'
  <2>1. UNCHANGED <<mode, campaign, paid, told, overlapped>>
    BY <1>7 DEF Enqueue, EnqueueThrows, StartInline
  <2>2. TypeOK'
    BY <1>0, <1>7, <2>1, NotifyLemma DEF TypeOK
  <2>3. /\ request[r].pc = "notify" /\ request'[r].op = request[r].op
        /\ request'[r].campaign = request[r].campaign
        /\ \/ request'[r].pc = "failed" /\ notice'[r] = notice[r]
           \/ /\ request'[r].pc \in {"done", "telling", "failed"}
              /\ notice'[r].run.pc = "waiting" /\ notice'[r].run.left >= 1
        /\ OthersKept(r)
    BY <1>0, <1>7, NotifyLemma
  <2>4. Shape(r)'
    BY <1>0, <2>3 DEF Shape
  <2> QED
    BY <1>0, <2>2, <2>3, <2>4, ShapeKept DEF TypeInv
<1>8. ASSUME NEW r \in Requests, EndInline(r) PROVE TypeInv'
  <2>1. TypeOK'
    BY <1>0, <1>8, EndInlineLemma DEF EndInline, TypeOK
  <2>2. Shape(r)'
    BY <1>0, <1>8, EndInlineLemma DEF Shape
  <2> QED
    BY <1>0, <1>8, <2>1, <2>2, ShapeKept, EndInlineLemma DEF TypeInv
<1>9. ASSUME NEW r \in Requests, Loop(r) PROVE TypeInv'
  <2>1. notice[r].run.pc \in {"waiting", "asking", "telling"}
    BY <1>9 DEF Loop, TellBuyers, ReadCampaign, FindBuyers, Tell, FinishNotice, TellThrows,
                WorkerDies, InRun
  <2>2. request[r].campaign \in Campaigns /\ notice[r].run.left >= 1 /\ Shape(r)
    BY <1>0, <2>1 DEF Shape
  <2>3. /\ notice' \in [Requests -> NoticeRecords] /\ told' \in [Buyers -> SUBSET Nat]
        /\ notice'[r].run.pc \in {"waiting", "asking", "telling"} => notice'[r].run.left >= 1
        /\ UNCHANGED <<mode, campaign, paid, request, overlapped>> /\ OthersKept(r)
    BY <1>0, <1>9, <2>2, LoopLemma
  <2>4. TypeOK'
    BY <1>0, <2>3 DEF TypeOK
  <2>5. Shape(r)'
    BY <2>1, <2>2, <2>3 DEF Shape
  <2> QED
    BY <1>0, <2>3, <2>4, <2>5, ShapeKept DEF TypeInv
<1>10. ASSUME NEW b \in Buyers, Pay(b) PROVE TypeInv'
  BY <1>0, <1>10 DEF Pay, TypeInv, TypeOK, Shape
<1> QED
  BY <1>1, <1>2, <1>3, <1>4, <1>5, <1>6, <1>7, <1>8, <1>9, <1>10
  DEF Next, Update, Postpone, Fault, Loop

\* Campaigns, requests and notices keep their shape.
THEOREM TypeCorrect == Spec => []TypeOK
<1>1. TypeInv => TypeOK
  BY DEF TypeInv
<1>2. Init => TypeInv
  BY InitTypeInv
<1> QED
  BY <1>1, <1>2, StepTypeInv, PTL DEF Spec

-------------------------------------------------------------------------------
\* One campaign is selling.

\* Only an update the index lets through makes a campaign sell.
LEMMA SellingSteps ==
    ASSUME TypeInv, [Next]_vars, NEW c \in Campaigns, campaign'[c].status = "selling"
    PROVE  c \in Selling \/ (Selling \ {c} = {} /\ Selling' \subseteq {c})
<1>0. TypeOK /\ \A s \in Requests : Shape(s)
  BY DEF TypeInv
<1>1. CASE UNCHANGED campaign
  <2>1. campaign[c].status = "selling"
    BY <1>1
  <2> QED
    BY <2>1 DEF Selling
<1>2. ASSUME NEW r \in Requests, WriteUpdate(r)
      PROVE  c \in Selling \/ (Selling \ {c} = {} /\ Selling' \subseteq {c})
  <2>1. request[r].campaign \in Campaigns
    BY <1>0, <1>2 DEF WriteUpdate, At, Shape
  <2>2. \A d \in Campaigns :
          \/ campaign'[d].status = campaign[d].status
          \/ campaign'[d].status # "selling"
          \/ d = request[r].campaign /\ Selling \ {d} = {}
    BY <1>0, <1>2, <2>1, WriteUpdateLemma
  <2>3. CASE campaign'[c].status = campaign[c].status
    BY <2>3 DEF Selling
  <2>4. CASE c = request[r].campaign /\ Selling \ {c} = {}
    <3>1. \A d \in Campaigns \ {c} : campaign'[d].status # "selling"
      BY <2>2, <2>4 DEF Selling
    <3> QED
      BY <2>4, <3>1 DEF Selling
  <2> QED
    BY <2>2, <2>3, <2>4
<1>3. ASSUME NEW r \in Requests, WritePostponement(r) PROVE c \in Selling
  <2>1. request[r].campaign \in Campaigns
    BY <1>0, <1>3 DEF WritePostponement, At, Shape
  <2>2. /\ campaign'[request[r].campaign].status = "postponed"
        /\ \A d \in Campaigns \ {request[r].campaign} : campaign'[d] = campaign[d]
    BY <1>0, <1>3, <2>1, WritePostponementLemma
  <2> QED
    BY <2>2 DEF Selling
<1> QED
  BY <1>1, <1>2, <1>3
  DEF Next, vars, Update, Postpone, TellBuyers, Fault, ReadForUpdate, CheckSingleSelling,
      ReadForPostpone, Enqueue, StartInline, EndInline, ReadCampaign, FindBuyers, Tell,
      FinishNotice, EnqueueThrows, TellThrows, WorkerDies, Pay

LEMMA StepSelling ==
    ASSUME TypeInv, OneSellingCampaign, [Next]_vars
    PROVE  OneSellingCampaign'
<1>2. ASSUME NEW c \in Selling', NEW d \in Selling' PROVE c = d
  <2>1. /\ c \in Campaigns /\ campaign'[c].status = "selling"
        /\ d \in Campaigns /\ campaign'[d].status = "selling"
    BY <1>2 DEF Selling
  <2>2. c \in Selling \/ Selling' \subseteq {c}
    BY <2>1, SellingSteps
  <2>3. d \in Selling \/ Selling' \subseteq {d}
    BY <2>1, SellingSteps
  <2> QED
    BY <1>2, <2>2, <2>3 DEF OneSellingCampaign
<1> QED
  BY <1>2 DEF OneSellingCampaign

\* Whoever has passed the check of the service, the index lets one campaign sell.
THEOREM OneSells == Spec => []OneSellingCampaign
<1>1. Init => OneSellingCampaign
  BY DEF Init, OneSellingCampaign
<1>2. Init => TypeInv
  BY InitTypeInv
<1> QED
  BY <1>1, <1>2, StepTypeInv, StepSelling, PTL DEF Spec

-------------------------------------------------------------------------------
\* What only grows

\* Buyers, what they have been told, and the dates of campaigns only grow.
LEMMA Growth ==
    ASSUME TypeInv, [Next]_vars
    PROVE  /\ paid \subseteq paid' /\ mode' = mode
           /\ \A b \in Buyers : told[b] \subseteq told'[b]
           /\ \A c \in Campaigns : campaign[c].date <= campaign'[c].date
<1>0. /\ TypeOK /\ \A s \in Requests : Shape(s)
      /\ \A c \in Campaigns : campaign[c].date \in Nat
  BY DEF TypeInv, TypeOK, CampaignRecords
<1>a. CASE UNCHANGED <<mode, paid, told, campaign>>
  BY <1>0, <1>a
<1>1. ASSUME NEW r \in Requests, WriteUpdate(r) PROVE \A c \in Campaigns : campaign[c].date <= campaign'[c].date
  <2>1. request[r].campaign \in Campaigns
    BY <1>0, <1>1 DEF WriteUpdate, At, Shape
  <2> QED
    BY <1>0, <1>1, <2>1, WriteUpdateLemma
<1>2. ASSUME NEW r \in Requests, WritePostponement(r)
      PROVE  \A c \in Campaigns : campaign[c].date <= campaign'[c].date
  <2>1. request[r].campaign \in Campaigns
    BY <1>0, <1>2 DEF WritePostponement, At, Shape
  <2>2. /\ campaign'[request[r].campaign].date = campaign[request[r].campaign].date + 1
        /\ \A d \in Campaigns \ {request[r].campaign} : campaign'[d] = campaign[d]
    BY <1>0, <1>2, <2>1, WritePostponementLemma
  <2> QED
    BY <1>0, <2>2
<1>3. ASSUME NEW r \in Requests, Loop(r)
      PROVE  \A b \in Buyers : told[b] \subseteq told'[b]
  <2>1. request[r].campaign \in Campaigns /\ notice[r].run.left >= 1
    BY <1>0, <1>3
    DEF Shape, Loop, TellBuyers, ReadCampaign, FindBuyers, Tell, FinishNotice, TellThrows,
        WorkerDies, InRun
  <2> QED
    BY <1>0, <1>3, <2>1, LoopLemma
<1>4. ASSUME NEW r \in Requests, WriteUpdate(r) \/ WritePostponement(r)
      PROVE  UNCHANGED <<mode, paid, told>>
  BY <1>4 DEF WriteUpdate, WritePostponement
<1>5. ASSUME NEW r \in Requests, Loop(r) PROVE UNCHANGED <<mode, paid, campaign>>
  BY <1>5 DEF Loop, TellBuyers, ReadCampaign, FindBuyers, Tell, FinishNotice, TellThrows, WorkerDies
<1>6. ASSUME NEW b \in Buyers, Pay(b) PROVE paid \subseteq paid' /\ UNCHANGED <<mode, told, campaign>>
  BY <1>6 DEF Pay
<1>7. \/ UNCHANGED <<mode, paid, told, campaign>>
      \/ \E r \in Requests : WriteUpdate(r) \/ WritePostponement(r) \/ Loop(r)
      \/ \E b \in Buyers : Pay(b)
  BY DEF Next, vars, Update, Postpone, Fault, ReadForUpdate, CheckSingleSelling,
         ReadForPostpone, Enqueue, StartInline, EndInline, EnqueueThrows, Loop
<1>8. CASE \E r \in Requests : WriteUpdate(r) \/ WritePostponement(r)
  BY <1>1, <1>2, <1>4, <1>8
<1>9. CASE \E r \in Requests : Loop(r)
  BY <1>0, <1>3, <1>5, <1>9
<1>10. CASE \E b \in Buyers : Pay(b)
  BY <1>0, <1>6, <1>10
<1> QED
  BY <1>a, <1>7, <1>8, <1>9, <1>10

-------------------------------------------------------------------------------
\* Nobody misses a postponement.

Told(r, b) == \E date \in told[b] : date >= request[r].date

\* What a notice owes, on its way: who had bought when the draw was postponed has bought still;
\* the campaign, and the date an attempt has read, are no older than the postponement; and whom
\* the attempt has behind it is told.
Owing(r) ==
    request[r].op = "postpone" /\ request[r].pc # "write" =>
        /\ request[r].owed \subseteq BuyersOf(request[r].campaign)
        /\ request[r].date <= campaign[request[r].campaign].date
        /\ notice[r].run.pc \in {"asking", "telling"} => request[r].date <= notice[r].date
        /\ notice[r].run.pc = "telling" =>
             \A b \in request[r].owed : b \in notice[r].todo \/ Told(r, b)
        /\ notice[r].run.pc = "done" => \A b \in request[r].owed : Told(r, b)

\* A step of others leaves a notice owing what it owed.
LEMMA OwingKept ==
    ASSUME TypeInv, [Next]_vars, NEW r \in Requests, Owing(r), UNCHANGED <<request[r], notice[r]>>
    PROVE  Owing(r)'
<1>1. CASE request[r].op = "postpone" /\ request[r].pc # "write"
  <2>1. /\ request[r].owed \subseteq Buyers /\ request[r].date \in Nat
        /\ request[r].campaign \in Campaigns
    BY <1>1 DEF TypeInv, TypeOK, RequestRecords, Shape
  <2>2. /\ campaign[request[r].campaign].date \in Nat
        /\ campaign'[request[r].campaign].date \in Nat
    BY <2>1, StepTypeInv DEF TypeInv, TypeOK, CampaignRecords
  <2>3. BuyersOf(request[r].campaign) \subseteq BuyersOf(request[r].campaign)'
    BY <2>1, Growth DEF BuyersOf
  <2>4. \A b \in request[r].owed : Told(r, b) => Told(r, b)'
    BY <2>1, Growth DEF Told
  <2>5. request'[r].date <= campaign'[request'[r].campaign].date
    BY <1>1, <2>1, <2>2, Growth DEF Owing
  <2>6. request'[r].owed \subseteq BuyersOf(request[r].campaign)'
    BY <1>1, <2>3 DEF Owing, BuyersOf
  <2> QED
    BY <1>1, <2>4, <2>5, <2>6 DEF Owing
<1>2. CASE ~(request[r].op = "postpone" /\ request[r].pc # "write")
  BY <1>2 DEF Owing
<1> QED
  BY <1>1, <1>2

\* A step of the loop settles some of what its notice owes.
LEMMA LoopOwing ==
    ASSUME TypeInv, [Next]_vars, NEW r \in Requests, Owing(r), Loop(r)
    PROVE  Owing(r)' /\ OthersKept(r)
<1>1. /\ request[r].campaign \in Campaigns /\ notice[r].run.left >= 1
      /\ request[r].op = "postpone" /\ request[r].pc # "write"
  BY DEF TypeInv, Shape, Loop, TellBuyers, ReadCampaign, FindBuyers, Tell, FinishNotice,
         TellThrows, WorkerDies, InRun
<1>2. /\ UNCHANGED <<campaign, paid, request>> /\ OthersKept(r)
      /\ \/ /\ notice[r].run.pc = "waiting" /\ notice'[r].run.pc = "asking"
            /\ notice'[r].date = campaign[request[r].campaign].date
         \/ /\ notice[r].run.pc = "asking" /\ notice'[r].run.pc = "telling"
            /\ notice'[r].date = notice[r].date
            /\ notice'[r].todo = BuyersOf(request[r].campaign)
         \/ /\ notice[r].run.pc = "telling" /\ notice'[r].run.pc = "telling"
            /\ notice'[r].date = notice[r].date
            /\ \E b \in notice[r].todo :
                 /\ notice[r].date \in told'[b] /\ notice'[r].todo = notice[r].todo \ {b}
         \/ /\ notice[r].run.pc = "telling" /\ notice[r].todo = {}
            /\ notice'[r].run.pc = "done"
         \/ /\ notice[r].run.pc \in {"asking", "telling"}
            /\ notice'[r].run.pc \in {"waiting", "failed"}
  BY <1>1, LoopLemma DEF TypeInv
<1>3. request[r].owed \subseteq Buyers /\ request[r].date \in Nat /\ notice[r].date \in Nat
  BY DEF TypeInv, TypeOK, RequestRecords, NoticeRecords
<1>4. \A b \in request[r].owed : Told(r, b) => Told(r, b)'
  BY <1>2, <1>3, Growth DEF Told
<1>5. /\ request[r].owed \subseteq BuyersOf(request[r].campaign)
      /\ request[r].date <= campaign[request[r].campaign].date
      /\ notice[r].run.pc \in {"asking", "telling"} => request[r].date <= notice[r].date
      /\ notice[r].run.pc = "telling" =>
           \A b \in request[r].owed : b \in notice[r].todo \/ Told(r, b)
  BY <1>1 DEF Owing
<1>6. BuyersOf(request[r].campaign)' = BuyersOf(request[r].campaign)
  BY <1>2 DEF BuyersOf
<1>7. notice'[r].run.pc \in {"asking", "telling"} => request[r].date <= notice'[r].date
  BY <1>2, <1>5
<1>8. notice'[r].run.pc = "telling" =>
        \A b \in request[r].owed : b \in notice'[r].todo \/ Told(r, b)'
  <2>1. CASE notice[r].run.pc = "asking" /\ notice'[r].todo = BuyersOf(request[r].campaign)
    BY <1>5, <2>1
  <2>2. ASSUME NEW b \in notice[r].todo, notice[r].run.pc = "telling",
               notice[r].date \in told'[b], notice'[r].todo = notice[r].todo \ {b}
        PROVE  \A a \in request[r].owed : a \in notice'[r].todo \/ Told(r, a)'
    <3>1. Told(r, b)'
      BY <1>2, <1>3, <1>5, <2>2 DEF Told
    <3> QED
      BY <1>4, <1>5, <2>2, <3>1
  <2> QED
    BY <1>2, <2>1, <2>2
<1>9. notice'[r].run.pc = "done" => \A b \in request[r].owed : Told(r, b)'
  BY <1>2, <1>4, <1>5
<1>10. UNCHANGED request /\ UNCHANGED campaign /\ OthersKept(r)
  BY <1>2
<1> QED
  BY <1>1, <1>5, <1>6, <1>7, <1>8, <1>9, <1>10 DEF Owing

LEMMA StepOwing ==
    ASSUME TypeInv, \A r \in Requests : Owing(r), [Next]_vars
    PROVE  \A r \in Requests : Owing(r)'
<1> SUFFICES ASSUME NEW s \in Requests PROVE Owing(s)'
  OBVIOUS
<1>0. TypeOK /\ \A r \in Requests : Shape(r)
  BY DEF TypeInv
<1>a. UNCHANGED <<request[s], notice[s]>> => Owing(s)'
  BY OwingKept
<1>b. ASSUME NEW r \in Requests, OthersKept(r), Owing(r)' PROVE Owing(s)'
  BY <1>a, <1>b DEF OthersKept
<1>1. CASE UNCHANGED <<request, notice>>
  BY <1>1, <1>a
<1>2. ASSUME NEW r \in Requests, ReadForUpdate(r) PROVE Owing(s)'
  <2>1. request'[r].op = "update" /\ OthersKept(r)
    BY <1>0, <1>2, ReadForUpdateLemma
  <2> QED
    BY <1>b, <2>1 DEF Owing
<1>3. ASSUME NEW r \in Requests, CheckSingleSelling(r) PROVE Owing(s)'
  <2>1. request[r].op = "update" /\ UNCHANGED notice
    BY <1>0, <1>3 DEF CheckSingleSelling, At, Shape
  <2>2. /\ request'[r].op = "update"
        /\ \A t \in Requests \ {r} : request'[t] = request[t]
    BY <1>0, <1>3, <2>1, GotoLemma, EndUpdateLemma DEF CheckSingleSelling, RequestPlaces
  <2>3. OthersKept(r) /\ Owing(r)'
    BY <2>1, <2>2 DEF OthersKept, Owing
  <2> QED
    BY <1>b, <2>3
<1>4. ASSUME NEW r \in Requests, WriteUpdate(r) PROVE Owing(s)'
  <2>1. request[r].campaign \in Campaigns
    BY <1>0, <1>4 DEF WriteUpdate, At, Shape
  <2>2. request'[r].op = "update" /\ OthersKept(r)
    BY <1>0, <1>4, <2>1, WriteUpdateLemma
  <2> QED
    BY <1>b, <2>2 DEF Owing
<1>5. ASSUME NEW r \in Requests, ReadForPostpone(r) PROVE Owing(s)'
  <2>1. request'[r].pc = "write" /\ OthersKept(r)
    BY <1>0, <1>5, ReadForPostponeLemma
  <2> QED
    BY <1>b, <2>1 DEF Owing
<1>6. ASSUME NEW r \in Requests, WritePostponement(r) PROVE Owing(s)'
  <2>1. request[r].campaign \in Campaigns /\ notice[r].run.pc = "none" /\ UNCHANGED <<notice, paid>>
    BY <1>0, <1>6 DEF WritePostponement, At, Shape
  <2>2. /\ request'[r].campaign = request[r].campaign
        /\ request'[r].date = campaign[request[r].campaign].date + 1
        /\ request'[r].owed = BuyersOf(request[r].campaign)
        /\ campaign'[request[r].campaign].date = campaign[request[r].campaign].date + 1
        /\ campaign'[request[r].campaign].date \in Nat
        /\ OthersKept(r)
    BY <1>0, <1>6, <2>1, WritePostponementLemma DEF CampaignRecords
  <2>3. BuyersOf(request[r].campaign)' = BuyersOf(request[r].campaign)
    BY <2>1, <2>2 DEF BuyersOf
  <2>4. notice'[r].run.pc = "none"
    BY <2>1
  <2>5. Owing(r)'
    BY <2>2, <2>3, <2>4 DEF Owing
  <2> QED
    BY <1>b, <2>2, <2>5
<1>7. ASSUME NEW r \in Requests, Enqueue(r) \/ EnqueueThrows(r) \/ StartInline(r) PROVE Owing(s)'
  <2>1. UNCHANGED <<campaign, paid, told>>
    BY <1>7 DEF Enqueue, EnqueueThrows, StartInline
  <2>2. /\ request[r].pc = "notify" /\ request'[r].op = request[r].op
        /\ request'[r].campaign = request[r].campaign
        /\ request'[r].date = request[r].date /\ request'[r].owed = request[r].owed
        /\ notice'[r] = notice[r] \/ notice'[r].run.pc = "waiting"
        /\ OthersKept(r)
    BY <1>0, <1>7, NotifyLemma
  <2>3. notice[r].run.pc = "none"
    BY <1>0, <2>2 DEF Shape
  <2>4. BuyersOf(request[r].campaign)' = BuyersOf(request[r].campaign)
    BY <2>1, <2>2 DEF BuyersOf
  <2>5. Owing(r)'
    BY <2>1, <2>2, <2>3, <2>4 DEF Owing
  <2> QED
    BY <1>b, <2>2, <2>5
<1>8. ASSUME NEW r \in Requests, EndInline(r) PROVE Owing(s)'
  <2>1. UNCHANGED <<campaign, paid, told>>
    BY <1>8 DEF EndInline
  <2>2. /\ request[r].pc = "telling" /\ request'[r].op = request[r].op
        /\ request'[r].campaign = request[r].campaign
        /\ request'[r].date = request[r].date /\ request'[r].owed = request[r].owed
        /\ UNCHANGED notice /\ OthersKept(r)
    BY <1>0, <1>8, EndInlineLemma
  <2>3. BuyersOf(request[r].campaign)' = BuyersOf(request[r].campaign)
    BY <2>1, <2>2 DEF BuyersOf
  <2>4. \A b : Told(r, b)' <=> Told(r, b)
    BY <2>1, <2>2 DEF Told
  <2>5. Owing(r)'
    BY <2>1, <2>2, <2>3, <2>4 DEF Owing
  <2> QED
    BY <1>b, <2>2, <2>5
<1>9. ASSUME NEW r \in Requests, Loop(r) PROVE Owing(s)'
  BY <1>9, <1>b, LoopOwing
<1>10. ASSUME NEW b \in Buyers, Pay(b) PROVE Owing(s)'
  BY <1>1, <1>10 DEF Pay
<1> QED
  BY <1>1, <1>2, <1>3, <1>4, <1>5, <1>6, <1>7, <1>8, <1>9, <1>10
  DEF Next, vars, Update, Postpone, Fault, Loop

\* A notice that ended well has told everybody it owes a date no older than its own, however many
\* attempts, stalls and later postponements lie between.
THEOREM NobodyMisses == Spec => []NobodyMissesAPostponement
<1>1. ASSUME Init PROVE TypeInv /\ \A r \in Requests : Owing(r)
  <2>1. \A r \in Requests : request[r] = NewRequest
    BY <1>1 DEF Init
  <2> QED
    BY <1>1, <2>1, InitTypeInv, EmptyRecords DEF Owing, None
<1>2. TypeInv /\ (\A r \in Requests : Owing(r)) => NobodyMissesAPostponement
  <2> SUFFICES ASSUME TypeInv, NEW r \in Requests, Owing(r), notice[r].run.pc = "done"
               PROVE  \A b \in request[r].owed : \E date \in told[b] : date >= request[r].date
    BY DEF NobodyMissesAPostponement, InRun
  <2>1. request[r].op = "postpone" /\ request[r].pc # "write"
    BY DEF TypeInv, Shape
  <2> QED
    BY <2>1 DEF Owing, Told
<1>3. TypeInv /\ (\A r \in Requests : Owing(r)) /\ [Next]_vars => (\A r \in Requests : Owing(r))'
  BY StepOwing
<1> QED
  BY <1>1, <1>2, <1>3, StepTypeInv, PTL DEF Spec

-------------------------------------------------------------------------------
\* Answered means announced.

Announced(r) ==
    request[r].pc = "done" /\ request[r].op = "postpone" /\ request[r].notify =>
        IF mode = "inline" THEN notice[r].run.pc = "done" ELSE notice[r].run.pc # "none"

LEMMA StepAnnounced ==
    ASSUME TypeInv, \A r \in Requests : Announced(r), [Next]_vars
    PROVE  \A r \in Requests : Announced(r)'
<1> SUFFICES ASSUME NEW s \in Requests PROVE Announced(s)'
  OBVIOUS
<1>0. TypeOK /\ (\A r \in Requests : Shape(r)) /\ mode' = mode
  BY Growth DEF TypeInv
<1>a. UNCHANGED <<request[s], notice[s]>> => Announced(s)'
  BY <1>0 DEF Announced
<1>b. ASSUME NEW r \in Requests, OthersKept(r), Announced(r)' PROVE Announced(s)'
  BY <1>a, <1>b DEF OthersKept
<1>1. CASE UNCHANGED <<request, notice>>
  BY <1>1, <1>a
<1>2. ASSUME NEW r \in Requests, ReadForUpdate(r) PROVE Announced(s)'
  <2>1. request'[r].op = "update" /\ OthersKept(r)
    BY <1>0, <1>2, ReadForUpdateLemma
  <2> QED
    BY <1>b, <2>1 DEF Announced
<1>3. ASSUME NEW r \in Requests, CheckSingleSelling(r) PROVE Announced(s)'
  <2>1. request[r].op = "update" /\ UNCHANGED notice
    BY <1>0, <1>3 DEF CheckSingleSelling, At, Shape
  <2>2. /\ request'[r].op = "update"
        /\ \A t \in Requests \ {r} : request'[t] = request[t]
    BY <1>0, <1>3, <2>1, GotoLemma, EndUpdateLemma DEF CheckSingleSelling, RequestPlaces
  <2>3. OthersKept(r) /\ Announced(r)'
    BY <2>1, <2>2 DEF OthersKept, Announced
  <2> QED
    BY <1>b, <2>3
<1>4. ASSUME NEW r \in Requests, WriteUpdate(r) PROVE Announced(s)'
  <2>1. request[r].campaign \in Campaigns
    BY <1>0, <1>4 DEF WriteUpdate, At, Shape
  <2>2. request'[r].op = "update" /\ OthersKept(r)
    BY <1>0, <1>4, <2>1, WriteUpdateLemma
  <2> QED
    BY <1>b, <2>2 DEF Announced
<1>5. ASSUME NEW r \in Requests, ReadForPostpone(r) PROVE Announced(s)'
  <2>1. request'[r].pc = "write" /\ OthersKept(r)
    BY <1>0, <1>5, ReadForPostponeLemma
  <2> QED
    BY <1>b, <2>1 DEF Announced
<1>6. ASSUME NEW r \in Requests, WritePostponement(r) PROVE Announced(s)'
  <2>1. request[r].campaign \in Campaigns
    BY <1>0, <1>6 DEF WritePostponement, At, Shape
  <2>2. /\ request'[r].pc = IF request[r].notify THEN "notify" ELSE "done"
        /\ request'[r].notify = request[r].notify /\ OthersKept(r)
    BY <1>0, <1>6, <2>1, WritePostponementLemma
  <2> QED
    BY <1>b, <2>2 DEF Announced
<1>7. ASSUME NEW r \in Requests, Enqueue(r) \/ EnqueueThrows(r) \/ StartInline(r)
      PROVE  Announced(s)'
  <2>1. /\ \/ request'[r].pc = "failed"
           \/ /\ request'[r].pc = "done" => mode = "queue"
              /\ notice'[r].run.pc = "waiting"
        /\ OthersKept(r)
    BY <1>0, <1>7, NotifyLemma
  <2> QED
    BY <1>0, <1>b, <2>1 DEF Announced
<1>8. ASSUME NEW r \in Requests, EndInline(r) PROVE Announced(s)'
  <2>1. /\ request'[r].pc = notice[r].run.pc /\ notice[r].run.pc \in {"done", "failed"}
        /\ UNCHANGED notice /\ OthersKept(r)
    BY <1>0, <1>8, EndInlineLemma
  <2> QED
    BY <1>0, <1>b, <2>1 DEF Announced
<1>9. ASSUME NEW r \in Requests, Loop(r) PROVE Announced(s)'
  <2>1. notice[r].run.pc \in {"waiting", "asking", "telling"}
    BY <1>9 DEF Loop, TellBuyers, ReadCampaign, FindBuyers, Tell, FinishNotice, TellThrows,
                WorkerDies, InRun
  <2>2. request[r].campaign \in Campaigns /\ notice[r].run.left >= 1
    BY <1>0, <2>1 DEF Shape
  <2>3. /\ notice'[r].run.pc \in {"waiting", "asking", "telling", "done", "failed"}
        /\ UNCHANGED request /\ OthersKept(r)
    BY <1>0, <1>9, <2>2, LoopLemma
  <2> QED
    BY <1>0, <1>b, <2>1, <2>3 DEF Announced
<1>10. ASSUME NEW b \in Buyers, Pay(b) PROVE Announced(s)'
  BY <1>1, <1>10 DEF Pay
<1> QED
  BY <1>1, <1>2, <1>3, <1>4, <1>5, <1>6, <1>7, <1>8, <1>9, <1>10
  DEF Next, vars, Update, Postpone, Fault, Loop

\* A postponement that answered has told its buyers or has left a job that will try to.
THEOREM AnsweredAreAnnounced == Spec => []AnsweredMeansAnnounced
<1>1. ASSUME Init PROVE TypeInv /\ \A r \in Requests : Announced(r)
  <2>1. \A r \in Requests : request[r] = NewRequest
    BY <1>1 DEF Init
  <2> QED
    BY <1>1, <2>1, InitTypeInv, EmptyRecords DEF Announced
<1>2. (\A r \in Requests : Announced(r)) => AnsweredMeansAnnounced
  BY DEF AnsweredMeansAnnounced, Announced, At, InRun
<1>3. TypeInv /\ (\A r \in Requests : Announced(r)) /\ [Next]_vars =>
        (\A r \in Requests : Announced(r))'
  BY StepAnnounced
<1> QED
  BY <1>1, <1>2, <1>3, StepTypeInv, PTL DEF Spec

-------------------------------------------------------------------------------
\* The log of a campaign is a chain.

\* A postponement about to write starts from a date no newer than the campaign's; while none
\* have overlapped it is alone, and no entry of the log ends after that date.
Chained(c) ==
    LET log == campaign[c].log IN
    /\ \A i \in DOMAIN log : log[i][2] <= campaign[c].date
    /\ \A r \in Postponing(c) : request[r].date <= campaign[c].date
    /\ ~overlapped =>
         /\ \A r, s \in Postponing(c) : r = s
         /\ \A r \in Postponing(c) : \A i \in DOMAIN log : log[i][2] <= request[r].date
         /\ \A i, j \in DOMAIN log :
              /\ log[i][1] < log[i][2]
              /\ i < j => log[i][2] <= log[j][1]

\* A postponement that is writing was writing before, unless it has just read its campaign.
LEMMA PostponingSteps ==
    ASSUME TypeInv, [Next]_vars, NEW c \in Campaigns, NEW r \in Postponing(c)'
    PROVE  \/ r \in Postponing(c) /\ request'[r].date = request[r].date
           \/ /\ ReadForPostpone(r) /\ request'[r].date = campaign[c].date
              /\ overlapped' = (overlapped \/ Postponing(c) # {})
<1>0. TypeOK /\ \A s \in Requests : Shape(s)
  BY DEF TypeInv
<1>1. r \in Requests /\ request'[r].op = "postpone" /\ request'[r].pc = "write" /\ request'[r].campaign = c
  BY DEF Postponing, At
<1>2. CASE request'[r] = request[r]
  BY <1>1, <1>2 DEF Postponing, At
<1>3. ASSUME NEW s \in Requests, OthersKept(s), s = r => request'[r].op = "update" \/ request'[r].pc # "write"
      PROVE  request'[r] = request[r]
  BY <1>1, <1>3 DEF OthersKept
<1>4. CASE UNCHANGED request
  BY <1>2, <1>4
<1>5. ASSUME NEW s \in Requests, ReadForUpdate(s) PROVE request'[r] = request[r]
  BY <1>0, <1>3, <1>5, ReadForUpdateLemma
<1>6. ASSUME NEW s \in Requests, CheckSingleSelling(s) PROVE request'[r] = request[r]
  <2>1. request[s].op = "update" /\ UNCHANGED notice
    BY <1>0, <1>6 DEF CheckSingleSelling, At, Shape
  <2>2. /\ request'[s].op = "update"
        /\ \A t \in Requests \ {s} : request'[t] = request[t]
    BY <1>0, <1>6, <2>1, GotoLemma, EndUpdateLemma DEF CheckSingleSelling, RequestPlaces
  <2> QED
    BY <1>3, <2>1, <2>2 DEF OthersKept
<1>7. ASSUME NEW s \in Requests, WriteUpdate(s) PROVE request'[r] = request[r]
  <2>1. request[s].campaign \in Campaigns
    BY <1>0, <1>7 DEF WriteUpdate, At, Shape
  <2> QED
    BY <1>0, <1>3, <1>7, <2>1, WriteUpdateLemma
<1>8. ASSUME NEW s \in Requests, ReadForPostpone(s)
      PROVE  \/ request'[r] = request[r]
             \/ /\ s = r /\ request'[r].date = campaign[c].date
                /\ overlapped' = (overlapped \/ Postponing(c) # {})
  <2>1. CASE s = r
    BY <1>0, <1>1, <1>8, <2>1, ReadForPostponeLemma
  <2>2. CASE s # r
    BY <1>0, <1>1, <1>8, <2>2, ReadForPostponeLemma DEF OthersKept
  <2> QED
    BY <2>1, <2>2
<1>9. ASSUME NEW s \in Requests, WritePostponement(s) PROVE request'[r] = request[r]
  <2>1. request[s].campaign \in Campaigns
    BY <1>0, <1>9 DEF WritePostponement, At, Shape
  <2>2. request'[s].pc = (IF request[s].notify THEN "notify" ELSE "done") /\ OthersKept(s)
    BY <1>0, <1>9, <2>1, WritePostponementLemma
  <2> QED
    BY <1>3, <2>2
<1>10. ASSUME NEW s \in Requests, Enqueue(s) \/ EnqueueThrows(s) \/ StartInline(s)
       PROVE  request'[r] = request[r]
  <2>1. request'[s].pc \in {"done", "telling", "failed"} /\ OthersKept(s)
    BY <1>0, <1>10, NotifyLemma
  <2> QED
    BY <1>3, <2>1
<1>11. ASSUME NEW s \in Requests, EndInline(s) PROVE request'[r] = request[r]
  <2>1. request'[s].pc \in {"done", "failed"} /\ OthersKept(s)
    BY <1>0, <1>11, EndInlineLemma
  <2> QED
    BY <1>3, <2>1
<1>12. (\E s \in Requests : Loop(s)) \/ (\E b \in Buyers : Pay(b)) => UNCHANGED request
  BY DEF Loop, TellBuyers, ReadCampaign, FindBuyers, Tell, FinishNotice, TellThrows,
         WorkerDies, Pay
<1> QED
  BY <1>2, <1>4, <1>5, <1>6, <1>7, <1>8, <1>9, <1>10, <1>11, <1>12
  DEF Next, vars, Update, Postpone, Fault, Loop

\* The log of a campaign grows by the entry of a postponement that was writing.
LEMMA LogSteps ==
    ASSUME TypeInv, [Next]_vars, NEW c \in Campaigns
    PROVE  \/ campaign'[c].log = campaign[c].log
           \/ \E r \in Postponing(c) :
                /\ r \notin Postponing(c)' /\ UNCHANGED overlapped
                /\ campaign'[c].date = campaign[c].date + 1
                /\ campaign'[c].log =
                     Append(campaign[c].log, <<request[r].date, campaign[c].date + 1>>)
                /\ \A s \in Requests \ {r} : request'[s] = request[s]
<1>0. TypeOK /\ \A s \in Requests : Shape(s)
  BY DEF TypeInv
<1>1. CASE UNCHANGED campaign
  BY <1>1
<1>2. ASSUME NEW r \in Requests, WriteUpdate(r) PROVE campaign'[c].log = campaign[c].log
  <2>1. request[r].campaign \in Campaigns
    BY <1>0, <1>2 DEF WriteUpdate, At, Shape
  <2> QED
    BY <1>0, <1>2, <2>1, WriteUpdateLemma
<1>3. ASSUME NEW r \in Requests, WritePostponement(r)
      PROVE  \/ campaign'[c].log = campaign[c].log
             \/ /\ r \in Postponing(c) /\ r \notin Postponing(c)' /\ UNCHANGED overlapped
                /\ campaign'[c].date = campaign[c].date + 1
                /\ campaign'[c].log =
                     Append(campaign[c].log, <<request[r].date, campaign[c].date + 1>>)
                /\ \A s \in Requests \ {r} : request'[s] = request[s]
  <2>1. /\ request[r].campaign \in Campaigns /\ request[r].op = "postpone" /\ At(r, "write")
        /\ UNCHANGED overlapped
    BY <1>0, <1>3 DEF WritePostponement, At, Shape
  <2>2. CASE c # request[r].campaign
    BY <1>0, <1>3, <2>1, <2>2, WritePostponementLemma
  <2>3. CASE c = request[r].campaign
    <3>1. /\ request'[r].pc # "write"
          /\ campaign'[c].date = campaign[c].date + 1
          /\ campaign'[c].log =
               Append(campaign[c].log, <<request[r].date, campaign[c].date + 1>>)
          /\ \A s \in Requests \ {r} : request'[s] = request[s]
      BY <1>0, <1>3, <2>3, WritePostponementLemma DEF OthersKept
    <3>2. r \in Postponing(c) /\ r \notin Postponing(c)'
      BY <2>1, <2>3, <3>1 DEF Postponing, At
    <3> QED
      BY <2>1, <3>1, <3>2
  <2> QED
    BY <2>2, <2>3
<1> QED
  BY <1>1, <1>2, <1>3
  DEF Next, vars, Update, Postpone, TellBuyers, Fault, ReadForUpdate, CheckSingleSelling,
      ReadForPostpone, Enqueue, StartInline, EndInline, ReadCampaign, FindBuyers, Tell,
      FinishNotice, EnqueueThrows, TellThrows, WorkerDies, Pay

LEMMA OverlapStays ==
    ASSUME [Next]_vars, overlapped PROVE overlapped'
<1>1. CASE \E r \in Requests : ReadForPostpone(r)
  BY <1>1 DEF ReadForPostpone
<1>2. CASE UNCHANGED overlapped
  BY <1>2
<1> QED
  BY <1>1, <1>2
  DEF Next, vars, Update, Postpone, TellBuyers, Fault, ReadForUpdate, CheckSingleSelling,
      WriteUpdate, WritePostponement, Enqueue, StartInline, EndInline, ReadCampaign, FindBuyers,
      Tell, FinishNotice, EnqueueThrows, TellThrows, WorkerDies, Pay

LEMMA AppendLemma ==
    ASSUME NEW log \in Seq(Nat \X Nat), NEW entry \in Nat \X Nat
    PROVE  /\ DOMAIN log = 1..Len(log) /\ Len(log) \in Nat
           /\ DOMAIN Append(log, entry) = 1..Len(log) + 1
           /\ Append(log, entry)[Len(log) + 1] = entry
           /\ \A i \in DOMAIN log : Append(log, entry)[i] = log[i]
  OBVIOUS

LEMMA StepChained ==
    ASSUME TypeInv, [Next]_vars, NEW c \in Campaigns, Chained(c)
    PROVE  Chained(c)'
<1> DEFINE log == campaign[c].log
<1>0. /\ campaign[c].date \in Nat /\ log \in Seq(Nat \X Nat)
      /\ campaign'[c].date \in Nat /\ campaign[c].date <= campaign'[c].date
      /\ \A r \in Requests : request[r].date \in Nat
      /\ Postponing(c) \subseteq Requests /\ overlapped \in BOOLEAN /\ overlapped' \in BOOLEAN
  BY Growth, StepTypeInv DEF TypeInv, TypeOK, CampaignRecords, RequestRecords, Postponing
<1>e. \A i \in DOMAIN log : log[i][1] \in Nat /\ log[i][2] \in Nat
  BY <1>0
<1>n. ~overlapped' => ~overlapped
  BY OverlapStays
<1>1. CASE campaign'[c].log = log
  <2>1. ASSUME NEW i \in DOMAIN log PROVE log[i][2] <= campaign'[c].date
    <3>1. log[i][2] <= campaign[c].date /\ log[i][2] \in Nat
      BY <1>e, <2>1 DEF Chained
    <3>2. /\ campaign[c].date \in Nat /\ campaign'[c].date \in Nat
          /\ campaign[c].date <= campaign'[c].date
      BY <1>0
    <3> HIDE DEF log
    <3> QED
      BY <3>1, <3>2
  <2>2. \A r \in Postponing(c)' : request'[r].date <= campaign'[c].date
    BY <1>0, PostponingSteps DEF Chained
  <2>3. ASSUME ~overlapped' PROVE \A r, s \in Postponing(c)' : r = s
    <3>1. \A r \in Postponing(c)' : r \notin Postponing(c) => Postponing(c) = {} /\ ReadForPostpone(r)
      BY <1>n, <2>3, PostponingSteps
    <3>2. \A r, s \in Requests : ReadForPostpone(r) /\ ReadForPostpone(s) => r = s
      <4>1. SUFFICES ASSUME NEW r \in Requests, NEW s \in Requests, r # s,
                            ReadForPostpone(r), ReadForPostpone(s)
                     PROVE  FALSE
        OBVIOUS
      <4>2. request'[s] = request[s] /\ request'[s].pc = "write" /\ request[s].pc = "new"
        BY <4>1, ReadForPostponeLemma DEF TypeInv, OthersKept, ReadForPostpone, At
      <4> QED
        BY <4>2
    <3>3. Postponing(c)' \subseteq Requests
      BY DEF Postponing
    <3> QED
      BY <1>n, <2>3, <3>1, <3>2, <3>3 DEF Chained
  <2>4. ASSUME ~overlapped'
        PROVE  \A r \in Postponing(c)' : \A i \in DOMAIN log : log[i][2] <= request'[r].date
    BY <1>n, <2>4, PostponingSteps DEF Chained
  <2>5. ASSUME ~overlapped'
        PROVE  \A i, j \in DOMAIN log : log[i][1] < log[i][2] /\ (i < j => log[i][2] <= log[j][1])
    BY <1>n, <2>5 DEF Chained
  <2> HIDE DEF log
  <2> QED
    BY <1>1, <2>1, <2>2, <2>3, <2>4, <2>5 DEF Chained
<1>2. ASSUME NEW r \in Postponing(c), r \notin Postponing(c)', UNCHANGED overlapped,
             campaign'[c].date = campaign[c].date + 1,
             campaign'[c].log = Append(log, <<request[r].date, campaign[c].date + 1>>),
             \A s \in Requests \ {r} : request'[s] = request[s]
      PROVE  Chained(c)'
  <2> DEFINE new == campaign'[c].log  n == Len(log) + 1
             entry == <<request[r].date, campaign[c].date + 1>>
  <2>0. request[r].date \in Nat /\ request[r].date <= campaign[c].date /\ entry \in Nat \X Nat
        /\ entry[1] = request[r].date /\ entry[2] = campaign[c].date + 1
    BY <1>0, <1>2 DEF Chained
  <2>1. /\ DOMAIN new = 1..n /\ DOMAIN log = 1..Len(log) /\ n \in Nat /\ new[n] = entry
        /\ \A i \in DOMAIN log : new[i] = log[i]
    <3>1. new = Append(log, entry)
      BY <1>2
    <3> HIDE DEF entry, log, new
    <3>2. log \in Seq(Nat \X Nat) /\ entry \in Nat \X Nat
      BY <1>0, <2>0
    <3> QED
      BY <3>1, <3>2, AppendLemma
  <2>2. \A i \in DOMAIN new : i = n \/ i \in DOMAIN log
    BY <1>0, <2>1
  <2>3. \A s \in Postponing(c)' : s \in Postponing(c) /\ s # r /\ request'[s] = request[s]
    <3>1. Postponing(c)' \subseteq Requests
      BY DEF Postponing
    <3>2. \A s \in Postponing(c)' : s # r /\ request'[s] = request[s]
      BY <1>2, <3>1
    <3> QED
      BY <3>1, <3>2 DEF Postponing, At
  <2>4. ASSUME NEW i \in DOMAIN new PROVE new[i][2] <= campaign'[c].date
    <3>0. campaign'[c].date \in Nat /\ campaign[c].date <= campaign'[c].date
      BY <1>0
    <3>c. campaign[c].date \in Nat
      BY <1>0
    <3>1. CASE i = n
      <4>1. new[i][2] = campaign'[c].date
        BY <1>2, <2>0, <2>1, <3>1
      <4> QED
        BY <3>0, <4>1
    <3>2. CASE i \in DOMAIN log
      <4>1. new[i] = log[i] /\ log[i][2] <= campaign[c].date /\ log[i][2] \in Nat
        BY <1>e, <2>1, <3>2 DEF Chained
      <4> HIDE DEF new, log
      <4> QED
        BY <3>0, <3>c, <4>1
    <3> QED
      BY <2>2, <2>4, <3>1, <3>2
  <2>5. ASSUME NEW s \in Postponing(c)' PROVE request'[s].date <= campaign'[c].date
    <3>1. /\ request'[s].date = request[s].date /\ request[s].date <= campaign[c].date
          /\ request[s].date \in Nat
      BY <1>0, <2>3, <2>5 DEF Chained
    <3> QED
      BY <1>0, <3>1
  <2>6. ~overlapped' => Postponing(c)' = {}
    BY <1>2, <1>n, <2>3 DEF Chained
  <2>7. ASSUME ~overlapped', NEW i \in DOMAIN new, NEW j \in DOMAIN new
        PROVE  new[i][1] < new[i][2] /\ (i < j => new[i][2] <= new[j][1])
    <3>1. /\ \A k \in DOMAIN log : log[k][2] <= request[r].date
          /\ \A k, l \in DOMAIN log : log[k][1] < log[k][2] /\ (k < l => log[k][2] <= log[l][1])
      BY <1>2, <1>n, <2>7 DEF Chained
    <3>2. CASE i \in DOMAIN log /\ j \in DOMAIN log
      BY <2>1, <3>1, <3>2
    <3>3. CASE i \in DOMAIN log /\ j = n
      BY <2>0, <2>1, <3>1, <3>3
    <3>4. CASE i = n
      <4>1. new[i] = entry /\ ~(i < j)
        BY <2>1, <2>7, <3>4
      <4>2. entry[1] < entry[2]
        BY <1>0, <2>0
      <4> QED
        BY <4>1, <4>2
    <3> QED
      BY <2>2, <2>7, <3>2, <3>3, <3>4
  <2> HIDE DEF log, entry, n
  <2> QED
    BY <2>4, <2>5, <2>6, <2>7 DEF Chained
<1> QED
  BY <1>1, <1>2, LogSteps

\* While no two postponements overlap, each entry of a log starts where the one before ended, or
\* later, and ends later than it starts.
THEOREM LogsAreChains == Spec => []LogIsAChain
<1>1. ASSUME Init PROVE TypeInv /\ \A c \in Campaigns : Chained(c)
  <2>1. \A c \in Campaigns : campaign[c].log = <<>>
    BY <1>1 DEF Init
  <2>2. \A c \in Campaigns : Postponing(c) = {}
    BY <1>1, EmptyRecords DEF Init, Postponing, At
  <2>3. \A c \in Campaigns : DOMAIN campaign[c].log = {}
    BY <2>1
  <2> QED
    BY <1>1, <2>2, <2>3, InitTypeInv DEF Chained
<1>2. (\A c \in Campaigns : Chained(c)) => LogIsAChain
  BY DEF LogIsAChain, Chained
<1>3. TypeInv /\ (\A c \in Campaigns : Chained(c)) /\ [Next]_vars =>
        (\A c \in Campaigns : Chained(c))'
  BY StepChained
<1> QED
  BY <1>1, <1>2, <1>3, StepTypeInv, PTL DEF Spec
===============================================================================
