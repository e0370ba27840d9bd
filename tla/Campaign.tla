------------------------------- MODULE Campaign -------------------------------
(***************************************************************************)
(* Campaigns (raffles) as administrators change them: updateRaffle sets    *)
(* any field, postponeRaffle moves the draw, logs the move and tells the   *)
(* buyers, in the API ("inline") or by a job of the worker ("queue").      *)
(*                                                                         *)
(*   campaign[c]  the document: status, date of the draw, log of moves     *)
(*   request[r]   a request of an administrator                            *)
(*   notice[r]    the notice of that postponement: the loop over buyers    *)
(*                that API and worker share, run as a job in queue mode    *)
(*   told[b]      history: the dates a buyer has been mailed               *)
(*                                                                         *)
(* A date is the number of moves that led to it, so two dates compare as   *)
(* older and newer.  "draft" stands for every status that is not on sale.  *)
(* An API that is killed leaves what EnqueueThrows and TellThrows leave.   *)
(* Campaigns are not created by any endpoint, and nothing calls            *)
(* RafflesService.settleDraw; draws are settled in PrizeSettlement.        *)
(***************************************************************************)
EXTENDS Jobs, Sequences

CONSTANTS
    Campaigns,
    Buyers,      \* addresses
    CampaignOf,  \* the campaign each of them buys in
    Requests,
    Faults       \* what may fail: "redis", "provider", "worker"

ASSUME CampaignAssumption ==
    /\ CampaignOf \in [Buyers -> Campaigns]
    /\ Faults \subseteq {"redis", "provider", "worker"}
    /\ "none" \notin Campaigns

VARIABLES
    mode,       \* NOTIFICATIONS_MODE
    campaign,
    paid,       \* buyers with a paid order
    told, request, notice,
    overlapped  \* history: a postponement read its campaign while another was at work on it

vars == <<mode, campaign, paid, told, request, notice, overlapped>>

Statuses == {"draft", "selling", "postponed"}
None == "none"

Selling == {c \in Campaigns : campaign[c].status = "selling"}
BuyersOf(c) == {b \in paid : CampaignOf[b] = c}

NewRequest ==
    [pc |-> "new", op |-> None, campaign |-> None, status |-> None, moves |-> FALSE,
     notify |-> FALSE, date |-> 0, owed |-> {}]
NoNotice == [run |-> NoJob, date |-> 0, todo |-> {}]

At(r, pc) == request[r].pc = pc
Goto(r, pc) == request' = [request EXCEPT ![r].pc = pc]
EndUpdate(r, pc) == request' = [request EXCEPT ![r] = [NewRequest EXCEPT !.pc = pc, !.op = "update"]]
InRun(r, pc) == notice[r].run.pc = pc

\* A postponement between its read of the campaign and its update.
Postponing(c) == {r \in Requests : request[r].op = "postpone" /\ At(r, "write")
                                   /\ request[r].campaign = c}

Init ==
    /\ mode \in {"inline", "queue"}
    /\ campaign \in [Campaigns -> [status : {"draft", "selling"}, date : {0}, log : {<<>>}]]
    /\ \A c, d \in Selling : c = d
    /\ paid = {}
    /\ told = [b \in Buyers |-> {}]
    /\ request = [r \in Requests |-> NewRequest]
    /\ notice = [r \in Requests |-> NoNotice]
    /\ overlapped = FALSE

-------------------------------------------------------------------------------
\* updateRaffle

ReadForUpdate(r) ==
    /\ At(r, "new")
    /\ \E c \in Campaigns, status \in Statuses \cup {None}, moves \in BOOLEAN :
          request' = [request EXCEPT ![r] =
              [@ EXCEPT !.op = "update", !.campaign = c, !.status = status, !.moves = moves,
                        !.pc = IF status = "selling" /\ c \notin Selling THEN "check" ELSE "write"]]
    /\ UNCHANGED <<mode, campaign, paid, told, notice, overlapped>>

\* assertSingleSellingRaffle, "Only one raffle can be selling at a time".
CheckSingleSelling(r) ==
    /\ At(r, "check")
    /\ IF Selling \ {request[r].campaign} = {} THEN Goto(r, "write") ELSE EndUpdate(r, "failed")
    /\ UNCHANGED <<mode, campaign, paid, told, notice, overlapped>>

\* Mutant of IndexAllows: the check of the service is all there is.
NoIndex(c, status) == TRUE

\* The partial unique index on { status: "selling" }.
IndexAllows(c, status) == status = "selling" => Selling \ {c} = {}

\* Mutant of Changed: what the request leaves out is written as well.
ChangedBlindly(c, q) ==
    [campaign[c] EXCEPT !.status = q.status, !.date = IF q.moves THEN @ + 1 ELSE @]

\* Only what the request gives is set.
Changed(c, q) ==
    [campaign[c] EXCEPT !.status = IF q.status = None THEN @ ELSE q.status,
                        !.date = IF q.moves THEN @ + 1 ELSE @]

WriteUpdate(r) ==
    LET q == request[r]  c == q.campaign IN
    /\ At(r, "write")
    /\ q.op = "update"
    /\ \/ /\ IndexAllows(c, q.status)
          /\ campaign' = [campaign EXCEPT ![c] = Changed(c, q)]
          /\ EndUpdate(r, "done")
       \/ /\ ~IndexAllows(c, q.status)
          /\ EndUpdate(r, "failed")
          /\ UNCHANGED campaign
    /\ UNCHANGED <<mode, paid, told, notice, overlapped>>

-------------------------------------------------------------------------------
\* postponeRaffle

\* The date that is about to be replaced is read here.
ReadForPostpone(r) ==
    /\ At(r, "new")
    /\ \E c \in Campaigns, notify \in BOOLEAN :
          /\ request' = [request EXCEPT ![r] =
                 [@ EXCEPT !.op = "postpone", !.pc = "write", !.campaign = c, !.notify = notify,
                           !.date = campaign[c].date]]
          /\ overlapped' = (overlapped \/ Postponing(c) # {})
    /\ UNCHANGED <<mode, campaign, paid, told, notice>>

\* Mutant of WritePostponement: the entry of the log ends where it starts.
WritePostponementUnmoved(r) ==
    LET c == request[r].campaign  old == campaign[c].date IN
    /\ At(r, "write")
    /\ request[r].op = "postpone"
    /\ campaign' = [campaign EXCEPT ![c] =
           [status |-> "postponed", date |-> old + 1, log |-> Append(@.log, <<old, request[r].date>>)]]
    /\ request' = [request EXCEPT ![r] =
           [@ EXCEPT !.pc = IF request[r].notify THEN "notify" ELSE "done",
                     !.date = old + 1, !.owed = BuyersOf(c)]]
    /\ UNCHANGED <<mode, paid, told, notice, overlapped>>

\* One update sets the date and the status and pushes the entry of the log, whatever the
\* status was.  owed is history: who has bought by now.
WritePostponement(r) ==
    LET c == request[r].campaign  next == campaign[c].date + 1 IN
    /\ At(r, "write")
    /\ request[r].op = "postpone"
    /\ campaign' = [campaign EXCEPT ![c] =
           [status |-> "postponed", date |-> next, log |-> Append(@.log, <<request[r].date, next>>)]]
    /\ request' = [request EXCEPT ![r] =
           [@ EXCEPT !.pc = IF request[r].notify THEN "notify" ELSE "done",
                     !.date = next, !.owed = BuyersOf(c)]]
    /\ UNCHANGED <<mode, paid, told, notice, overlapped>>

\* notifyPostponement, queue mode.
Enqueue(r) ==
    /\ At(r, "notify")
    /\ mode = "queue"
    /\ notice' = [notice EXCEPT ![r].run = NewJob]
    /\ Goto(r, "done")
    /\ UNCHANGED <<mode, campaign, paid, told, overlapped>>

\* Redis did not take the job, or did and the answer was lost.
EnqueueThrows(r) ==
    /\ "redis" \in Faults
    /\ At(r, "notify")
    /\ mode = "queue"
    /\ \/ UNCHANGED notice
       \/ notice' = [notice EXCEPT ![r].run = NewJob]
    /\ Goto(r, "failed")
    /\ UNCHANGED <<mode, campaign, paid, told, overlapped>>

\* notifyPostponement, inline mode: the loop runs in the request, once.
StartInline(r) ==
    /\ At(r, "notify")
    /\ mode = "inline"
    /\ notice' = [notice EXCEPT ![r].run = [NewJob EXCEPT !.left = 1]]
    /\ Goto(r, "telling")
    /\ UNCHANGED <<mode, campaign, paid, told, overlapped>>

\* Mutant of EndInline: the request answers without waiting for the loop.
EndInlineEarly(r) ==
    /\ At(r, "telling")
    /\ Goto(r, "done")
    /\ UNCHANGED <<mode, campaign, paid, told, notice, overlapped>>

\* The loop has returned or thrown.
EndInline(r) ==
    /\ At(r, "telling")
    /\ notice[r].run.pc \in {"done", "failed"}
    /\ Goto(r, notice[r].run.pc)
    /\ UNCHANGED <<mode, campaign, paid, told, notice, overlapped>>

-------------------------------------------------------------------------------
\* The loop over the buyers, in the API and in the worker

ReadCampaign(r) ==
    /\ InRun(r, "waiting")
    /\ notice' = [notice EXCEPT ![r].run.pc = "asking",
                                ![r].date = campaign[request[r].campaign].date]
    /\ UNCHANGED <<mode, campaign, paid, told, request, overlapped>>

\* Mutant of FindBuyers: an attempt after the first has nobody left to tell.
FindBuyersOnce(r) ==
    /\ InRun(r, "asking")
    /\ notice' = [notice EXCEPT ![r].run.pc = "telling",
                                ![r].todo = IF notice[r].run.left = Attempts
                                            THEN BuyersOf(request[r].campaign) ELSE {}]
    /\ UNCHANGED <<mode, campaign, paid, told, request, overlapped>>

\* The paid orders of the campaign, grouped by address.
FindBuyers(r) ==
    /\ InRun(r, "asking")
    /\ notice' = [notice EXCEPT ![r].run.pc = "telling",
                                ![r].todo = BuyersOf(request[r].campaign)]
    /\ UNCHANGED <<mode, campaign, paid, told, request, overlapped>>

Tell(r) ==
    /\ InRun(r, "telling")
    /\ \E b \in notice[r].todo :
          /\ told' = [told EXCEPT ![b] = @ \cup {notice[r].date}]
          /\ notice' = [notice EXCEPT ![r].todo = @ \ {b}]
    /\ UNCHANGED <<mode, campaign, paid, request, overlapped>>

\* The provider throws, before or after it took the mail: the rest is not told, and the next
\* attempt, if there is one, starts over.
TellThrows(r) ==
    /\ "provider" \in Faults
    /\ InRun(r, "telling")
    /\ \E b \in notice[r].todo : told' \in {told, [told EXCEPT ![b] = @ \cup {notice[r].date}]}
    /\ notice' = [notice EXCEPT ![r].run = Failed(@), ![r].todo = {}, ![r].date = 0]
    /\ UNCHANGED <<mode, campaign, paid, request, overlapped>>

FinishNotice(r) ==
    /\ InRun(r, "telling")
    /\ notice[r].todo = {}
    /\ notice' = [notice EXCEPT ![r].run.pc = "done", ![r].date = 0]
    /\ UNCHANGED <<mode, campaign, paid, told, request, overlapped>>

WorkerDies(r) ==
    /\ "worker" \in Faults
    /\ mode = "queue"
    /\ notice[r].run.pc \in {"asking", "telling"}
    /\ notice' = [notice EXCEPT ![r].run = Stalled(@), ![r].todo = {}, ![r].date = 0]
    /\ UNCHANGED <<mode, campaign, paid, told, request, overlapped>>

\* An order of the buyer becomes paid.
Pay(b) ==
    /\ paid' = paid \cup {b}
    /\ UNCHANGED <<mode, campaign, told, request, notice, overlapped>>

Update(r) == ReadForUpdate(r) \/ CheckSingleSelling(r) \/ WriteUpdate(r)
Postpone(r) ==
    ReadForPostpone(r) \/ WritePostponement(r) \/ Enqueue(r) \/ StartInline(r) \/ EndInline(r)
TellBuyers(r) == ReadCampaign(r) \/ FindBuyers(r) \/ Tell(r) \/ FinishNotice(r)
Fault(r) == EnqueueThrows(r) \/ TellThrows(r) \/ WorkerDies(r)

Next ==
    \/ \E r \in Requests : Update(r) \/ Postpone(r) \/ TellBuyers(r) \/ Fault(r)
    \/ \E b \in Buyers : Pay(b)

Spec == Init /\ [][Next]_vars

-------------------------------------------------------------------------------
CampaignRecords == [status : Statuses, date : Nat, log : Seq(Nat \X Nat)]
RequestRecords ==
    [pc : {"new", "check", "write", "notify", "telling", "done", "failed"},
     op : {None, "update", "postpone"}, campaign : Campaigns \cup {None},
     status : Statuses \cup {None}, moves : BOOLEAN, notify : BOOLEAN, date : Nat,
     owed : SUBSET Buyers]
RunRecords ==
    [pc : {"none", "waiting", "asking", "telling", "done", "failed"}, left : Nat,
     stalled : BOOLEAN]
NoticeRecords == [run : RunRecords, date : Nat, todo : SUBSET Buyers]

TypeOK ==
    /\ mode \in {"inline", "queue"}
    /\ campaign \in [Campaigns -> CampaignRecords]
    /\ paid \subseteq Buyers
    /\ told \in [Buyers -> SUBSET Nat]
    /\ request \in [Requests -> RequestRecords]
    /\ notice \in [Requests -> NoticeRecords]
    /\ overlapped \in BOOLEAN

\* Two administrators who both passed assertSingleSellingRaffle still leave one campaign selling.
OneSellingCampaign == \A c, d \in Selling : c = d

\* A notice that ended well has told everybody who had bought when the draw was postponed, and
\* no date older than the one it was sent for, however many attempts, stalls and later
\* postponements lie between the two.
NobodyMissesAPostponement ==
    \A r \in Requests : InRun(r, "done") =>
        \A b \in request[r].owed : \E date \in told[b] : date >= request[r].date

\* A postponement that answered, and was asked to tell the buyers, has told them or has left a
\* job behind that will try to: notifyPostponement comes after the update and may throw.
AnsweredMeansAnnounced ==
    \A r \in Requests :
        At(r, "done") /\ request[r].op = "postpone" /\ request[r].notify =>
            IF mode = "inline" THEN InRun(r, "done") ELSE ~InRun(r, "none")

\* While no two postponements overlap the log of a campaign is a chain: each entry starts no
\* earlier than the one before it ended, and ends later than it started.
LogIsAChain ==
    ~overlapped =>
        \A c \in Campaigns : \A i, j \in DOMAIN campaign[c].log :
            /\ campaign[c].log[i][1] < campaign[c].log[i][2]
            /\ i < j => campaign[c].log[i][2] <= campaign[c].log[j][1]

\* "Una sola rifa activa simultaneamente": a postponed campaign is on sale as much as a selling
\* one (getActiveRaffleForSales), but the check and the index look at selling ones only.
OneActiveCampaign ==
    \A c, d \in Campaigns :
        {campaign[c].status, campaign[d].status} \subseteq {"selling", "postponed"} => c = d
===============================================================================
