------------------------------ MODULE TicketEmail ------------------------------
(***************************************************************************)
(* The ticket email of a paid order, in the two modes of                   *)
(* NOTIFICATIONS_MODE: the API sends it itself ("inline"), or adds a job   *)
(* to the BullMQ queue `notifications` and the worker sends it ("queue").  *)
(*                                                                         *)
(*   call[c]  an approval in the API, from the moment it reads the order:  *)
(*            the tail of handleApprovedStatus, one external call per step *)
(*   job[c]   the queue job that call adds, and the worker's run of it     *)
(*                                                                         *)
(* What can go wrong outside the code is chosen by Faults: Redis refuses a *)
(* job or its answer is lost, the provider throws (before or after it took *)
(* the message), an update of the order throws, the API or the worker is   *)
(* killed.  The queue is external: a job that fails is tried again until   *)
(* its attempts are used, and one whose worker is killed is handed out     *)
(* once more.  A raffle is never deleted, so `raffle not found` is not     *)
(* reached; the text and the choice of a provider are left out.            *)
(***************************************************************************)
EXTENDS Jobs

CONSTANTS
    Orders,
    Calls,      \* approvals the API can be serving
    OrderOf,    \* the order each of them is about
    Faults      \* what may fail: "redis", "provider", "database", "api", "worker"

ASSUME TicketEmailAssumption ==
    /\ OrderOf \in [Calls -> Orders]
    /\ Faults \subseteq {"redis", "provider", "database", "api", "worker"}

VARIABLES
    mode,         \* NOTIFICATIONS_MODE, fixed when the processes start
    paid,         \* orders whose status is paid
    refused,      \* history: orders that a late refusal has taken out of paid
    emailStatus,  \* emailDeliveryStatus of each order
    delivered,    \* history: orders whose ticket email the provider has taken
    call, job

vars == <<mode, paid, refused, emailStatus, delivered, call, job>>

OrderOn(c) == OrderOf[c]
At(c, pc) == call[c] = pc
Goto(c, pc) == call' = [call EXCEPT ![c] = pc]

Init ==
    /\ mode \in {"inline", "queue"}
    /\ paid = {}
    /\ refused = {}
    /\ emailStatus = [o \in Orders |-> "none"]
    /\ delivered = {}
    /\ call = [c \in Calls |-> "new"]
    /\ job = [c \in Calls |-> NoJob]

-------------------------------------------------------------------------------
\* handleApprovedStatus, as far as notifications see it

\* The order is read.  A paid one is a duplicate and a failed one cannot be paid any more:
\* nothing is sent.
ReadOrder(c) ==
    /\ At(c, "new")
    /\ Goto(c, IF OrderOn(c) \in paid \cup refused THEN "closed" ELSE "pay")
    /\ UNCHANGED <<mode, paid, refused, emailStatus, delivered, job>>

\* markPaid, which throws when it loads an order that has failed since.
MarkPaid(c) ==
    /\ At(c, "pay")
    /\ \/ /\ paid' = paid \cup {OrderOn(c)}
          /\ Goto(c, "send")
       \/ /\ OrderOn(c) \in refused \ paid
          /\ Goto(c, "closed")
          /\ UNCHANGED paid
    /\ UNCHANGED <<mode, refused, emailStatus, delivered, job>>

\* markFailed saves over an order that was paid since it was read (see Purchase).
LateRefusal(o) ==
    /\ o \in paid
    /\ paid' = paid \ {o}
    /\ refused' = refused \cup {o}
    /\ UNCHANGED <<mode, emailStatus, delivered, call, job>>

\* Mutant of Enqueue: the mode is not looked at.
EnqueueAlways(c) ==
    /\ At(c, "send")
    /\ job' = [job EXCEPT ![c] = NewJob]
    /\ Goto(c, "queued")
    /\ UNCHANGED <<mode, paid, refused, emailStatus, delivered>>

\* sendTicketEmail, queue mode.
Enqueue(c) ==
    /\ At(c, "send")
    /\ mode = "queue"
    /\ job' = [job EXCEPT ![c] = NewJob]
    /\ Goto(c, "queued")
    /\ UNCHANGED <<mode, paid, refused, emailStatus, delivered>>

\* Redis did not take the job, or did and the answer was lost.
EnqueueThrows(c) ==
    /\ "redis" \in Faults
    /\ At(c, "send")
    /\ mode = "queue"
    /\ \/ UNCHANGED job
       \/ job' = [job EXCEPT ![c] = NewJob]
    /\ Goto(c, "failed")
    /\ UNCHANGED <<mode, paid, refused, emailStatus, delivered>>

\* sendTicketEmail, inline mode: the order must be paid, or it throws.
ReadPaid(c) ==
    /\ At(c, "send")
    /\ mode = "inline"
    /\ Goto(c, IF OrderOn(c) \in paid THEN "sending" ELSE "failed")
    /\ UNCHANGED <<mode, paid, refused, emailStatus, delivered, job>>

SendInline(c) ==
    /\ At(c, "sending")
    /\ delivered' = delivered \cup {OrderOn(c)}
    /\ Goto(c, "sent")
    /\ UNCHANGED <<mode, paid, refused, emailStatus, job>>

SendInlineThrows(c) ==
    /\ "provider" \in Faults
    /\ At(c, "sending")
    /\ delivered' \in {delivered, delivered \cup {OrderOn(c)}}
    /\ Goto(c, "failed")
    /\ UNCHANGED <<mode, paid, refused, emailStatus, job>>

\* markEmailQueued, markEmailSent: an update that knows nothing of the job's own.
MarkEmail(c) ==
    /\ call[c] \in {"queued", "sent"}
    /\ emailStatus' = [emailStatus EXCEPT ![OrderOn(c)] = call[c]]
    /\ Goto(c, "done")
    /\ UNCHANGED <<mode, paid, refused, delivered, job>>

\* It throws inside the same try, whose catch calls markEmailFailed.
MarkEmailThrows(c) ==
    /\ "database" \in Faults
    /\ call[c] \in {"queued", "sent"}
    /\ Goto(c, "failed")
    /\ UNCHANGED <<mode, paid, refused, emailStatus, delivered, job>>

MarkEmailFailed(c) ==
    /\ At(c, "failed")
    /\ emailStatus' = [emailStatus EXCEPT ![OrderOn(c)] = "failed"]
    /\ Goto(c, "done")
    /\ UNCHANGED <<mode, paid, refused, delivered, job>>

\* The request ends where it is: the API is killed, or markEmailFailed throws too.
CallDies(c) ==
    /\ \/ "api" \in Faults /\ call[c] \notin {"new", "done", "closed", "dead"}
       \/ "database" \in Faults /\ At(c, "failed")
    /\ Goto(c, "dead")
    /\ UNCHANGED <<mode, paid, refused, emailStatus, delivered, job>>

Approval(c) ==
    \/ ReadOrder(c) \/ MarkPaid(c) \/ Enqueue(c) \/ EnqueueThrows(c) \/ ReadPaid(c)
    \/ SendInline(c) \/ SendInlineThrows(c)
    \/ MarkEmail(c) \/ MarkEmailThrows(c) \/ MarkEmailFailed(c)

-------------------------------------------------------------------------------
\* NotificationsProcessor.handleSendTicketEmail

\* An order that is not paid any more is passed over.
TakeJob(c) ==
    /\ job[c].pc = "waiting"
    /\ job' = [job EXCEPT ![c].pc = IF OrderOn(c) \in paid THEN "sending" ELSE "done"]
    /\ UNCHANGED <<mode, paid, refused, emailStatus, delivered, call>>

\* Mutant of JobSend: the order is marked sent and the provider is not called.
JobMarkOnly(c) ==
    /\ job[c].pc = "sending"
    /\ job' = [job EXCEPT ![c].pc = "sent"]
    /\ UNCHANGED <<mode, paid, refused, emailStatus, delivered, call>>

JobSend(c) ==
    /\ job[c].pc = "sending"
    /\ delivered' = delivered \cup {OrderOn(c)}
    /\ job' = [job EXCEPT ![c].pc = "sent"]
    /\ UNCHANGED <<mode, paid, refused, emailStatus, call>>

JobSendThrows(c) ==
    /\ "provider" \in Faults
    /\ job[c].pc = "sending"
    /\ delivered' \in {delivered, delivered \cup {OrderOn(c)}}
    /\ job' = [job EXCEPT ![c].pc = "caught"]
    /\ UNCHANGED <<mode, paid, refused, emailStatus, call>>

JobMarkSent(c) ==
    /\ job[c].pc = "sent"
    /\ emailStatus' = [emailStatus EXCEPT ![OrderOn(c)] = "sent"]
    /\ job' = [job EXCEPT ![c].pc = "done"]
    /\ UNCHANGED <<mode, paid, refused, delivered, call>>

\* The update is in the same try: when it throws, a mail that went out counts as failed.
JobMarkSentThrows(c) ==
    /\ "database" \in Faults
    /\ job[c].pc = "sent"
    /\ job' = [job EXCEPT ![c].pc = "caught"]
    /\ UNCHANGED <<mode, paid, refused, emailStatus, delivered, call>>

\* Mutant of JobMarkFailed: the error is not thrown again.
JobSwallow(c) ==
    /\ job[c].pc = "caught"
    /\ emailStatus' = [emailStatus EXCEPT ![OrderOn(c)] = "failed"]
    /\ job' = [job EXCEPT ![c].pc = "done"]
    /\ UNCHANGED <<mode, paid, refused, delivered, call>>

\* The order is marked failed, unless that throws too, and the job fails either way.
JobMarkFailed(c) ==
    /\ job[c].pc = "caught"
    /\ \/ emailStatus' = [emailStatus EXCEPT ![OrderOn(c)] = "failed"]
       \/ "database" \in Faults /\ UNCHANGED emailStatus
    /\ job' = [job EXCEPT ![c] = Failed(@)]
    /\ UNCHANGED <<mode, paid, refused, delivered, call>>

JobStalls(c) ==
    /\ "worker" \in Faults
    /\ job[c].pc \in {"sending", "sent", "caught"}
    /\ job' = [job EXCEPT ![c] = Stalled(@)]
    /\ UNCHANGED <<mode, paid, refused, emailStatus, delivered, call>>

TicketJob(c) ==
    \/ TakeJob(c) \/ JobSend(c) \/ JobSendThrows(c) \/ JobMarkSent(c)
    \/ JobMarkSentThrows(c) \/ JobMarkFailed(c)

-------------------------------------------------------------------------------
Next ==
    \/ \E c \in Calls : Approval(c) \/ CallDies(c) \/ TicketJob(c) \/ JobStalls(c)
    \/ \E o \in Orders : LateRefusal(o)

Spec == Init /\ [][Next]_vars

\* A worker process is kept running, and works off every job there is.
Fairness == \A c \in Calls : WF_vars(TicketJob(c))

FairSpec == Spec /\ Fairness

-------------------------------------------------------------------------------
\* Properties

RunRecords ==
    [pc : {"none", "waiting", "sending", "sent", "caught", "done", "failed"},
     left : 0..Attempts, stalled : BOOLEAN]

\* Every record has the shape the code gives it, a run that can be taken has an attempt
\* left, and only the queue mode has jobs.
TypeOK ==
    /\ mode \in {"inline", "queue"}
    /\ paid \subseteq Orders
    /\ refused \subseteq Orders
    /\ emailStatus \in [Orders -> {"none", "queued", "sent", "failed"}]
    /\ delivered \subseteq Orders
    /\ call \in [Calls -> {"new", "pay", "send", "sending", "queued", "sent", "failed",
                           "done", "closed", "dead"}]
    /\ job \in [Calls -> RunRecords]
    /\ \A c \in Calls :
         /\ job[c].pc \notin {"none", "failed"} => job[c].left > 0
         /\ mode = "inline" => job[c] = NoJob

\* An order that says its email was sent has had one delivered, whatever fails, is tried
\* again or overwrites whose status.
SentMeansDelivered == \A o \in Orders : emailStatus[o] = "sent" => o \in delivered

\* When an approval has been answered, its buyer has the email, or the order says failed,
\* or a job is still there for a worker or an operator to find: however many approvals of
\* the order there were and whatever failed, short of the API's death.
NoApprovalForgotten ==
    \A o \in Orders :
        LET calls == {c \in Calls : OrderOn(c) = o} IN
        (\E c \in calls : At(c, "done")) =>
            \/ o \in delivered \cup refused
            \/ emailStatus[o] = "failed"
            \/ \E c \in calls : job[c].pc \notin {"none", "done"}

\* A worker that keeps running brings every job to an end: the mail is delivered, the job is
\* out of attempts, or there is nobody to write to any more.
JobsSettle ==
    \A c \in Calls :
        job[c].pc = "waiting" ~>
            OrderOn(c) \in delivered \cup refused \/ job[c].pc = "failed"

\* The status an order is left with, when nothing is in flight for it, shows a delivered
\* email as sent.
DeliveredIsShown ==
    \A o \in Orders :
        /\ o \in delivered
        /\ \A c \in Calls : OrderOn(c) = o =>
             call[c] \in {"new", "done", "closed"} /\ job[c].pc \in {"none", "done"}
        => emailStatus[o] = "sent"
===============================================================================
