--------------------------- MODULE TicketEmailProofs ---------------------------
(***************************************************************************)
(* Proofs about TicketEmail for every set of orders and approvals, every   *)
(* number of attempts and every choice of faults.                          *)
(***************************************************************************)
EXTENDS TicketEmail, TLAPS

-------------------------------------------------------------------------------
\* Where a step takes its call and its job.

CallPlaces ==
    {"new", "pay", "send", "sending", "queued", "sent", "failed", "done", "closed", "dead"}

LEMMA GotoLemma ==
    ASSUME TypeOK, NEW c \in Calls, NEW pc \in CallPlaces, Goto(c, pc)
    PROVE  /\ call' \in [Calls -> CallPlaces]
           /\ call'[c] = pc
           /\ \A d \in Calls : d # c => call'[d] = call[d]
  BY DEF TypeOK, CallPlaces, Goto

\* A job moves on: its attempts are what they were.
LEMMA JobLemma ==
    ASSUME TypeOK, NEW c \in Calls,
           NEW pc \in {"waiting", "sending", "sent", "caught", "done", "failed"},
           job' = [job EXCEPT ![c].pc = pc]
    PROVE  /\ job' \in [Calls -> RunRecords]
           /\ job'[c].pc = pc
           /\ job'[c].left = job[c].left
           /\ \A d \in Calls : d # c => job'[d] = job[d]
  BY DEF TypeOK, RunRecords

LEMMA NewJobLemma ==
    /\ NoJob \in RunRecords /\ NoJob.pc = "none"
    /\ NewJob \in RunRecords /\ NewJob.pc = "waiting" /\ NewJob.left > 0
  BY JobsAssumption DEF NoJob, NewJob, RunRecords

\* A failed attempt: the job waits with one attempt less, or is out of them.
LEMMA FailedLemma ==
    ASSUME NEW j \in RunRecords, j.left > 0
    PROVE  /\ Failed(j) \in RunRecords
           /\ Failed(j).pc \in {"waiting", "failed"}
           /\ Failed(j).pc = "waiting" => Failed(j).left > 0
<1>1. j.left \in 1..Attempts /\ j.left - 1 \in 0..Attempts
  BY JobsAssumption DEF RunRecords
<1>2. CASE j.left > 1
  <2>1. Failed(j) = [j EXCEPT !.pc = "waiting", !.left = j.left - 1]
    BY <1>2 DEF Failed
  <2>2. j.left - 1 > 0
    BY <1>1, <1>2
  <2> QED
    BY <1>1, <2>1, <2>2 DEF RunRecords
<1>3. CASE ~(j.left > 1)
  <2>1. Failed(j) = [j EXCEPT !.pc = "failed", !.left = j.left - 1]
    BY <1>3 DEF Failed
  <2> QED
    BY <1>1, <2>1 DEF RunRecords
<1> QED
  BY <1>2, <1>3

LEMMA StalledLemma ==
    ASSUME NEW j \in RunRecords
    PROVE  /\ Stalled(j) \in RunRecords
           /\ Stalled(j).pc \in {"waiting", "failed"}
           /\ Stalled(j).left = j.left
  BY DEF Stalled, RunRecords

-------------------------------------------------------------------------------
\* Types

LEMMA InitTypeOK == Init => TypeOK
  BY NewJobLemma DEF Init, TypeOK

\* Each step keeps the state well typed.
LEMMA StepTypeOK == TypeOK /\ [Next]_vars => TypeOK'
<1> SUFFICES ASSUME TypeOK, [Next]_vars
             PROVE  TypeOK'
  OBVIOUS
<1> USE DEF OrderOn
<1>0. OrderOf \in [Calls -> Orders]
  BY TicketEmailAssumption
<1>1. CASE UNCHANGED vars
  BY <1>1 DEF vars, TypeOK
<1>2. ASSUME NEW c \in Calls, ReadOrder(c) PROVE TypeOK'
  BY <1>2, GotoLemma DEF ReadOrder, TypeOK, CallPlaces
<1>3. ASSUME NEW c \in Calls, MarkPaid(c) PROVE TypeOK'
  BY <1>0, <1>3, GotoLemma DEF MarkPaid, TypeOK, CallPlaces
<1>4. ASSUME NEW c \in Calls, Enqueue(c) PROVE TypeOK'
  BY <1>4, GotoLemma, NewJobLemma DEF Enqueue, TypeOK, CallPlaces
<1>5. ASSUME NEW c \in Calls, EnqueueThrows(c) PROVE TypeOK'
  BY <1>5, GotoLemma, NewJobLemma DEF EnqueueThrows, TypeOK, CallPlaces
<1>6. ASSUME NEW c \in Calls, ReadPaid(c) PROVE TypeOK'
  BY <1>6, GotoLemma DEF ReadPaid, TypeOK, CallPlaces
<1>7. ASSUME NEW c \in Calls, SendInline(c) PROVE TypeOK'
  BY <1>0, <1>7, GotoLemma DEF SendInline, TypeOK, CallPlaces
<1>8. ASSUME NEW c \in Calls, SendInlineThrows(c) PROVE TypeOK'
  BY <1>0, <1>8, GotoLemma DEF SendInlineThrows, TypeOK, CallPlaces
<1>9. ASSUME NEW c \in Calls, MarkEmail(c) PROVE TypeOK'
  BY <1>9, GotoLemma DEF MarkEmail, TypeOK, CallPlaces
<1>10. ASSUME NEW c \in Calls, MarkEmailThrows(c) PROVE TypeOK'
  BY <1>10, GotoLemma DEF MarkEmailThrows, TypeOK, CallPlaces
<1>11. ASSUME NEW c \in Calls, MarkEmailFailed(c) PROVE TypeOK'
  BY <1>11, GotoLemma DEF MarkEmailFailed, TypeOK, CallPlaces
<1>12. ASSUME NEW c \in Calls, CallDies(c) PROVE TypeOK'
  BY <1>12, GotoLemma DEF CallDies, TypeOK, CallPlaces
<1>13. ASSUME NEW c \in Calls, job[c].pc \notin {"none", "failed"},
               job' \in [Calls -> RunRecords],
               job'[c].pc \notin {"none", "failed"} => job'[c].left > 0,
               \A d \in Calls : d # c => job'[d] = job[d], mode' = mode
       PROVE  \A d \in Calls :
                /\ job'[d].pc \notin {"none", "failed"} => job'[d].left > 0
                /\ mode' = "inline" => job'[d] = NoJob
  <2>1. mode # "inline"
    BY <1>13, NewJobLemma DEF TypeOK
  <2> QED
    BY <1>13, <2>1 DEF TypeOK
<1>14. ASSUME NEW c \in Calls, TakeJob(c) PROVE TypeOK'
  <2>1. job[c].pc = "waiting" /\ job[c].left > 0
    BY <1>14 DEF TakeJob, TypeOK
  <2> QED
    BY <1>13, <1>14, <2>1, JobLemma DEF TakeJob, TypeOK
<1>15. ASSUME NEW c \in Calls, JobSend(c) PROVE TypeOK'
  <2>1. job[c].pc = "sending" /\ job[c].left > 0
    BY <1>15 DEF JobSend, TypeOK
  <2>2. delivered' \subseteq Orders
    BY <1>0, <1>15 DEF JobSend, TypeOK
  <2>3. /\ job' \in [Calls -> RunRecords]
        /\ job'[c].left > 0
        /\ \A d \in Calls : d # c => job'[d] = job[d]
    BY <1>15, <2>1, JobLemma DEF JobSend
  <2> QED
    BY <1>13, <1>15, <2>1, <2>2, <2>3 DEF JobSend, TypeOK
<1>16. ASSUME NEW c \in Calls, JobSendThrows(c) PROVE TypeOK'
  <2>1. job[c].pc = "sending" /\ job[c].left > 0
    BY <1>16 DEF JobSendThrows, TypeOK
  <2>2. delivered' \subseteq Orders
    BY <1>0, <1>16 DEF JobSendThrows, TypeOK
  <2>3. /\ job' \in [Calls -> RunRecords]
        /\ job'[c].left > 0
        /\ \A d \in Calls : d # c => job'[d] = job[d]
    BY <1>16, <2>1, JobLemma DEF JobSendThrows
  <2> QED
    BY <1>13, <1>16, <2>1, <2>2, <2>3 DEF JobSendThrows, TypeOK
<1>17. ASSUME NEW c \in Calls, JobMarkSent(c) PROVE TypeOK'
  <2>1. job[c].pc = "sent" /\ job[c].left > 0
    BY <1>17 DEF JobMarkSent, TypeOK
  <2> QED
    BY <1>0, <1>13, <1>17, <2>1, JobLemma DEF JobMarkSent, TypeOK
<1>18. ASSUME NEW c \in Calls, JobMarkSentThrows(c) PROVE TypeOK'
  <2>1. job[c].pc = "sent" /\ job[c].left > 0
    BY <1>18 DEF JobMarkSentThrows, TypeOK
  <2> QED
    BY <1>0, <1>13, <1>18, <2>1, JobLemma DEF JobMarkSentThrows, TypeOK
<1>19. ASSUME NEW c \in Calls, JobMarkFailed(c) PROVE TypeOK'
  <2>1. /\ job[c] \in RunRecords /\ job[c].pc = "caught" /\ job[c].left > 0
        /\ job' = [job EXCEPT ![c] = Failed(job[c])]
    BY <1>19 DEF JobMarkFailed, TypeOK
  <2>2. /\ job' \in [Calls -> RunRecords]
        /\ job'[c].pc = "waiting" => job'[c].left > 0
        /\ job'[c].pc \in {"waiting", "failed"}
        /\ \A d \in Calls : d # c => job'[d] = job[d]
    BY <2>1, FailedLemma DEF TypeOK
  <2> QED
    BY <1>13, <1>19, <2>1, <2>2 DEF JobMarkFailed, TypeOK
<1>20. ASSUME NEW c \in Calls, JobStalls(c) PROVE TypeOK'
  <2>1. /\ job[c] \in RunRecords /\ job[c].pc \notin {"none", "failed"} /\ job[c].left > 0
        /\ job' = [job EXCEPT ![c] = Stalled(job[c])]
    BY <1>20 DEF JobStalls, TypeOK
  <2>2. /\ job' \in [Calls -> RunRecords]
        /\ job'[c].left > 0
        /\ \A d \in Calls : d # c => job'[d] = job[d]
    BY <2>1, StalledLemma DEF TypeOK
  <2> QED
    BY <1>13, <1>20, <2>1, <2>2 DEF JobStalls, TypeOK
<1>21. ASSUME NEW o \in Orders, LateRefusal(o) PROVE TypeOK'
  BY <1>21 DEF LateRefusal, TypeOK
<1> QED
  BY <1>1, <1>2, <1>3, <1>4, <1>5, <1>6, <1>7, <1>8, <1>9, <1>10, <1>11, <1>12,
     <1>14, <1>15, <1>16, <1>17, <1>18, <1>19, <1>20, <1>21
  DEF Next, Approval, TicketJob

\* Orders, calls and jobs keep their shape, whatever fails and however often.
THEOREM TypeCorrect == Spec => []TypeOK
<1> QED
  BY InitTypeOK, StepTypeOK, PTL DEF Spec

-------------------------------------------------------------------------------
\* The status and the mail

\* Whoever is about to write `sent` has had the mail delivered.
Mailed ==
    /\ \A c \in Calls :
         call[c] = "sent" \/ job[c].pc = "sent" => OrderOn(c) \in delivered
    /\ SentMeansDelivered

\* An approval that has paid its order, and a job, are about an order that was paid; a call
\* that is about to write `queued` has added its job; and a job ends well only by writing
\* to the buyer or for an order that was refused.
Tracked ==
    \A c \in Calls :
        /\ call[c] \in {"send", "sending", "queued", "sent", "failed", "done"}
             => OrderOn(c) \in paid \cup refused
        /\ job[c].pc # "none" => OrderOn(c) \in paid \cup refused
        /\ call[c] = "queued" => job[c].pc # "none"
        /\ job[c].pc = "done" => OrderOn(c) \in delivered \cup refused

IInv == TypeOK /\ Mailed /\ Tracked /\ NoApprovalForgotten

\* What a step does to its call and its job, as the invariants need it.
LEMMA JobMarkFailedLemma ==
    ASSUME TypeOK, NEW c \in Calls, JobMarkFailed(c)
    PROVE  /\ job'[c].pc \in {"waiting", "failed"}
           /\ \A d \in Calls : d # c => job'[d] = job[d]
<1>1. job[c] \in RunRecords /\ job[c].left > 0
  BY DEF JobMarkFailed, TypeOK
<1> QED
  BY <1>1, FailedLemma DEF JobMarkFailed, TypeOK

LEMMA JobStallsLemma ==
    ASSUME TypeOK, NEW c \in Calls, JobStalls(c)
    PROVE  /\ job'[c].pc \in {"waiting", "failed"}
           /\ \A d \in Calls : d # c => job'[d] = job[d]
  BY StalledLemma DEF JobStalls, TypeOK

LEMMA InitIInv == Init => IInv
<1> SUFFICES ASSUME Init PROVE IInv
  OBVIOUS
<1>1. TypeOK
  BY InitTypeOK
<1>2. Mailed /\ Tracked /\ NoApprovalForgotten
  BY NewJobLemma DEF Init, Mailed, SentMeansDelivered, Tracked, NoApprovalForgotten, At
<1> QED
  BY <1>1, <1>2 DEF IInv

\* Each step keeps the mail ahead of the status.
LEMMA StepMailed == TypeOK /\ Mailed /\ [Next]_vars => Mailed'
<1> SUFFICES ASSUME TypeOK, Mailed, [Next]_vars
             PROVE  Mailed'
  OBVIOUS
<1> USE DEF OrderOn
<1>0. OrderOf \in [Calls -> Orders]
  BY TicketEmailAssumption
<1>1. CASE UNCHANGED vars
  BY <1>1 DEF vars, Mailed, SentMeansDelivered
<1>2. ASSUME NEW c \in Calls, ReadOrder(c) PROVE Mailed'
  BY <1>0, <1>2, GotoLemma DEF ReadOrder, At, CallPlaces, TypeOK, Mailed, SentMeansDelivered
<1>3. ASSUME NEW c \in Calls, MarkPaid(c) PROVE Mailed'
  BY <1>0, <1>3, GotoLemma DEF MarkPaid, At, CallPlaces, TypeOK, Mailed, SentMeansDelivered
<1>4. ASSUME NEW c \in Calls, Enqueue(c) PROVE Mailed'
  BY <1>0, <1>4, GotoLemma, NewJobLemma DEF Enqueue, At, CallPlaces, TypeOK, Mailed, SentMeansDelivered
<1>5. ASSUME NEW c \in Calls, EnqueueThrows(c) PROVE Mailed'
  BY <1>0, <1>5, GotoLemma, NewJobLemma DEF EnqueueThrows, At, CallPlaces, TypeOK, Mailed, SentMeansDelivered
<1>6. ASSUME NEW c \in Calls, ReadPaid(c) PROVE Mailed'
  BY <1>0, <1>6, GotoLemma DEF ReadPaid, At, CallPlaces, TypeOK, Mailed, SentMeansDelivered
<1>7. ASSUME NEW c \in Calls, SendInline(c) PROVE Mailed'
  BY <1>0, <1>7, GotoLemma DEF SendInline, At, CallPlaces, TypeOK, Mailed, SentMeansDelivered
<1>8. ASSUME NEW c \in Calls, SendInlineThrows(c) PROVE Mailed'
  BY <1>0, <1>8, GotoLemma DEF SendInlineThrows, At, CallPlaces, TypeOK, Mailed, SentMeansDelivered
<1>9. ASSUME NEW c \in Calls, MarkEmail(c) PROVE Mailed'
  BY <1>0, <1>9, GotoLemma DEF MarkEmail, At, CallPlaces, TypeOK, Mailed, SentMeansDelivered
<1>10. ASSUME NEW c \in Calls, MarkEmailThrows(c) PROVE Mailed'
  BY <1>0, <1>10, GotoLemma DEF MarkEmailThrows, At, CallPlaces, TypeOK, Mailed, SentMeansDelivered
<1>11. ASSUME NEW c \in Calls, MarkEmailFailed(c) PROVE Mailed'
  BY <1>0, <1>11, GotoLemma DEF MarkEmailFailed, At, CallPlaces, TypeOK, Mailed, SentMeansDelivered
<1>12. ASSUME NEW c \in Calls, CallDies(c) PROVE Mailed'
  BY <1>0, <1>12, GotoLemma DEF CallDies, At, CallPlaces, TypeOK, Mailed, SentMeansDelivered
<1>13. ASSUME NEW c \in Calls, TakeJob(c) PROVE Mailed'
  BY <1>0, <1>13, JobLemma DEF TakeJob, TypeOK, Mailed, SentMeansDelivered
<1>14. ASSUME NEW c \in Calls, JobSend(c) PROVE Mailed'
  BY <1>0, <1>14, JobLemma DEF JobSend, TypeOK, Mailed, SentMeansDelivered
<1>15. ASSUME NEW c \in Calls, JobSendThrows(c) PROVE Mailed'
  BY <1>0, <1>15, JobLemma DEF JobSendThrows, TypeOK, Mailed, SentMeansDelivered
<1>16. ASSUME NEW c \in Calls, JobMarkSent(c) PROVE Mailed'
  BY <1>0, <1>16, JobLemma DEF JobMarkSent, TypeOK, Mailed, SentMeansDelivered
<1>17. ASSUME NEW c \in Calls, JobMarkSentThrows(c) PROVE Mailed'
  BY <1>0, <1>17, JobLemma DEF JobMarkSentThrows, TypeOK, Mailed, SentMeansDelivered
<1>18. ASSUME NEW c \in Calls, JobMarkFailed(c) PROVE Mailed'
  BY <1>0, <1>18, JobMarkFailedLemma DEF JobMarkFailed, TypeOK, Mailed, SentMeansDelivered
<1>19. ASSUME NEW c \in Calls, JobStalls(c) PROVE Mailed'
  BY <1>0, <1>19, JobStallsLemma DEF JobStalls, TypeOK, Mailed, SentMeansDelivered
<1>20. ASSUME NEW o \in Orders, LateRefusal(o) PROVE Mailed'
  BY <1>20 DEF LateRefusal, Mailed, SentMeansDelivered
<1> QED
  BY <1>1, <1>2, <1>3, <1>4, <1>5, <1>6, <1>7, <1>8, <1>9, <1>10, <1>11, <1>12,
     <1>13, <1>14, <1>15, <1>16, <1>17, <1>18, <1>19, <1>20
  DEF Next, Approval, TicketJob

\* Each step keeps track of what was paid and queued.
LEMMA StepTracked == TypeOK /\ Mailed /\ Tracked /\ [Next]_vars => Tracked'
<1> SUFFICES ASSUME TypeOK, Mailed, Tracked, [Next]_vars
             PROVE  Tracked'
  OBVIOUS
<1> USE DEF OrderOn
<1>0. OrderOf \in [Calls -> Orders]
  BY TicketEmailAssumption
<1>1. CASE UNCHANGED vars
  BY <1>1 DEF vars, Mailed, Tracked
<1>2. ASSUME NEW c \in Calls, ReadOrder(c) PROVE Tracked'
  BY <1>0, <1>2, GotoLemma DEF ReadOrder, At, CallPlaces, TypeOK, Mailed, Tracked
<1>3. ASSUME NEW c \in Calls, MarkPaid(c) PROVE Tracked'
  BY <1>0, <1>3, GotoLemma DEF MarkPaid, At, CallPlaces, TypeOK, Mailed, Tracked
<1>4. ASSUME NEW c \in Calls, Enqueue(c) PROVE Tracked'
  BY <1>0, <1>4, GotoLemma, NewJobLemma DEF Enqueue, At, CallPlaces, TypeOK, Mailed, Tracked
<1>5. ASSUME NEW c \in Calls, EnqueueThrows(c) PROVE Tracked'
  BY <1>0, <1>5, GotoLemma, NewJobLemma DEF EnqueueThrows, At, CallPlaces, TypeOK, Mailed, Tracked
<1>6. ASSUME NEW c \in Calls, ReadPaid(c) PROVE Tracked'
  BY <1>0, <1>6, GotoLemma DEF ReadPaid, At, CallPlaces, TypeOK, Mailed, Tracked
<1>7. ASSUME NEW c \in Calls, SendInline(c) PROVE Tracked'
  BY <1>0, <1>7, GotoLemma DEF SendInline, At, CallPlaces, TypeOK, Mailed, Tracked
<1>8. ASSUME NEW c \in Calls, SendInlineThrows(c) PROVE Tracked'
  BY <1>0, <1>8, GotoLemma DEF SendInlineThrows, At, CallPlaces, TypeOK, Mailed, Tracked
<1>9. ASSUME NEW c \in Calls, MarkEmail(c) PROVE Tracked'
  BY <1>0, <1>9, GotoLemma DEF MarkEmail, At, CallPlaces, TypeOK, Mailed, Tracked
<1>10. ASSUME NEW c \in Calls, MarkEmailThrows(c) PROVE Tracked'
  BY <1>0, <1>10, GotoLemma DEF MarkEmailThrows, At, CallPlaces, TypeOK, Mailed, Tracked
<1>11. ASSUME NEW c \in Calls, MarkEmailFailed(c) PROVE Tracked'
  BY <1>0, <1>11, GotoLemma DEF MarkEmailFailed, At, CallPlaces, TypeOK, Mailed, Tracked
<1>12. ASSUME NEW c \in Calls, CallDies(c) PROVE Tracked'
  BY <1>0, <1>12, GotoLemma DEF CallDies, At, CallPlaces, TypeOK, Mailed, Tracked
<1>13. ASSUME NEW c \in Calls, TakeJob(c) PROVE Tracked'
  BY <1>0, <1>13, JobLemma DEF TakeJob, TypeOK, Mailed, Tracked
<1>14. ASSUME NEW c \in Calls, JobSend(c) PROVE Tracked'
  BY <1>0, <1>14, JobLemma DEF JobSend, TypeOK, Mailed, Tracked
<1>15. ASSUME NEW c \in Calls, JobSendThrows(c) PROVE Tracked'
  BY <1>0, <1>15, JobLemma DEF JobSendThrows, TypeOK, Mailed, Tracked
<1>16. ASSUME NEW c \in Calls, JobMarkSent(c) PROVE Tracked'
  BY <1>0, <1>16, JobLemma DEF JobMarkSent, TypeOK, Mailed, Tracked
<1>17. ASSUME NEW c \in Calls, JobMarkSentThrows(c) PROVE Tracked'
  BY <1>0, <1>17, JobLemma DEF JobMarkSentThrows, TypeOK, Mailed, Tracked
<1>18. ASSUME NEW c \in Calls, JobMarkFailed(c) PROVE Tracked'
  BY <1>0, <1>18, JobMarkFailedLemma, ZenonT(60) DEF JobMarkFailed, TypeOK, Mailed, Tracked
<1>19. ASSUME NEW c \in Calls, JobStalls(c) PROVE Tracked'
  BY <1>0, <1>19, JobStallsLemma, ZenonT(60) DEF JobStalls, TypeOK, Mailed, Tracked
<1>20. ASSUME NEW o \in Orders, LateRefusal(o) PROVE Tracked'
  BY <1>20 DEF LateRefusal, Mailed, Tracked
<1> QED
  BY <1>1, <1>2, <1>3, <1>4, <1>5, <1>6, <1>7, <1>8, <1>9, <1>10, <1>11, <1>12,
     <1>13, <1>14, <1>15, <1>16, <1>17, <1>18, <1>19, <1>20
  DEF Next, Approval, TicketJob

\* The disjunction of NoApprovalForgotten, for one order.
Accounted(o) ==
    \/ o \in delivered \cup refused
    \/ emailStatus[o] = "failed"
    \/ \E c \in Calls : OrderOn(c) = o /\ job[c].pc \notin {"none", "done"}

Answered == \A c \in Calls : At(c, "done") => Accounted(OrderOn(c))

LEMMA AccountedLemma ==
    /\ NoApprovalForgotten <=> Answered
    /\ NoApprovalForgotten' <=> Answered'
<1>1. \A c \in Calls : OrderOf[c] \in Orders
  BY TicketEmailAssumption
<1> QED
  BY <1>1 DEF NoApprovalForgotten, Accounted, Answered, At, OrderOn

\* An order that is accounted for stays so while its status is not overwritten and none of its
\* jobs ends well.
LEMMA StaysAccounted ==
    ASSUME NEW o \in Orders, Accounted(o),
           delivered \subseteq delivered', refused \subseteq refused',
           emailStatus[o] = "failed" => emailStatus'[o] = "failed",
           \A d \in Calls :
             job[d].pc \notin {"none", "done"} => job'[d].pc \notin {"none", "done"}
    PROVE  Accounted(o)'
  BY DEF Accounted, OrderOn

\* Each step accounts for every approval that has been answered.
LEMMA StepNoApprovalForgotten == IInv /\ [Next]_vars => NoApprovalForgotten'
<1> SUFFICES ASSUME IInv, [Next]_vars
             PROVE  NoApprovalForgotten'
  OBVIOUS
<1>0. /\ \A c \in Calls : OrderOf[c] \in Orders
      /\ TypeOK /\ Mailed /\ Tracked /\ Answered
  BY TicketEmailAssumption, AccountedLemma DEF IInv
<1> SUFFICES Answered'
  BY AccountedLemma
<1>1. CASE UNCHANGED vars
  BY <1>0, <1>1 DEF vars, Answered, Accounted, At, OrderOn
<1>2. ASSUME NEW c \in Calls, ReadOrder(c) PROVE Answered'
  BY <1>0, <1>2, GotoLemma DEF ReadOrder, At, CallPlaces, Answered, Accounted, OrderOn
<1>3. ASSUME NEW c \in Calls, MarkPaid(c) PROVE Answered'
  BY <1>0, <1>3, GotoLemma DEF MarkPaid, At, CallPlaces, Answered, Accounted, OrderOn
<1>4. ASSUME NEW c \in Calls, Enqueue(c) PROVE Answered'
  BY <1>0, <1>4, GotoLemma, NewJobLemma DEF Enqueue, At, CallPlaces, Answered, Accounted, OrderOn
<1>5. ASSUME NEW c \in Calls, EnqueueThrows(c) PROVE Answered'
  <2>1. \A d \in Calls :
          job[d].pc \notin {"none", "done"} => job'[d].pc \notin {"none", "done"}
    BY <1>0, <1>5, NewJobLemma DEF EnqueueThrows, TypeOK
  <2>2. \A o \in Orders : emailStatus[o] = "failed" => emailStatus'[o] = "failed"
    BY <1>0, <1>5 DEF EnqueueThrows, TypeOK, OrderOn
  <2>3. \A o \in Orders : Accounted(o) => Accounted(o)'
    BY <1>5, <2>1, <2>2, StaysAccounted DEF EnqueueThrows
  <2> QED
    BY <1>0, <1>5, <2>3, GotoLemma DEF EnqueueThrows, At, CallPlaces, Answered, OrderOn
<1>6. ASSUME NEW c \in Calls, ReadPaid(c) PROVE Answered'
  BY <1>0, <1>6, GotoLemma DEF ReadPaid, At, CallPlaces, Answered, Accounted, OrderOn
<1>7. ASSUME NEW c \in Calls, SendInline(c) PROVE Answered'
  BY <1>0, <1>7, GotoLemma DEF SendInline, At, CallPlaces, Answered, Accounted, OrderOn
<1>8. ASSUME NEW c \in Calls, SendInlineThrows(c) PROVE Answered'
  BY <1>0, <1>8, GotoLemma DEF SendInlineThrows, At, CallPlaces, Answered, Accounted, OrderOn
<1>9. ASSUME NEW c \in Calls, MarkEmail(c) PROVE Answered'
  <2>1. Accounted(OrderOn(c))'
    BY <1>0, <1>9 DEF MarkEmail, Mailed, Tracked, Accounted, OrderOn
  <2> QED
    BY <1>0, <1>9, <2>1, GotoLemma
    DEF MarkEmail, At, CallPlaces, Answered, Accounted, OrderOn
<1>10. ASSUME NEW c \in Calls, MarkEmailThrows(c) PROVE Answered'
  BY <1>0, <1>10, GotoLemma DEF MarkEmailThrows, At, CallPlaces, Answered, Accounted, OrderOn
<1>11. ASSUME NEW c \in Calls, MarkEmailFailed(c) PROVE Answered'
  <2>1. Accounted(OrderOn(c))'
    BY <1>0, <1>11 DEF MarkEmailFailed, TypeOK, Accounted, OrderOn
  <2>2. \A o \in Orders : Accounted(o) => Accounted(o)'
    BY <1>0, <1>11 DEF MarkEmailFailed, TypeOK, Accounted, OrderOn
  <2> QED
    BY <1>0, <1>11, <2>1, <2>2, GotoLemma
    DEF MarkEmailFailed, At, CallPlaces, Answered, OrderOn
<1>12. ASSUME NEW c \in Calls, CallDies(c) PROVE Answered'
  BY <1>0, <1>12, GotoLemma DEF CallDies, At, CallPlaces, Answered, Accounted, OrderOn
<1>13. ASSUME NEW c \in Calls, TakeJob(c) PROVE Answered'
  <2>1. OrderOn(c) \in paid \/ OrderOn(c) \in refused
    BY <1>0, <1>13 DEF TakeJob, Tracked
  <2> QED
    BY <1>0, <1>13, <2>1, JobLemma
    DEF TakeJob, At, Answered, Accounted, OrderOn
<1>14. ASSUME NEW c \in Calls, JobSend(c) PROVE Answered'
  BY <1>0, <1>14, JobLemma DEF JobSend, At, Answered, Accounted, OrderOn
<1>15. ASSUME NEW c \in Calls, JobSendThrows(c) PROVE Answered'
  BY <1>0, <1>15, JobLemma DEF JobSendThrows, At, Answered, Accounted, OrderOn
<1>16. ASSUME NEW c \in Calls, JobMarkSent(c) PROVE Answered'
  <2>1. OrderOn(c) \in delivered
    BY <1>0, <1>16 DEF JobMarkSent, Mailed
  <2> QED
    BY <1>0, <1>16, <2>1, JobLemma
    DEF JobMarkSent, At, Answered, Accounted, OrderOn
<1>17. ASSUME NEW c \in Calls, JobMarkSentThrows(c) PROVE Answered'
  BY <1>0, <1>17, JobLemma DEF JobMarkSentThrows, At, Answered, Accounted, OrderOn
<1>18. ASSUME NEW c \in Calls, JobMarkFailed(c) PROVE Answered'
  <2>1. \A d \in Calls :
          job[d].pc \notin {"none", "done"} => job'[d].pc \notin {"none", "done"}
    BY <1>0, <1>18, JobMarkFailedLemma
  <2>2. \A o \in Orders : emailStatus[o] = "failed" => emailStatus'[o] = "failed"
    BY <1>0, <1>18 DEF JobMarkFailed, TypeOK, OrderOn
  <2>3. \A o \in Orders : Accounted(o) => Accounted(o)'
    BY <1>18, <2>1, <2>2, StaysAccounted DEF JobMarkFailed
  <2> QED
    BY <1>0, <1>18, <2>3 DEF JobMarkFailed, At, Answered, OrderOn
<1>19. ASSUME NEW c \in Calls, JobStalls(c) PROVE Answered'
  <2>1. \A d \in Calls :
          job[d].pc \notin {"none", "done"} => job'[d].pc \notin {"none", "done"}
    BY <1>0, <1>19, JobStallsLemma
  <2>2. \A o \in Orders : emailStatus[o] = "failed" => emailStatus'[o] = "failed"
    BY <1>0, <1>19 DEF JobStalls, TypeOK, OrderOn
  <2>3. \A o \in Orders : Accounted(o) => Accounted(o)'
    BY <1>19, <2>1, <2>2, StaysAccounted DEF JobStalls
  <2> QED
    BY <1>0, <1>19, <2>3 DEF JobStalls, At, Answered, OrderOn
<1>20. ASSUME NEW o \in Orders, LateRefusal(o) PROVE Answered'
  BY <1>0, <1>20 DEF LateRefusal, At, Answered, Accounted, OrderOn
<1> QED
  BY <1>1, <1>2, <1>3, <1>4, <1>5, <1>6, <1>7, <1>8, <1>9, <1>10, <1>11, <1>12,
     <1>13, <1>14, <1>15, <1>16, <1>17, <1>18, <1>19, <1>20
  DEF Next, Approval, TicketJob

LEMMA StepIInv == IInv /\ [Next]_vars => IInv'
  BY StepTypeOK, StepMailed, StepTracked, StepNoApprovalForgotten DEF IInv

THEOREM Invariance == Spec => []IInv
<1> QED
  BY InitIInv, StepIInv, PTL DEF Spec

\* An order that says `sent` has had its email delivered, for any number of approvals, jobs,
\* attempts and overwriting updates.
THEOREM SentIsTrue == Spec => []SentMeansDelivered
<1>1. IInv => SentMeansDelivered
  BY DEF IInv, Mailed
<1> QED
  BY <1>1, Invariance, PTL

\* No answered approval leaves its buyer without the email, a failed status or a job.
THEOREM NobodyIsForgotten == Spec => []NoApprovalForgotten
<1>1. IInv => NoApprovalForgotten
  BY DEF IInv
<1> QED
  BY <1>1, Invariance, PTL
===============================================================================
