--------------------------------- MODULE Jobs ---------------------------------
(***************************************************************************)
(* A job of the BullMQ queue `notifications`, as the API adds it and the   *)
(* worker runs it.  BullMQ is external: what is here is what the options   *)
(* of queue.add ask of it and what the processors rely on.                 *)
(***************************************************************************)
EXTENDS Integers

CONSTANT Attempts   \* attempts of a job (5)

ASSUME JobsAssumption == Attempts \in Nat \ {0}

NoJob == [pc |-> "none", left |-> 0, stalled |-> FALSE]
NewJob == [pc |-> "waiting", left |-> Attempts, stalled |-> FALSE]

\* Mutant of Failed: the attempts are not counted.
FailedAgain(j) == [j EXCEPT !.pc = "waiting"]

\* A job that throws waits for its next attempt, or is kept as failed after the last.
Failed(j) ==
    [j EXCEPT !.pc = IF j.left > 1 THEN "waiting" ELSE "failed", !.left = j.left - 1]

\* A job whose worker is gone is handed out again, once.
Stalled(j) == [j EXCEPT !.pc = IF j.stalled THEN "failed" ELSE "waiting", !.stalled = TRUE]
===============================================================================
