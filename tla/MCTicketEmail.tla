----------------------------- MODULE MCTicketEmail -----------------------------
\* Small instances of TicketEmail for TLC: every call is an approval of the same order.
EXTENDS TicketEmail

CONSTANT o1

SameOrder == [c \in Calls |-> o1]
===============================================================================
