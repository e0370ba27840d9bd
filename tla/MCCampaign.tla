------------------------------ MODULE MCCampaign ------------------------------
\* Small instances of Campaign for TLC: every buyer buys in the first campaign.
EXTENDS Campaign, TLC

CONSTANT c1

FirstCampaign == [b \in Buyers |-> c1]

\* Buyers of one campaign and requests are told apart by nothing but their names.
Symmetry == Permutations(Buyers) \cup Permutations(Requests)
===============================================================================
