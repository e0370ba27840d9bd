----------------------------- MODULE MCPrizeDraws -----------------------------
\* Small instances of PrizeDraws for TLC.
EXTENDS PrizeDraws, TLC

CONSTANTS t1, t2

TitleSlugs == [t \in {t1, t2} |-> IF t = t1 THEN "s1" ELSE "s2"]

\* Draws, pages and requests are told apart by nothing but their names.
Symmetry == Permutations(Draws) \cup Permutations(Visits) \cup Permutations(Requests)
===============================================================================
