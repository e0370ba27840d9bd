-------------------------- MODULE MCPrizeSettlement --------------------------
\* Small instances of PrizeSettlement for TLC.
EXTENDS PrizeSettlement, TLC

Symmetry == Permutations(Draws) \cup Permutations(Numbers)
===============================================================================
