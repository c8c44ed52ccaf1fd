------------------------------- MODULE MCLedger -------------------------------
EXTENDS Ledger, TLC

MCTimes == 1..2
MCPrices == 0..1
MCRules == {[op |-> "<=", limit |-> 0]}

\* Characters, items, names and servers are interchangeable.
Symmetry ==
    Permutations(CharIds) \cup Permutations(ItemIds) \cup Permutations(Names)
        \cup Permutations(Servers)
=============================================================================
