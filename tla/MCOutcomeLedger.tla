--------------------------- MODULE MCOutcomeLedger ---------------------------
EXTENDS OutcomeLedger, TLC

MCTimes == {0, 1}

\* One approval that has lapsed at clock reading 1 and one that has not, under
\* different caps.
MCApprovals == {[expiresAt |-> 1, cap |-> 2], [expiresAt |-> 2, cap |-> 1]}

MCAmounts == {1, 2}

IdSymmetry == Permutations(Intents) \cup Permutations(Decisions)
=============================================================================
