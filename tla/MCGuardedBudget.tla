-------------------------- MODULE MCGuardedBudget --------------------------
EXTENDS GuardedBudget

CONSTANTS c1, c2, c3, c4

MCCalls == {c1, c2, c3, c4}

MCMicro == [c \in MCCalls |-> IF c \in {c3, c4} THEN 2 ELSE 1]
=============================================================================
