--------------------------- MODULE MCPolicyFetch ---------------------------
EXTENDS PolicyFetch

CONSTANTS r1, r2, r3

MCRounds == {r1, r2, r3}

MCMicro == [r \in MCRounds |-> IF r = r3 THEN 2 ELSE 1]
=============================================================================
