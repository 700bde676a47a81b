-------------------------- MODULE MCPolicyRuntime --------------------------
EXTENDS PolicyRuntime

CONSTANTS e1, e2, e3, p1, p2

MCEvals == {e1, e2, e3}

MCPayees == {p1, p2}

\* A small and a large payment to one counterparty, together over its cap but
\* not over the daily ceiling, and a large one to another.
MCPayTo == [e \in MCEvals |-> IF e = e3 THEN p2 ELSE p1]

MCMicro == [e \in MCEvals |-> IF e = e1 THEN 1 ELSE 2]
=============================================================================
