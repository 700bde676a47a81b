---------------------------- MODULE MCBuyerFetch ----------------------------
EXTENDS BuyerFetch

CONSTANTS c1, c2, c3

MCCalls == {c1, c2, c3}

\* Under the cap of the configuration the two small payments fit together,
\* a small and the large one do not.
MCMicro == [c \in MCCalls |-> IF c = c3 THEN 2 ELSE 1]
=============================================================================
