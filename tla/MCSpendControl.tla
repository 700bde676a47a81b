--------------------------- MODULE MCSpendControl ---------------------------
EXTENDS SpendControl, TLC

\* Two merchants under one agent; a cap two small payments fit in, one that
\* only the large payment fits in, and a call without a cap.
MCRequests ==
  {[keys |-> <<"agent", "m1">>, micro |-> 1, max |-> 2],
   [keys |-> <<"agent", "m2">>, micro |-> 2, max |-> 3],
   [keys |-> <<"agent", "m1">>, micro |-> 2, max |-> Uncapped]}

MCKeys == {"agent", "m1", "m2"}

CallSymmetry == Permutations(Calls)
=============================================================================
