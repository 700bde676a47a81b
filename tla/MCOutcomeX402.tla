---------------------------- MODULE MCOutcomeX402 ----------------------------
EXTENDS OutcomeX402, TLC

\* Two quotes for the same task: one operation, two intent hashes.
MCOpOf == [i \in Intents |-> "op"]

\* The quotes differ in their terms; the intent stands for them.
MCTermsOf == [i \in Intents |-> i]
=============================================================================
