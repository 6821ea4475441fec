----------------------------- MODULE MCPayloads -----------------------------
\* Instance of Payloads for TLC.  Calls, holders and handles are each
\* interchangeable among themselves, and only invariants are checked.
EXTENDS Payloads, TLC

Symmetry == Permutations(Calls) \cup Permutations(Holders) \cup Permutations(Handles)
=============================================================================
