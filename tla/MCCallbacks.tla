---------------------------- MODULE MCCallbacks ----------------------------
(* A small instance of Callbacks: a callback that calls libgit2 again, next *)
(* to another goroutine that may take over the thread.                      *)
EXTENDS Callbacks, TLC

Symmetry == Permutations(Goroutines) \cup Permutations(Threads)
=============================================================================
