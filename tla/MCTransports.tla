---------------------------- MODULE MCTransports ----------------------------
\* Instance of Transports for TLC.  Goroutines, remotes and handles are
\* interchangeable; protocols are not, one of them is managed.
EXTENDS Transports, TLC

Symmetry == Permutations(Goroutines) \cup Permutations(Remotes)
              \cup Permutations(Handles)
=============================================================================
