--------------------------- MODULE MCClientThreads ---------------------------
(* Model-checking instances of ClientThreads. *)
EXTENDS ClientThreads, TLC

\* The threads are interchangeable.
ThreadSymmetry == Permutations(Threads)
=============================================================================
