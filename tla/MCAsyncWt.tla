------------------------------ MODULE MCAsyncWt ------------------------------
(* Model-checking instances of AsyncWt. *)
EXTENDS AsyncWt, TLC

\* The tasks are interchangeable; used in runs without liveness properties.
TaskSymmetry == Permutations(Tasks)
=============================================================================
