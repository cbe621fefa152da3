----------------------------- MODULE MCAsyncQuic -----------------------------
(* Model-checking instances of AsyncQuic. *)
EXTENDS AsyncQuic, TLC

\* The tasks are interchangeable; used in runs without liveness properties.
TaskSymmetry == Permutations(Tasks)
=============================================================================
