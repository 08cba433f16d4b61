----------------------------- MODULE MCSimCore -----------------------------
(* Instances of SimCore for TLC. *)
EXTENDS SimCore, TLC

\* The workers of a pool are interchangeable.
WorkerSymmetry == Permutations(Workers)
=============================================================================
