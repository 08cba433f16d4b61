----------------------------- MODULE MCAbsQueue -----------------------------
(* Instances of AbsQueue for TLC. *)
EXTENDS AbsQueue, TLC

\* Every schedule of the producers is explored, and which consumer or producer
\* is which does not matter to the safety properties.
ThreadSymmetry == Permutations(Producers) \union Permutations(Consumers)
=============================================================================
