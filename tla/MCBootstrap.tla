---------------------------- MODULE MCBootstrap -----------------------------
(* Bootstrap on a small instance: each cfg chooses the specification, that   *)
(* is, which processes overlap and which failures occur.                     *)
EXTENDS Bootstrap, TLC

CONSTANTS p1, p2, p3, k1, k2, k3, k4, k5, k6

\* Processes are alike, and so are keys: sound for the safety properties.
Alike == Permutations(Procs) \cup Permutations(Keys)
=============================================================================
