---------------------------- MODULE MCPowerLoss -----------------------------
(* PowerLoss on a small instance.                                            *)
EXTENDS PowerLoss, TLC

CONSTANTS p1, p2, k1, k2, k3

\* Processes are alike, and so are keys: sound for the safety properties.
Alike == Permutations(Procs) \cup Permutations(Keys)
=============================================================================
