------------------------------ MODULE MCSystem ------------------------------
(* System on a small instance: one proposal, proved and aggregated alone.    *)
EXTENDS System, TLC

CONSTANTS p1, p2, k1, k2, k3

First ==
  [chainId |-> "taiko", verifier |-> "verifier", proposalId |-> 1,
   proposalHash |-> "h1", parentProposalHash |-> "h0", actualProver |-> "alice"]

Proposals == {First}

\* Processes are alike, and so are keys: sound for the safety properties.
Alike == Permutations(Procs) \cup Permutations(Keys)
=============================================================================
