------------------------------ MODULE MCProver ------------------------------
(* Prover on a small instance: three proposals in a row, proved for          *)
(* different provers, and one for another chain.                             *)
EXTENDS Prover, TLC

CONSTANTS r1, r2, k1, k2, c1, a, b

Payload(chain, id, hash, parent, prover) ==
  [chainId |-> chain, verifier |-> "verifier", proposalId |-> id,
   proposalHash |-> hash, parentProposalHash |-> parent, actualProver |-> prover]

Genesis  == Payload("taiko", 0, "h0", "h", "carol")
First    == Payload("taiko", 1, "h1", "h0", "alice")
Second   == Payload("taiko", 2, "h2", "h1", "bob")
Foreign  == Payload("other", 1, "h1", "h0", "alice")

Early    == {Genesis, First}
Linked   == {First, Second}
Mixed    == {Genesis, First, Foreign}

\* Keys are alike, and so are labels: sound for the safety properties.
Alike == Permutations(Keys) \cup Permutations(Labels)
=============================================================================
