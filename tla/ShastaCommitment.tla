-------------------------- MODULE ShastaCommitment --------------------------
(***************************************************************************)
(* The Shasta primitives reth-tdx takes from raiko2, as its calls use      *)
(* them: what makes a list of carry data continuous, and the hash that is  *)
(* signed.  Hashes are injective, so a hash is the value it is taken of.   *)
(***************************************************************************)
EXTENDS Naturals, Sequences

\* Carry data d belongs right after c: the next proposal, on top of c's block.
Follows(c, d) ==
  /\ d.chainId = c.chainId
  /\ d.verifier = c.verifier
  /\ d.proposalId = c.proposalId + 1
  /\ d.parentProposalHash = c.proposalHash
  /\ d.parentBlockHash = c.blockHash

\* build_shasta_commitment_from_proof_carry_data_vec gives Some commitment.
HasCommitment(vec) ==
  /\ vec # <<>>
  /\ \A i \in 1..(Len(vec) - 1) : Follows(vec[i], vec[i + 1])

\* shasta_aggregation_output(commitment, chain_id, verifier, instance).
ShastaAggregationOutput(vec, chainId, verifier, instance) ==
  [commitment |-> vec, chainId |-> chainId, verifier |-> verifier,
   instance |-> instance]
=============================================================================
