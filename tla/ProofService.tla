---------------------------- MODULE ProofService ----------------------------
(***************************************************************************)
(* What the proving server promises, with no requests, no L2 node and no   *)
(* key file: a proof for one proposal may be issued at any time, and a     *)
(* proof for several only over a continuous run of proposals that the same *)
(* instance has already issued proofs for, one by one.                     *)
(***************************************************************************)
EXTENDS ShastaCommitment

VARIABLE issued    \* the statements signed and handed out: [instance, vec]

NothingIssued == issued = {}

\* Every element of s.vec has a proof of its own by the same instance.
Covered(s) ==
  \A i \in 1..Len(s.vec) : [instance |-> s.instance, vec |-> <<s.vec[i]>>] \in issued

Issue ==
  \E s \in issued' :
    /\ issued' = issued \cup {s}
    /\ HasCommitment(s.vec)
    /\ Len(s.vec) = 1 \/ Covered(s)

Spec == NothingIssued /\ [][Issue]_issued
=============================================================================
