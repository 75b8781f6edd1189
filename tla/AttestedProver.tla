--------------------------- MODULE AttestedProver ---------------------------
(***************************************************************************)
(* What a proving VM promises as a whole: it has one instance address at a *)
(* time, reports that address and no other, and issues proofs as that      *)
(* address and no other, as ProofService allows.  Only a reset of the VM   *)
(* makes it lose the address it has, and then it may take another.         *)
(***************************************************************************)
EXTENDS ProofService

CONSTANTS Addresses, NoAddress   \* as in ProverIdentity

VARIABLES
  identity, reportedAs,   \* as in ProverIdentity
  resets                  \* how often the VM has been reset

Taken == INSTANCE ProverIdentity

proverVars == <<identity, reportedAs, issued, resets>>

ProverInit == Taken!Init /\ NothingIssued /\ resets = 0

\* The VM takes its address, or reports it.
TakeOrReport == Taken!Next /\ UNCHANGED <<issued, resets>>

\* The VM issues a proof as the address it has.
IssueAsTaken ==
  /\ Issue
  /\ \A s \in issued' \ issued : identity # NoAddress /\ s.instance = identity
  /\ UNCHANGED <<identity, reportedAs, resets>>

\* The VM is reset, and keeps its address or loses it.
Reset ==
  /\ resets' = resets + 1
  /\ identity' \in {identity, NoAddress}
  /\ UNCHANGED <<reportedAs, issued>>

ProverNext == TakeOrReport \/ IssueAsTaken \/ Reset

ProverSpec == ProverInit /\ [][ProverNext]_proverVars
=============================================================================
