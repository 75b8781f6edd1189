--------------------------- MODULE ProverIdentity ---------------------------
(***************************************************************************)
(* What bootstrapping promises to the outside, with no files, no processes *)
(* and no crashes: a VM takes one instance address, once, and whatever it  *)
(* reports about itself is that address.                                   *)
(***************************************************************************)
CONSTANTS
  Addresses,   \* the instance addresses a key can have
  NoAddress    \* no address taken yet

VARIABLES
  identity,    \* the address the VM has taken, or NoAddress
  reportedAs   \* every address reported to an operator or to a client

idVars == <<identity, reportedAs>>

Init ==
  /\ identity = NoAddress
  /\ reportedAs = {}

\* The VM takes its address. It does so once.
Adopt ==
  /\ identity = NoAddress
  /\ identity' \in Addresses
  /\ UNCHANGED reportedAs

\* The address is reported: the record `reth-tdx bootstrap` prints, or the
\* answer to GET /bootstrap.
Report ==
  /\ identity # NoAddress
  /\ reportedAs' = reportedAs \cup {identity}
  /\ UNCHANGED identity

Next == Adopt \/ Report

Spec == Init /\ [][Next]_idVars
=============================================================================
