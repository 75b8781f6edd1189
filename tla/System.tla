------------------------------- MODULE System -------------------------------
(***************************************************************************)
(* The whole VM: the processes of Bootstrap, the disk of PowerLoss, and    *)
(* the server of Prover in every process that serves.  The key file a      *)
(* request loads is the one bootstraps write, a request lives no longer    *)
(* than the process that accepted it, and a reset of the VM ends them all. *)
(***************************************************************************)
EXTENDS PowerLoss

CONSTANTS
  Requests, Payloads, ChainId, Verifier, ClientKeys, Labels, MaxHeight, MaxBatch, MaxResults,
  Malformed    \* as in Prover

ASSUME SystemConstants ==
  /\ \A p \in Payloads : p.proposalId \in Nat
  /\ None \notin Procs
  /\ ClientKeys \cap Keys = {}
  /\ MaxHeight \in Nat /\ MaxBatch \in Nat /\ MaxResults \in Nat

VARIABLES
  canon,       \* as in Prover
  reqPc, kind, subs, reqKey, header, carry,   \* the requests, as in Prover
  results,     \* as in Prover
  host         \* the process that serves a request, None if it is idle

serverVars == <<canon, reqPc, kind, subs, reqKey, header, carry, results>>
systemVars == <<powerVars, serverVars, host>>

Server == INSTANCE Prover WITH
  Unreadable <- Garbled,
  keyFile    <- IF privKey \in Keys THEN privKey ELSE Garbled,
  pc         <- reqPc,
  key        <- reqKey

SystemInit ==
  /\ PowerInit
  /\ Server!Init
  /\ host = [r \in Requests |-> None]

-----------------------------------------------------------------------------
\* The requests of processes that no longer serve.
Orphans == {r \in Requests : host[r] \in Procs /\ pc'[host[r]] # "serving"}

\* A process bootstraps, checks, answers GET /bootstrap or dies, with its requests.
Run ==
  /\ ProcessStep
  /\ Server!Disturb(Orphans)
  /\ host' = [r \in Requests |-> IF r \in Orphans THEN None ELSE host[r]]

\* A serving process accepts a request, or gets on with one of its own.
ServeRequest(p, r) ==
  /\ pc[p] = "serving"
  /\ host[r] \in {p, None}
  /\ UNCHANGED powerVars
  /\ Server!Serve(r)
  /\ host' = [host EXCEPT ![r] = IF reqPc'[r] = "idle" THEN None ELSE p]

\* The L2 node imports a block or reorgs.
ChainMoves ==
  /\ UNCHANGED <<powerVars, host>>
  /\ Server!Extend \/ Server!Unwind

CommitJournal == Commit /\ UNCHANGED <<serverVars, host>>

\* The VM is reset, and the requests of all its processes are gone.
Reset ==
  /\ PowerReset
  /\ Server!Disturb(Requests)
  /\ host' = [r \in Requests |-> None]

SystemNext ==
  \/ Run
  \/ \E p \in Procs, r \in Requests : ServeRequest(p, r)
  \/ ChainMoves
  \/ CommitJournal
  \/ Reset

SystemSpec == SystemInit /\ [][SystemNext]_systemVars

-----------------------------------------------------------------------------
\* Every result is, when it goes out, by the instance that GET /bootstrap reports and
\* its quote attests: the key a request loaded before it began to wait is still the
\* key of the record on disk, whatever other processes, crashes and resets did.
ResultsAreRegistered ==
  [][\A res \in results' \ results :
       /\ record \in Record
       /\ res.instance = record.publicKey
       /\ res.instance = record.quote]_systemVars

\* Until the VM is reset it is one prover: every result any process has handed out,
\* under any sequence of crashes, restarts and overlapping checks, is by the address
\* of the record on disk, and that record is the only one ever reported.
OneProverUntilReset ==
  resetsLeft = MaxResets =>
    /\ ReportedStands
    /\ \A res \in results : record \in Record /\ res.instance = record.publicKey

\* The VM has one address at a time, which it reports and issues proofs as, and which
\* nothing but a reset makes it lose.
Attested == INSTANCE AttestedProver WITH
  NoAddress  <- None,
  identity   <- IF record \in Record THEN record.publicKey ELSE None,
  reportedAs <- {r.publicKey : r \in reported},
  issued     <- Server!Issued,
  resets     <- MaxResets - resetsLeft

ImplementsAttestedProver == Attested!ProverSpec
=============================================================================
