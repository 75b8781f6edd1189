------------------------- MODULE BootstrapLiveness --------------------------
(***************************************************************************)
(* Does a VM that crashes while it bootstraps always come up in the end?   *)
(*                                                                         *)
(* The deployment is a service unit that runs `reth-tdx serve` and starts  *)
(* it again whenever it exits, next to operators who may run `check` at    *)
(* any time.  Faults are the kills, I/O errors, daemon errors and socket   *)
(* timeouts of Bootstrap!Fault; MaxFaults bounds how many there are, so    *)
(* that "in the end" means once they are over.                             *)
(***************************************************************************)
EXTENDS Bootstrap, Naturals, Sequences

CONSTANTS
  Unit,        \* the process of the service unit
  MaxFaults    \* bound: the faults of one behaviour

ASSUME LivenessConstants ==
  Unit \in Procs /\ MaxFaults \in Nat /\ {"serve", "check"} \subseteq Commands

VARIABLE faultsLeft

allVars == <<vars, faultsLeft>>

LiveInit == Init /\ faultsLeft = MaxFaults

\* The unit serves; everybody else checks.
Restart == Start(Unit, "serve") /\ UNCHANGED faultsLeft

StartCheck(p) == p # Unit /\ Start(p, "check") /\ UNCHANGED faultsLeft

Advance(p) == Step(p) /\ UNCHANGED faultsLeft

Answer(p) == GetBootstrap(p) /\ UNCHANGED faultsLeft

Fail(p) ==
  /\ faultsLeft > 0
  /\ Fault(p)
  /\ faultsLeft' = faultsLeft - 1

LiveNext ==
  \/ Restart
  \/ \E p \in Procs : StartCheck(p) \/ Advance(p) \/ Answer(p) \/ Fail(p)

\* The unit restarts its process, and a process that runs gets on with its work:
\* its next system call returns, and the daemon answers its next request.
\* Nothing is assumed of the operators or of the clients.
LiveSpec ==
  /\ LiveInit
  /\ [][LiveNext]_allVars
  /\ WF_allVars(Restart)
  /\ WF_allVars(Advance(Unit))

-----------------------------------------------------------------------------
(***************************************************************************)
(* Properties                                                              *)
(***************************************************************************)
\* The way up: what runtime::serve and bootstrap() go through, not always all of it.
WayUp ==
  <<"down", "exists", "metadata", "createKey", "writeKey", "quote", "createTmp",
    "writeTmp", "rename", "load", "bind", "serving">>

\* From location l to location m it is upwards.
Higher(l, m) ==
  \E i, j \in 1..Len(WayUp) : i < j /\ WayUp[i] = l /\ WayUp[j] = m

\* No start fails for what an earlier crash left on disk or for what operators do:
\* every move of the unit takes it further up, unless one of the faults hits it.
\* A unit that is set back has used a fault up, so that happens MaxFaults times at most.
OnlyFaultsSetBack ==
  [][pc'[Unit] = pc[Unit] \/ Higher(pc[Unit], pc'[Unit]) \/ faultsLeft' < faultsLeft]_allVars

\* Whatever a crash left on disk, the unit ends up serving, with a complete record
\* of the key it signs with: no crash of bootstrap() bricks the VM.
Recovers ==
  <>[](pc[Unit] = "serving" /\ record \in Record /\ RecordHasItsKey)
=============================================================================
