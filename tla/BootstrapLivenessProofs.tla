----------------------- MODULE BootstrapLivenessProofs ------------------------
(***************************************************************************)
(* BootstrapLiveness, for any number of processes, keys and faults.        *)
(*                                                                         *)
(* The argument.  Only the unit's process is ever inside bootstrap(), so   *)
(* this deployment is one of those that BootstrapProofs is about: SoleSpec *)
(* assumes what LiveSpec guarantees.  By the invariant proved there, the   *)
(* unit finds a temporary file to rename and a complete record to load,    *)
(* and these two are the only places where a start can fail by itself.     *)
(***************************************************************************)
EXTENDS BootstrapLiveness, BootstrapProofs

\* Everybody but the unit is down or checks.
OthersCheck ==
  /\ pc \in [Procs -> Locations]
  /\ \A p \in Procs \ {Unit} : pc[p] \in {"down"} \cup Checking

\* The unit serves or is on its way to.
UnitServes ==
  /\ cmd \in [Procs -> Commands \cup {None}]
  /\ pc[Unit] # "down" => cmd[Unit] = "serve" /\ pc[Unit] \notin Checking

LiveInv == OthersCheck /\ UnitServes /\ faultsLeft \in Nat

\* Only starting sets a process's subcommand.
LEMMA StepsKeepCmd ==
  ASSUME NEW p \in Procs, Step(p) \/ Fault(p) \/ GetBootstrap(p)
  PROVE  cmd' = cmd
BY DEF Step, TestExists, FetchMetadata, CreateKeyFile, WriteKeyFile, ReceiveQuote, CreateTmp,
       WriteTmp, Rename, RenameFails, Load, LoadFails, Bind, PingAttestation, ProbeL2,
       CheckExists, CheckReadRecord, CheckReadKey, Fault, Abort, RejectIssuer, GetBootstrap

\* A process that checks goes on checking until it is down.
LEMMA CheckStays ==
  ASSUME OthersCheck, UnitServes, NEW p \in Procs \ {Unit},
         Start(p, "check") \/ Step(p) \/ Fault(p)
  PROVE  OthersCheck' /\ UnitServes'
<1> USE LivenessConstants, StepsKeepCmd
    DEF OthersCheck, UnitServes, Locations, Provisioning, Bootstrapping, Checking, Goto
<1>1. CASE Start(p, "check") \/ Fault(p)
  BY <1>1 DEF Start, Fault, Abort, RejectIssuer
<1>2. CASE Step(p)
  BY <1>2
     DEF Step, TestExists, FetchMetadata, CreateKeyFile, WriteKeyFile, ReceiveQuote,
         CreateTmp, WriteTmp, Rename, RenameFails, Load, LoadFails, Bind, PingAttestation,
         ProbeL2, CheckExists, CheckReadRecord, CheckReadKey, Conclude
<1>q. QED
  BY <1>1, <1>2

\* What the unit does is no step of the others, and it never checks.
LEMMA UnitAlone ==
  ASSUME OthersCheck, UnitServes, Start(Unit, "serve") \/ Step(Unit) \/ Fault(Unit)
  PROVE  OthersCheck' /\ UnitServes'
<1>1. Unit \in Procs /\ "serve" \in Commands
  BY LivenessConstants
<1> USE StepsKeepCmd
    DEF OthersCheck, UnitServes, Locations, Provisioning, Bootstrapping, Checking, Goto
<1>2. CASE Start(Unit, "serve") \/ Fault(Unit)
  BY <1>1, <1>2 DEF Start, Fault, Abort, RejectIssuer
<1>3. CASE Step(Unit)
  BY <1>1, <1>3
     DEF Step, TestExists, FetchMetadata, CreateKeyFile, WriteKeyFile, ReceiveQuote,
         CreateTmp, WriteTmp, Rename, RenameFails, Load, LoadFails, Bind, PingAttestation,
         ProbeL2, CheckExists, CheckReadRecord, CheckReadKey, Conclude
<1>q. QED
  BY <1>2, <1>3

LEMMA LiveNextInv ==
  ASSUME LiveInv, [LiveNext]_allVars
  PROVE  LiveInv'
<1>1. CASE UNCHANGED allVars
  BY <1>1 DEF allVars, vars, LiveInv, OthersCheck, UnitServes
<1>2. CASE Restart
  BY <1>2, UnitAlone DEF Restart, LiveInv
<1>3. ASSUME NEW p \in Procs, StartCheck(p) PROVE LiveInv'
  BY <1>3, CheckStays DEF StartCheck, LiveInv
<1>4. ASSUME NEW p \in Procs, Advance(p) PROVE LiveInv'
  BY <1>4, CheckStays, UnitAlone DEF Advance, LiveInv
<1>5. ASSUME NEW p \in Procs, Answer(p) PROVE LiveInv'
  BY <1>5 DEF Answer, GetBootstrap, LiveInv, OthersCheck, UnitServes
<1>6. ASSUME NEW p \in Procs, Fail(p) PROVE LiveInv'
  BY <1>6, CheckStays, UnitAlone DEF Fail, LiveInv
<1>q. QED
  BY <1>1, <1>2, <1>3, <1>4, <1>5, <1>6 DEF LiveNext

LEMMA LiveInvariance == LiveSpec => []LiveInv
<1>1. LiveInit => LiveInv
  BY LivenessConstants DEF LiveInit, Init, LiveInv, OthersCheck, UnitServes, Locations
<1>q. QED
  BY <1>1, LiveNextInv, PTL DEF LiveSpec

LEMMA LiveStepIsSole ==
  ASSUME LiveInv, LiveInv', [LiveNext]_allVars
  PROVE  [SoleNext]_vars
<1>1. Sole'
  BY DEF LiveInv, OthersCheck, Sole, Bootstrapping, Provisioning, Checking
<1>2. LiveNext => Next
  BY LivenessConstants
     DEF LiveNext, Restart, StartCheck, Advance, Answer, Fail, Next
<1>q. QED
  BY <1>1, <1>2 DEF allVars, SoleNext

\* A VM with one service unit and any number of `check`s meets what SoleSpec asks of
\* a deployment, so all that is proved of SoleSpec holds of it.
THEOREM LiveIsSole == LiveSpec => SoleSpec
<1>1. LiveInit => Init
  BY DEF LiveInit
<1>q. QED
  BY <1>1, LiveInvariance, LiveStepIsSole, PTL DEF LiveSpec, SoleSpec

-----------------------------------------------------------------------------
\* Where one finds oneself on the way up.
LEMMA Upwards ==
  /\ Higher("down", "exists") /\ Higher("exists", "load") /\ Higher("exists", "metadata")
  /\ Higher("metadata", "createKey") /\ Higher("createKey", "writeKey")
  /\ Higher("writeKey", "quote") /\ Higher("quote", "createTmp")
  /\ Higher("createTmp", "writeTmp") /\ Higher("writeTmp", "rename")
  /\ Higher("rename", "load") /\ Higher("load", "bind") /\ Higher("bind", "serving")
BY DEF Higher, WayUp

\* Without a fault the unit only moves upwards: its temporary file is there when it
\* renames it, and the record is complete when it loads it.
LEMMA UnitStepsUp ==
  ASSUME Inv, LiveInv, Step(Unit), pc'[Unit] # pc[Unit]
  PROVE  Higher(pc[Unit], pc'[Unit])
<1>1. Unit \in Procs /\ pc \in [Procs -> Locations] /\ pc[Unit] \in Locations
  BY LivenessConstants DEF LiveInv, OthersCheck
<1>2. CASE RenameFails(Unit) \/ LoadFails(Unit)
  BY <1>1, <1>2, RecordOfType, BootstrapConstants
     DEF RenameFails, LoadFails, Inv, SafeInv, TmpInHand, KeyOnDisk, IssuerKnown,
         Provisioning, ReadersFindIt
<1>3. CASE PingAttestation(Unit) \/ ProbeL2(Unit) \/ CheckExists(Unit)
           \/ CheckReadRecord(Unit) \/ CheckReadKey(Unit)
  BY <1>3 DEF PingAttestation, ProbeL2, CheckExists, CheckReadRecord, CheckReadKey,
              LiveInv, UnitServes, Checking
<1>4. CASE Load(Unit)
  BY <1>1, <1>4, Upwards DEF Load, Goto, LiveInv, UnitServes
<1>5. CASE TestExists(Unit)
  BY <1>1, <1>5, Upwards DEF TestExists, Goto
<1>6. CASE FetchMetadata(Unit) \/ CreateKeyFile(Unit) \/ WriteKeyFile(Unit)
           \/ ReceiveQuote(Unit) \/ CreateTmp(Unit) \/ WriteTmp(Unit) \/ Rename(Unit)
           \/ Bind(Unit)
  BY <1>1, <1>6, Upwards
     DEF FetchMetadata, CreateKeyFile, WriteKeyFile, ReceiveQuote, CreateTmp, WriteTmp,
         Rename, Bind, Goto
<1>q. QED
  BY <1>2, <1>3, <1>4, <1>5, <1>6 DEF Step

\* Others do not move the unit.
LEMMA OthersKeepOut ==
  ASSUME LiveInv, NEW p \in Procs \ {Unit}, Start(p, "check") \/ Step(p)
  PROVE  pc'[Unit] = pc[Unit]
BY LivenessConstants
   DEF LiveInv, OthersCheck, Start, Step, Goto, TestExists, FetchMetadata, CreateKeyFile,
       WriteKeyFile, ReceiveQuote, CreateTmp, WriteTmp, Rename, RenameFails, Load, LoadFails,
       Bind, PingAttestation, ProbeL2, CheckExists, CheckReadRecord, CheckReadKey, Conclude

LEMMA LiveStepSetsNotBack ==
  ASSUME Inv, LiveInv, LiveNext
  PROVE  pc'[Unit] = pc[Unit] \/ Higher(pc[Unit], pc'[Unit]) \/ faultsLeft' < faultsLeft
<1>1. Unit \in Procs /\ pc \in [Procs -> Locations]
  BY LivenessConstants DEF LiveInv, OthersCheck
<1>2. CASE Restart
  BY <1>1, <1>2, Upwards DEF Restart, Start, Goto
<1>3. ASSUME NEW p \in Procs, Fail(p) PROVE faultsLeft' < faultsLeft
  BY <1>3 DEF Fail, LiveInv
<1>4. ASSUME NEW p \in Procs, Answer(p) PROVE pc'[Unit] = pc[Unit]
  BY <1>4 DEF Answer, GetBootstrap
<1>5. ASSUME NEW p \in Procs, StartCheck(p) PROVE pc'[Unit] = pc[Unit]
  BY <1>5, OthersKeepOut DEF StartCheck
<1>6. ASSUME NEW p \in Procs, Advance(p)
      PROVE  pc'[Unit] = pc[Unit] \/ Higher(pc[Unit], pc'[Unit])
  BY <1>6, OthersKeepOut, UnitStepsUp DEF Advance
<1>q. QED
  BY <1>2, <1>3, <1>4, <1>5, <1>6 DEF LiveNext

\* A start of the unit fails only by a fault that hits it, never by what is on disk.
THEOREM LiveOnlyFaultsSetBack == LiveSpec => OnlyFaultsSetBack
<1>1. Inv /\ LiveInv /\ [LiveNext]_allVars
        => [\/ pc'[Unit] = pc[Unit]
            \/ Higher(pc[Unit], pc'[Unit])
            \/ faultsLeft' < faultsLeft]_allVars
  BY LiveStepSetsNotBack
<1>q. QED
  BY <1>1, LiveIsSole, Invariance, LiveInvariance, PTL DEF LiveSpec, OnlyFaultsSetBack

\* All that Recovers asks for beyond a unit that ends up serving is safety: whenever it
\* serves there is a complete record, of the key it signs with.  That it ends up
\* serving is left to fairness.
THEOREM LiveServingIsRecovered ==
  LiveSpec => (<>[](pc[Unit] = "serving") => Recovers)
<1>1. Inv /\ pc[Unit] = "serving" => record \in Record /\ RecordHasItsKey
  BY LivenessConstants DEF Inv, SafeInv, ReadersHoldIt
<1>q. QED
  BY <1>1, LiveIsSole, Invariance, PTL DEF Recovers
=============================================================================
