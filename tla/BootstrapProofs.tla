-------------------------- MODULE BootstrapProofs ---------------------------
(***************************************************************************)
(* Bootstrap with one process inside bootstrap() at a time, for any number *)
(* of processes, keys and issuers.                                         *)
(*                                                                         *)
(* The argument.  Only a process past bootstrap_exists writes to the disk, *)
(* and it got past because there was no complete record; being the only    *)
(* one, it still finds none.  Until it renames its record into place it is *)
(* alone with priv.key and the temporary file, so the record it publishes  *)
(* is whole and is the record of the key on disk.  From then on nobody     *)
(* gets past bootstrap_exists, and both files stay as they are.            *)
(***************************************************************************)
EXTENDS Bootstrap, TLAPS

\* No record is complete while somebody makes one.
NoRecordYet == \A p \in Procs : pc[p] \in Provisioning => record = Absent

\* Whoever provisions has drawn a key, and once written the key stays on disk.
KeyOnDisk ==
  \A p \in Procs :
    /\ pc[p] \in {"writeKey", "quote", "createTmp", "writeTmp", "rename"} =>
         key[p] \in Keys
    /\ pc[p] \in {"quote", "createTmp", "writeTmp", "rename"} => privKey = key[p]

\* Past the metadata request the issuer is a supported one.
IssuerKnown ==
  \A p \in Procs :
    pc[p] \in Provisioning \ {"metadata"} => issuer[p] \in Supported

\* The temporary file belongs to the process that created it.
TmpInHand ==
  \A p \in Procs :
    /\ pc[p] = "writeTmp" => fd[p] = "tmp" /\ tmp = Empty
    /\ pc[p] = "rename" => tmp = RecordOf(p)
    /\ pc[p] # "writeTmp" => fd[p] = "closed"

\* The key file comes first.
KeyComesFirst == tmp # Absent \/ record # Absent => privKey # Absent

\* Whoever serves has a record to serve, and `check` still holds the record on disk
\* when it goes on to read the key.
ReadersHoldIt ==
  \A p \in Procs :
    /\ pc[p] \in {"bind", "serving"} => record \in Record
    /\ pc[p] = "checkKey" => record \in Record /\ view[p] = record

\* A process that is about to read the record finds one.
ReadersFindIt ==
  \A p \in Procs : pc[p] \in {"load", "checkRecord"} => record \in Record

\* The part of the invariant that a reset of the VM leaves.
SafeInv ==
  /\ TypeOK
  /\ Sole
  /\ NoRecordYet
  /\ KeyOnDisk
  /\ IssuerKnown
  /\ TmpInHand
  /\ KeyComesFirst
  /\ ReadersHoldIt
  /\ NeverMismatched
  /\ ResetsAreNotTampering

\* The inductive invariant of a VM that is not reset.
Inv ==
  /\ SafeInv
  /\ ReadersFindIt
  /\ RecordIsWhole
  /\ RecordHasItsKey
  /\ ReportedStands
  /\ CheckIsSilent

\* What a process does, from starting to dying.
Act(p) ==
  (\E c \in Commands : Start(p, c)) \/ Step(p) \/ GetBootstrap(p) \/ Fault(p)

-----------------------------------------------------------------------------
\* A process past the metadata request would publish a proper record.
LEMMA RecordOfType ==
  ASSUME NEW p \in Procs, issuer[p] \in Supported, key[p] \in Keys
  PROVE  RecordOf(p) \in Record
BY DEF RecordOf, Record, Addresses

\* The invariant holds of an empty disk.
LEMMA InitInv == Init => Inv
BY BootstrapConstants
   DEF Init, Inv, SafeInv, TypeOK, Locations, Provisioning, Bootstrapping, Checking,
       Verdicts, Sole, NoRecordYet, KeyOnDisk, IssuerKnown, TmpInHand, KeyComesFirst,
       ReadersHoldIt, NeverMismatched, ResetsAreNotTampering, ReadersFindIt,
       RecordIsWhole, RecordHasItsKey, ReportedStands, CheckIsSilent

LEMMA SafeStep ==
  ASSUME SafeInv, NEW p \in Procs, Sole', Act(p)
  PROVE  SafeInv'
<1> USE BootstrapConstants
    DEF SafeInv, TypeOK, Locations, Provisioning, Bootstrapping, Checking, Verdicts,
        Sole, NoRecordYet, KeyOnDisk, IssuerKnown, TmpInHand, KeyComesFirst,
        ReadersHoldIt, NeverMismatched, ResetsAreNotTampering, disk, locals, Goto, Forget
<1>0. CASE \E c \in Commands : Start(p, c)
  BY <1>0 DEF Start, RecordOf
<1>1. CASE TestExists(p)
  BY <1>1 DEF TestExists, BootstrapExists
<1>2. CASE FetchMetadata(p)
  BY <1>2 DEF FetchMetadata
<1>3. CASE CreateKeyFile(p)
  BY <1>3 DEF CreateKeyFile
<1>4. CASE WriteKeyFile(p)
  BY <1>4 DEF WriteKeyFile
<1>5. CASE ReceiveQuote(p)
  BY <1>5 DEF ReceiveQuote
<1>6. CASE CreateTmp(p)
  BY <1>6 DEF CreateTmp
<1>7. CASE WriteTmp(p)
  <2>1. /\ RecordOf(p) \in Record
        /\ tmp' = RecordOf(p)
        /\ UNCHANGED <<privKey, record, cmd, issuer, key, view, verdict, reported>>
        /\ pc' = [pc EXCEPT ![p] = "rename"]
        /\ fd' = [fd EXCEPT ![p] = "closed"]
    BY <1>7, RecordOfType DEF WriteTmp, Overlay
  <2>2. TypeOK'
    BY <2>1
  <2>3. TmpInHand'
    BY <1>7, <2>1 DEF WriteTmp, RecordOf
  <2>q. QED
    BY <1>7, <2>1, <2>2, <2>3 DEF WriteTmp
<1>8. CASE Rename(p)
  <2>1. TypeOK'
    BY <1>8 DEF Rename
  <2>2. NoRecordYet' /\ KeyOnDisk' /\ IssuerKnown'
    BY <1>8 DEF Rename
  <2>3. TmpInHand'
    BY <1>8 DEF Rename
  <2>4. KeyComesFirst'
    BY <1>8 DEF Rename
  <2>5. ReadersHoldIt' /\ ResetsAreNotTampering'
    BY <1>8 DEF Rename
  <2>6. NeverMismatched'
    BY <1>8, RecordOfType DEF Rename, RecordOf
  <2>q. QED  BY <2>1, <2>2, <2>3, <2>4, <2>5, <2>6
<1>9. CASE RenameFails(p)
  BY <1>9 DEF RenameFails
<1>10. CASE Load(p)
  BY <1>10 DEF Load
<1>11. CASE LoadFails(p)
  BY <1>11 DEF LoadFails
<1>12. CASE Bind(p) \/ PingAttestation(p) \/ ProbeL2(p)
  BY <1>12 DEF Bind, PingAttestation, ProbeL2, RecordOf
<1>13. CASE CheckExists(p)
  BY <1>13 DEF CheckExists, Conclude, BootstrapExists, RecordOf
<1>14. CASE CheckReadRecord(p)
  <2>1. UNCHANGED <<privKey, tmp, record, cmd, reported>>
    BY <1>14 DEF CheckReadRecord
  <2>2. \/ /\ record \in Record /\ view' = [view EXCEPT ![p] = record]
           /\ pc' = [pc EXCEPT ![p] = "checkKey"]
           /\ UNCHANGED <<issuer, key, fd, verdict>>
        \/ /\ Conclude(p, "unreadable")
    BY <1>14 DEF CheckReadRecord
  <2>3. CASE Conclude(p, "unreadable")
    BY <1>14, <2>1, <2>3 DEF CheckReadRecord, Conclude, RecordOf
  <2>4. CASE ~ Conclude(p, "unreadable")
    BY <1>14, <2>1, <2>2, <2>4 DEF CheckReadRecord, RecordOf
  <2>q. QED
    BY <2>3, <2>4
<1>15. CASE CheckReadKey(p)
  BY <1>15 DEF CheckReadKey, Conclude
<1>16. CASE GetBootstrap(p)
  BY <1>16 DEF GetBootstrap
<1>17. CASE Abort(p)
  BY <1>17 DEF Abort, RecordOf
<1>18. CASE RejectIssuer(p)
  BY <1>18 DEF RejectIssuer
<1>q. QED
  BY <1>0, <1>1, <1>2, <1>3, <1>4, <1>5, <1>6, <1>7, <1>8, <1>9, <1>10, <1>11, <1>12, <1>13, <1>14, <1>15, <1>16, <1>17, <1>18 DEF Act, Step, Fault

LEMMA StepInv ==
  ASSUME Inv, NEW p \in Procs, Sole', Act(p)
  PROVE  Inv'
<1>1. SafeInv'
  BY SafeStep DEF Inv
<1>2. CASE Rename(p)
  <2>1. record' = RecordOf(p) /\ RecordOf(p) \in Record /\ privKey' = key[p] /\ key[p] \in Keys
    BY <1>2, RecordOfType
       DEF Inv, SafeInv, TmpInHand, KeyOnDisk, IssuerKnown, Rename, Provisioning
  <2>2. RecordOf(p).publicKey = AddressFromPrivateKey(key[p])
        /\ RecordOf(p).quote = RecordOf(p).publicKey
    BY DEF RecordOf
  <2>3. reported = {}
    BY <1>2, BootstrapConstants
       DEF Inv, SafeInv, NoRecordYet, ReportedStands, Rename, Provisioning, TypeOK
  <2>4. reported' = reported /\ verdict' = verdict
    BY <1>2 DEF Rename
  <2>q. QED
    BY <1>1, <2>1, <2>2, <2>3, <2>4
       DEF Inv, ReadersFindIt, RecordIsWhole, RecordHasItsKey, ReportedStands, CheckIsSilent
<1>3. CASE ~ Rename(p)
  <2> USE BootstrapConstants
      DEF Inv, SafeInv, TypeOK, Locations, Provisioning, Bootstrapping, Checking,
          NoRecordYet, TmpInHand, KeyComesFirst, ReadersHoldIt, ReadersFindIt,
          RecordIsWhole, RecordHasItsKey, ReportedStands, CheckIsSilent,
          disk, locals, Goto, Forget, Conclude
  <2>1. CASE record' = record /\ privKey' = privKey
    <3>1. ReadersFindIt'
      BY <1>3, <2>1 DEF Act, Step, Fault, Start, TestExists, FetchMetadata, RejectIssuer,
         CreateKeyFile, WriteKeyFile, ReceiveQuote, CreateTmp, WriteTmp, RenameFails, Load,
         LoadFails, Bind, PingAttestation, ProbeL2, CheckExists, CheckReadRecord, CheckReadKey,
         GetBootstrap, Abort, BootstrapExists
    <3>2. ReportedStands'
      BY <1>3, <2>1 DEF Act, Step, Fault, Start, TestExists, FetchMetadata, RejectIssuer,
         CreateKeyFile, WriteKeyFile, ReceiveQuote, CreateTmp, WriteTmp, RenameFails, Load,
         LoadFails, Bind, PingAttestation, ProbeL2, CheckExists, CheckReadRecord, CheckReadKey,
         GetBootstrap, Abort
    <3>3. CheckIsSilent'
      BY <1>3, <2>1 DEF Act, Step, Fault, Start, TestExists, FetchMetadata, RejectIssuer,
         CreateKeyFile, WriteKeyFile, ReceiveQuote, CreateTmp, WriteTmp, RenameFails, Load,
         LoadFails, Bind, PingAttestation, ProbeL2, CheckExists, CheckReadRecord, CheckReadKey,
         GetBootstrap, Abort, ResetsAreNotTampering, NeverMismatched
    <3>q. QED
      BY <1>1, <2>1, <3>1, <3>2, <3>3
  <2>2. CASE ~ (record' = record /\ privKey' = privKey)
    <3>1. CreateKeyFile(p) \/ WriteKeyFile(p)
      BY <1>3, <2>2 DEF Act, Step, Fault, Start, TestExists, FetchMetadata, RejectIssuer,
         ReceiveQuote, CreateTmp, WriteTmp, RenameFails, Load, LoadFails,
         Bind, PingAttestation, ProbeL2, CheckExists, CheckReadRecord, CheckReadKey, GetBootstrap, Abort
    <3>2. record = Absent /\ record' = record /\ reported' = reported /\ verdict' = verdict
      BY <3>1 DEF CreateKeyFile, WriteKeyFile
    <3>3. ReadersFindIt'
      BY <3>1, <3>2 DEF CreateKeyFile, WriteKeyFile
    <3>q. QED
      BY <1>1, <3>2, <3>3
  <2>q. QED
    BY <2>1, <2>2
<1>q. QED
  BY <1>2, <1>3

\* Inv is inductive, and so it holds throughout.
LEMMA NextInv ==
  ASSUME Inv, [SoleNext]_vars
  PROVE  Inv'
<1>1. CASE UNCHANGED vars
  BY <1>1
     DEF vars, Inv, SafeInv, TypeOK, Sole, NoRecordYet, KeyOnDisk, IssuerKnown, TmpInHand,
         KeyComesFirst, ReadersHoldIt, NeverMismatched, ResetsAreNotTampering,
         ReadersFindIt, RecordOf, RecordIsWhole, RecordHasItsKey, ReportedStands,
         CheckIsSilent
<1>2. CASE SoleNext
  BY <1>2, StepInv DEF SoleNext, Next, Act
<1>q. QED
  BY <1>1, <1>2

LEMMA Invariance == SoleSpec => []Inv
BY InitInv, NextInv, PTL DEF SoleSpec

\* Every variable keeps its type: in particular a process that provisions always
\* has an issuer the verifier knows and a key to sign with.
THEOREM SoleTypeOK == SoleSpec => []TypeOK
BY Invariance, PTL DEF Inv, SafeInv

\* The published record is the record of the key on disk.
THEOREM SoleRecordHasItsKey == SoleSpec => []RecordHasItsKey
BY Invariance, PTL DEF Inv

\* No crash leaves half a record.
THEOREM SoleRecordIsWhole == SoleSpec => []RecordIsWhole
BY Invariance, PTL DEF Inv

\* A record, once shown to anybody, is never replaced.
THEOREM SoleReportedStands == SoleSpec => []ReportedStands
BY Invariance, PTL DEF Inv

\* `check` never blames a disk this program wrote.
THEOREM SoleCheckIsSilent == SoleSpec => []CheckIsSilent
BY Invariance, PTL DEF Inv

-----------------------------------------------------------------------------
\* Only a provisioning process writes the two files, and there is none left once
\* the record is complete.
LEMMA StepKeepsIdentity ==
  ASSUME SafeInv, SoleNext, record \in Record
  PROVE  UNCHANGED <<record, privKey>>
<1>1. PICK p \in Procs : Act(p)
  BY DEF SoleNext, Next, Act
<1>2. pc[p] \notin Provisioning
  BY BootstrapConstants DEF SafeInv, NoRecordYet
<1>q. QED
  BY <1>1, <1>2
     DEF Act, Step, Fault, Provisioning, disk, Start, TestExists, FetchMetadata, RejectIssuer,
         CreateKeyFile, WriteKeyFile, ReceiveQuote, CreateTmp, WriteTmp, Rename,
         RenameFails, Load, LoadFails, Bind, PingAttestation, ProbeL2, CheckExists, CheckReadRecord,
         CheckReadKey, GetBootstrap, Abort

\* Bootstrapping is idempotent: later runs of any subcommand leave key and record be.
THEOREM SoleProvisionedIsFinal == SoleSpec => ProvisionedIsFinal
<1>1. Inv /\ [SoleNext]_vars
        => [(record \in Record) => UNCHANGED <<record, privKey>>]_vars
  BY StepKeepsIdentity DEF Inv
<1>q. QED
  BY <1>1, Invariance, PTL DEF SoleSpec, ProvisionedIsFinal

-----------------------------------------------------------------------------
(***************************************************************************)
(* Bootstrap implements ProverIdentity: completing the record is Adopt,    *)
(* printing or serving it is Report, and everything else is invisible.     *)
(***************************************************************************)
\* What the refinement mapping shows of a state.
identityOf == IF record \in Record THEN record.publicKey ELSE None
reportedOf == {r.publicKey : r \in reported}

\* Steps that neither complete the record nor report it.
Invisible(p) ==
  \/ \E c \in Commands : Start(p, c)
  \/ TestExists(p) \/ FetchMetadata(p) \/ CreateKeyFile(p) \/ WriteKeyFile(p)
  \/ ReceiveQuote(p) \/ CreateTmp(p) \/ WriteTmp(p) \/ RenameFails(p) \/ LoadFails(p)
  \/ Bind(p) \/ PingAttestation(p) \/ ProbeL2(p)
  \/ CheckExists(p) \/ CheckReadRecord(p) \/ CheckReadKey(p) \/ Fault(p)

LEMMA InvisibleStep ==
  ASSUME SafeInv, NEW p \in Procs, Invisible(p)
  PROVE  UNCHANGED <<record, reported>>
BY DEF Invisible, Fault, SafeInv, TmpInHand, disk, Start, TestExists, FetchMetadata,
       RejectIssuer, CreateKeyFile, WriteKeyFile, ReceiveQuote, CreateTmp, WriteTmp,
       RenameFails, LoadFails, Bind, PingAttestation, ProbeL2, CheckExists, CheckReadRecord,
       CheckReadKey, Abort

LEMMA RenameAdopts ==
  ASSUME SafeInv, NEW p \in Procs, Rename(p)
  PROVE  /\ identityOf = None
         /\ identityOf' \in Addresses
         /\ reportedOf' = reportedOf
<1>1. record = Absent /\ tmp = RecordOf(p)
  BY DEF SafeInv, NoRecordYet, TmpInHand, Rename, Provisioning
<1>2. RecordOf(p) \in Record
  BY RecordOfType DEF SafeInv, KeyOnDisk, IssuerKnown, Rename, Provisioning
<1>3. record' = RecordOf(p) /\ reported' = reported
  BY <1>1 DEF Rename
<1>4. RecordOf(p).publicKey \in Addresses
  BY <1>2 DEF Record
<1>q. QED
  BY <1>1, <1>2, <1>3, <1>4, BootstrapConstants DEF identityOf, reportedOf

LEMMA ReportReports ==
  ASSUME record \in Record, record' = record,
         reported' = reported \cup {record}
  PROVE  /\ identityOf # None
         /\ identityOf' = identityOf
         /\ reportedOf' = reportedOf \cup {identityOf}
<1>1. identityOf = record.publicKey /\ identityOf' = identityOf
  BY DEF identityOf
<1>2. record.publicKey \in Addresses
  BY DEF Record
<1>q. QED
  BY <1>1, <1>2, BootstrapConstants DEF reportedOf

LEMMA StepRefines ==
  ASSUME SafeInv, SoleNext
  PROVE  \/ Identity!Next
         \/ identityOf' = identityOf /\ reportedOf' = reportedOf
<1>1. PICK p \in Procs : Invisible(p) \/ Rename(p) \/ Load(p) \/ GetBootstrap(p)
  BY DEF SoleNext, Next, Step, Invisible
<1>2. CASE Invisible(p)
  BY <1>2, InvisibleStep DEF identityOf, reportedOf
<1>3. CASE Rename(p)
  BY <1>3, RenameAdopts DEF Identity!Next, Identity!Adopt, identityOf, reportedOf
<1>4. CASE Load(p) \/ GetBootstrap(p)
  <2>1. /\ record \in Record /\ record' = record
        /\ reported' = reported \/ reported' = reported \cup {record}
    BY <1>4 DEF Load, GetBootstrap, disk
  <2>2. CASE reported' = reported
    BY <2>1, <2>2 DEF identityOf, reportedOf
  <2>3. CASE reported' = reported \cup {record}
    BY <2>1, <2>3, ReportReports
       DEF Identity!Next, Identity!Report, identityOf, reportedOf
  <2>q. QED
    BY <2>1, <2>2, <2>3
<1>q. QED
  BY <1>1, <1>2, <1>3, <1>4

\* Bootstrapping takes one address and reports no other.
THEOREM SoleTakesOneIdentity == SoleSpec => TakesOneIdentity
<1>1. Init => Identity!Init
  BY BootstrapConstants DEF Init, Identity!Init
<1>2. Inv /\ [SoleNext]_vars => [Identity!Next]_(Identity!idVars)
  <2>1. CASE UNCHANGED vars
    BY <2>1 DEF vars, Identity!idVars
  <2>2. ASSUME SafeInv, SoleNext PROVE [Identity!Next]_(Identity!idVars)
    BY <2>2, StepRefines DEF Identity!idVars, identityOf, reportedOf
  <2>q. QED
    BY <2>1, <2>2 DEF Inv
<1>q. QED
  BY <1>1, <1>2, Invariance, PTL DEF SoleSpec, TakesOneIdentity, Identity!Spec

-----------------------------------------------------------------------------
(***************************************************************************)
(* Any number of bootstraps at once.                                       *)
(***************************************************************************)
\* The key file comes first and stays: whoever is past creating it, and any file
\* that process leaves, finds it there.
KeyFileFirst ==
  /\ pc \in [Procs -> Locations]
  /\ \A p \in Procs :
       pc[p] \in {"writeKey", "quote", "createTmp", "writeTmp", "rename"}
         => privKey # Absent
  /\ tmp # Absent \/ record # Absent => privKey # Absent
  /\ key \in [Procs -> Keys \cup {None}]
  /\ \A p \in Procs : pc[p] = "writeKey" => key[p] \in Keys
  /\ fd \in [Procs -> {"closed", "tmp", "record", "unlinked"}]
  /\ \A p \in Procs : fd[p] # "closed" => privKey # Absent

LEMMA KeyFileFirstStep ==
  ASSUME KeyFileFirst, Next
  PROVE  KeyFileFirst'
<1>1. PICK p \in Procs :
        (\E c \in Commands : Start(p, c)) \/ Step(p) \/ GetBootstrap(p) \/ Fault(p)
  BY DEF Next
<1> USE BootstrapConstants
    DEF KeyFileFirst, Locations, Provisioning, Bootstrapping, Checking, disk, locals,
        Goto, Forget
<1>2. CASE (\E c \in Commands : Start(p, c)) \/ GetBootstrap(p) \/ Fault(p)
  BY <1>2 DEF Start, GetBootstrap, Fault, Abort, RejectIssuer
<1>3. CASE TestExists(p) \/ FetchMetadata(p) \/ ReceiveQuote(p)
  BY <1>3 DEF TestExists, FetchMetadata, ReceiveQuote
<1>4. CASE CreateKeyFile(p) \/ WriteKeyFile(p)
  BY <1>4 DEF CreateKeyFile, WriteKeyFile
<1>5. CASE CreateTmp(p) \/ WriteTmp(p)
  BY <1>5 DEF CreateTmp, WriteTmp
<1>6. CASE Rename(p) \/ RenameFails(p)
  BY <1>6 DEF Rename, RenameFails
<1>7. CASE Load(p) \/ LoadFails(p)
  BY <1>7 DEF Load, LoadFails
<1>8. CASE Bind(p) \/ PingAttestation(p) \/ ProbeL2(p) \/ CheckExists(p)
  BY <1>8 DEF Bind, PingAttestation, ProbeL2, CheckExists, Conclude
<1>9. CASE CheckReadRecord(p) \/ CheckReadKey(p)
  BY <1>9 DEF CheckReadRecord, CheckReadKey, Conclude
<1>q. QED
  BY <1>1, <1>2, <1>3, <1>4, <1>5, <1>6, <1>7, <1>8, <1>9 DEF Step

LEMMA LatecomersStep ==
  ASSUME KeyFileFirst, Next, record # Absent, NEW q \in Procs, pc'[q] \in Provisioning
  PROVE  pc[q] \in Provisioning
<1>1. PICK p \in Procs :
        (\E c \in Commands : Start(p, c)) \/ Step(p) \/ GetBootstrap(p) \/ Fault(p)
  BY DEF Next
<1>2. CASE TestExists(p)
  BY <1>2 DEF TestExists, BootstrapExists, KeyFileFirst, Goto, Provisioning
<1>3. CASE ~ TestExists(p)
  BY <1>1, <1>3
     DEF Step, Fault, KeyFileFirst, Provisioning, Goto, Start, FetchMetadata,
         RejectIssuer, CreateKeyFile, WriteKeyFile, ReceiveQuote, CreateTmp, WriteTmp,
         Rename, RenameFails, Load, LoadFails, Bind, PingAttestation, ProbeL2, CheckExists,
         CheckReadRecord, CheckReadKey, Conclude, GetBootstrap, Abort
<1>q. QED
  BY <1>2, <1>3

LEMMA KeyFileFirstAlways == FreeSpec => []KeyFileFirst
<1>1. Init => KeyFileFirst
  BY DEF Init, KeyFileFirst, Locations
<1>2. KeyFileFirst /\ [Next]_vars => KeyFileFirst'
  <2>1. CASE UNCHANGED vars
    BY <2>1 DEF vars, KeyFileFirst
  <2>q. QED
    BY <2>1, KeyFileFirstStep
<1>q. QED
  BY <1>1, <1>2, PTL DEF FreeSpec

\* With any number of bootstraps racing, none sets out once there is a record.
THEOREM FreeLatecomersReuse == FreeSpec => LatecomersReuse
<1>1. KeyFileFirst /\ [Next]_vars
        => [record # Absent => NobodySetsOut]_vars
  BY LatecomersStep DEF NobodySetsOut
<1>q. QED
  BY <1>1, KeyFileFirstAlways, PTL DEF FreeSpec, LatecomersReuse

\* There is a record, and nobody is past bootstrap_exists.
Settled == record # Absent /\ \A p \in Procs : pc[p] \notin Provisioning

LEMMA SettledStep ==
  ASSUME KeyFileFirst, [Next]_vars, Settled
  PROVE  Settled' /\ UNCHANGED <<privKey, record>>
<1>1. CASE UNCHANGED vars
  BY <1>1 DEF vars, Settled
<1>2. CASE Next
  <2>1. PICK p \in Procs : Act(p)
    BY <1>2 DEF Next, Act
  <2>2. UNCHANGED <<privKey, record>>
    BY <2>1
       DEF Settled, Act, Step, Fault, Provisioning, disk, Start, TestExists, FetchMetadata,
           RejectIssuer, CreateKeyFile, WriteKeyFile, ReceiveQuote, CreateTmp, WriteTmp,
           Rename, RenameFails, Load, LoadFails, Bind, PingAttestation, ProbeL2,
           CheckExists, CheckReadRecord, CheckReadKey, GetBootstrap, Abort
  <2>3. \A q \in Procs : pc'[q] \notin Provisioning
    BY <1>2, LatecomersStep DEF Settled
  <2>q. QED
    BY <2>2, <2>3 DEF Settled
<1>q. QED
  BY <1>1, <1>2

\* However a race of bootstraps went, what it left on disk is there for good once the
\* last of them is through: no later run of any subcommand repairs a key and a record
\* that do not match, and none spoils a pair that does.
THEOREM FreeSettledIsFinal ==
  ASSUME NEW k, NEW r
  PROVE  FreeSpec => [](Settled /\ privKey = k /\ record = r => [](privKey = k /\ record = r))
<1> DEFINE Left == Settled /\ privKey = k /\ record = r
<1>1. KeyFileFirst /\ [Next]_vars /\ Left => Left'
  BY SettledStep
<1>2. Left => privKey = k /\ record = r
  OBVIOUS
<1>q. QED
  BY <1>1, <1>2, KeyFileFirstAlways, PTL DEF FreeSpec
=============================================================================
