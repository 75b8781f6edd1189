-------------------------- MODULE PowerLossProofs ---------------------------
(***************************************************************************)
(* PowerLoss, for any number of processes, keys, issuers and resets.       *)
(*                                                                         *)
(* The argument.  The journal commits names all at once, so what a reset   *)
(* brings back is what was on disk at some moment, with some files cut     *)
(* short.  At that moment the invariant of Bootstrap held; cutting a file  *)
(* short neither makes a record of it nor a key nor removes its name; and  *)
(* with every process gone, the rest of the invariant is about nobody.     *)
(***************************************************************************)
EXTENDS PowerLoss, BootstrapProofs

\* Only a file that is there has data to write.
DirtyFilesExist ==
  /\ "tmp" \in dirty => tmp # Absent
  /\ "record" \in dirty => record # Absent

\* What a reset brings back is as good as what SafeInv asks of the disk.
DurableIsSafe ==
  /\ durable \in [privKey : {Absent, Empty} \cup Keys,
                  tmp     : {Absent, Empty, Garbled} \cup Record,
                  record  : {Absent, Empty, Garbled} \cup Record]
  /\ durable.tmp # Absent \/ durable.record # Absent => durable.privKey # Absent
  /\ durable.record \in Record /\ durable.privKey \in Keys =>
       /\ durable.record.publicKey = AddressFromPrivateKey(durable.privKey)
       /\ durable.record.quote = durable.record.publicKey

\* A reset brings back the record there is, or none.
DurableRecordStands == durable.record \in Record => record = durable.record

PowerInv == SafeInv /\ DirtyFilesExist /\ DurableIsSafe /\ DurableRecordStands

-----------------------------------------------------------------------------
LEMMA PowerInitInv == PowerInit => PowerInv
<1> SUFFICES ASSUME PowerInit PROVE PowerInv
  OBVIOUS
<1>1. SafeInv
  BY InitInv DEF PowerInit, Inv
<1>2. durable = [privKey |-> Absent, tmp |-> Absent, record |-> Absent] /\ dirty = {}
  BY DEF PowerInit, Init, Files
<1>3. Absent \notin Record
  BY BootstrapConstants
<1>q. QED
  BY <1>1, <1>2, <1>3 DEF PowerInv, DirtyFilesExist, DurableIsSafe, DurableRecordStands

\* A file, once there, goes away only by being renamed.
LEMMA NamesStay ==
  ASSUME SafeInv, NEW p \in Procs, Act(p)
  PROVE  /\ record # Absent => record' # Absent
         /\ tmp # Absent /\ tmp' = Absent => record' = tmp
<1> USE BootstrapConstants
    DEF SafeInv, TypeOK, TmpInHand, disk, Act, Step, Fault
<1>1. CASE Rename(p)
  BY <1>1 DEF Rename
<1>2. CASE WriteTmp(p)
  <2>1. RecordOf(p) \in Record
    BY <1>2, RecordOfType DEF WriteTmp, IssuerKnown, KeyOnDisk, Provisioning
  <2>q. QED
    BY <1>2, <2>1 DEF WriteTmp, Overlay
<1>3. CASE ~ Rename(p) /\ ~ WriteTmp(p)
  BY <1>3 DEF Start, TestExists, FetchMetadata, RejectIssuer, CreateKeyFile, WriteKeyFile,
     ReceiveQuote, CreateTmp, RenameFails, Load, LoadFails, Bind, PingAttestation, ProbeL2, CheckExists,
     CheckReadRecord, CheckReadKey, GetBootstrap, Abort
<1>q. QED
  BY <1>1, <1>2, <1>3

LEMMA ProcessStepInv ==
  ASSUME PowerInv, ProcessStep
  PROVE  PowerInv'
<1>1. PICK p \in Procs : Act(p)
  BY DEF ProcessStep, SoleNext, Next, Act
<1>2. SafeInv'
  BY <1>1, SafeStep DEF PowerInv, ProcessStep, SoleNext
<1>3. DurableIsSafe'
  BY DEF PowerInv, ProcessStep, DurableIsSafe
<1>4. DurableRecordStands'
  BY StepKeepsIdentity DEF PowerInv, ProcessStep, DurableRecordStands
<1>5. DirtyFilesExist'
  <2>1. /\ record # Absent => record' # Absent
        /\ tmp # Absent /\ tmp' = Absent => record' = tmp
    BY <1>1, NamesStay DEF PowerInv
  <2>2. CASE tmp # Absent /\ tmp' = Absent
    BY <2>1, <2>2 DEF PowerInv, ProcessStep, Track, DirtyFilesExist, FileNames
  <2>3. CASE ~ (tmp # Absent /\ tmp' = Absent)
    <3>1. Files.tmp = tmp /\ Files'.tmp = tmp' /\ Files.record = record /\ Files'.record = record'
      BY DEF Files
    <3>2. /\ "tmp" \in dirty' =>
               (tmp' = tmp /\ "tmp" \in dirty) \/ (tmp' # tmp /\ tmp' # Empty)
          /\ "record" \in dirty' =>
               (record' = record /\ "record" \in dirty) \/ (record' # record /\ record' # Empty)
      BY <2>3, <3>1 DEF ProcessStep, Track, FileNames
    <3>q. QED
      BY <2>1, <2>3, <3>2 DEF PowerInv, DirtyFilesExist
  <2>q. QED
    BY <2>2, <2>3
<1>q. QED
  BY <1>2, <1>3, <1>4, <1>5 DEF PowerInv

LEMMA CommitInv ==
  ASSUME PowerInv, Commit
  PROVE  PowerInv'
<1>1. SafeInv' /\ DirtyFilesExist'
  BY DEF PowerInv, Commit, vars, DirtyFilesExist, SafeInv, TypeOK, Sole, NoRecordYet,
         KeyOnDisk, IssuerKnown, TmpInHand, KeyComesFirst, ReadersHoldIt,
         NeverMismatched, ResetsAreNotTampering, RecordOf
<1>2. /\ durable' \in [privKey : Survivals("privKey"), tmp : Survivals("tmp"),
                       record : Survivals("record")]
      /\ Survivals("privKey") \subseteq {privKey, Empty}
      /\ Survivals("tmp")    \subseteq {tmp} \cup (IF tmp # Absent THEN {Empty, Garbled} ELSE {})
      /\ Survivals("record") \subseteq {record} \cup (IF record # Absent THEN {Empty, Garbled} ELSE {})
  BY DEF PowerInv, DirtyFilesExist, Commit, Survivals, Files
<1>3. Absent \notin Record /\ Empty \notin Record \cup Keys /\ Garbled \notin Record
  BY BootstrapConstants
<1>4. DurableIsSafe'
  BY <1>2, <1>3, BootstrapConstants
     DEF PowerInv, SafeInv, TypeOK, KeyComesFirst, NeverMismatched, DurableIsSafe
<1>5. DurableRecordStands'
  BY <1>2, <1>3 DEF Commit, vars, DurableRecordStands
<1>q. QED
  BY <1>1, <1>4, <1>5 DEF PowerInv

LEMMA ResetInv ==
  ASSUME PowerInv, PowerReset
  PROVE  PowerInv'
<1>1. DurableIsSafe' /\ DirtyFilesExist' /\ DurableRecordStands'
  BY DEF PowerInv, PowerReset, DurableIsSafe, DirtyFilesExist, DurableRecordStands
<1>2. TypeOK' /\ KeyComesFirst' /\ NeverMismatched' /\ ResetsAreNotTampering'
  BY BootstrapConstants
     DEF PowerInv, SafeInv, PowerReset, DurableIsSafe, TypeOK, Locations, KeyComesFirst,
         NeverMismatched, ResetsAreNotTampering
<1>3. \A p \in Procs : pc'[p] = "down" /\ fd'[p] = "closed"
  BY DEF PowerReset
<1>4. Sole' /\ NoRecordYet' /\ KeyOnDisk' /\ IssuerKnown' /\ TmpInHand' /\ ReadersHoldIt'
  BY <1>3 DEF Sole, Bootstrapping, Provisioning, NoRecordYet, KeyOnDisk, IssuerKnown,
              TmpInHand, ReadersHoldIt
<1>q. QED
  BY <1>1, <1>2, <1>4 DEF PowerInv, SafeInv

LEMMA PowerStutter ==
  ASSUME PowerInv, UNCHANGED powerVars
  PROVE  PowerInv'
BY DEF powerVars, storage, vars, PowerInv, DirtyFilesExist, DurableIsSafe,
       DurableRecordStands, SafeInv, TypeOK,
       Sole, NoRecordYet, KeyOnDisk, IssuerKnown, TmpInHand, KeyComesFirst, ReadersHoldIt,
       NeverMismatched, ResetsAreNotTampering, RecordOf

LEMMA PowerNextInv ==
  ASSUME PowerInv, [PowerNext]_powerVars
  PROVE  PowerInv'
BY ProcessStepInv, CommitInv, ResetInv, PowerStutter DEF PowerNext

LEMMA PowerInvariance == PowerSpec => []PowerInv
BY PowerInitInv, PowerNextInv, PTL DEF PowerSpec

\* No reset pairs the record of one bootstrap with the key of another.
THEOREM PowerNeverMismatched == PowerSpec => []NeverMismatched
BY PowerInvariance, PTL DEF PowerInv, SafeInv

\* `check` never reports the damage of a reset as an exchanged key.
THEOREM PowerResetsAreNotTampering == PowerSpec => []ResetsAreNotTampering
BY PowerInvariance, PTL DEF PowerInv, SafeInv
-----------------------------------------------------------------------------
(***************************************************************************)
(* What has reached the disk once.                                         *)
(***************************************************************************)
\* The files are those on the disk, and nothing of them is left to write.
InSync ==
  Committed =>
    /\ record = durable.record
    /\ privKey = durable.privKey
    /\ dirty \cap {"record", "privKey"} = {}

\* Nobody renames once there is a record.
LEMMA NoRenameWithRecord ==
  ASSUME SafeInv, SoleNext, record \in Record
  PROVE  ~ (tmp # Absent /\ tmp' = Absent)
<1>1. PICK p \in Procs : Act(p)
  BY DEF SoleNext, Next, Act
<1>2. pc[p] \notin Provisioning
  BY BootstrapConstants DEF SafeInv, NoRecordYet
<1>q. QED
  BY <1>1, <1>2
     DEF Act, Step, Fault, Provisioning, disk, Start, TestExists, FetchMetadata, RejectIssuer,
         CreateKeyFile, WriteKeyFile, ReceiveQuote, CreateTmp, WriteTmp, Rename,
         RenameFails, Load, LoadFails, Bind, PingAttestation, ProbeL2, CheckExists,
         CheckReadRecord, CheckReadKey, GetBootstrap, Abort

LEMMA ProcessStepInSync ==
  ASSUME PowerInv, InSync, ProcessStep
  PROVE  /\ InSync'
         /\ Committed => UNCHANGED <<record, privKey, durable>>
<1>1. durable' = durable /\ Committed' = Committed
  BY DEF ProcessStep, Committed
<1>2. CASE Committed
  <2>1. /\ record \in Record
        /\ "record" \notin dirty /\ "privKey" \notin dirty
        /\ record = durable.record /\ privKey = durable.privKey
    BY <1>2 DEF InSync, Committed
  <2>2. UNCHANGED <<record, privKey>> /\ ~ (tmp # Absent /\ tmp' = Absent)
    BY <2>1, StepKeepsIdentity, NoRenameWithRecord DEF PowerInv, ProcessStep
  <2>3. "record" \notin dirty' /\ "privKey" \notin dirty'
    <3>1. Files'.record = Files.record /\ Files'.privKey = Files.privKey
      BY <2>2 DEF Files
    <3>q. QED
      BY <2>1, <2>2, <3>1 DEF ProcessStep, Track
  <2>q. QED
    BY <1>1, <2>1, <2>2, <2>3 DEF InSync
<1>q. QED
  BY <1>1, <1>2 DEF InSync

\* A commit takes names and sizes to the disk all at once: a whole record and a key
\* that get there are those of one moment.
LEMMA CommitInSync ==
  ASSUME PowerInv, InSync, Commit
  PROVE  /\ InSync'
         /\ Committed => UNCHANGED <<record, privKey, durable.record, durable.privKey>>
<1>1. /\ durable'.record \in {record} \cup {Empty, Garbled}
      /\ durable'.privKey \in {privKey, Empty}
      /\ "record" \notin dirty => durable'.record = record
      /\ "privKey" \notin dirty => durable'.privKey = privKey
      /\ UNCHANGED <<record, privKey>>
  BY DEF Commit, Survivals, Files, vars
<1>2. {Empty, Garbled} \cap (Keys \cup Record) = {}
  BY BootstrapConstants
<1>3. Committed' => durable'.record = record /\ durable'.privKey = privKey
  BY <1>1, <1>2 DEF Committed
<1>4. durable'.record = record => "record" \notin dirty'
  BY DEF Commit, Files
<1>5. durable'.privKey = privKey => "privKey" \notin dirty'
  BY DEF Commit, Files
<1>6. InSync'
  BY <1>1, <1>3, <1>4, <1>5 DEF InSync
<1>7. Committed => durable'.record = durable.record /\ durable'.privKey = durable.privKey
  BY <1>1 DEF InSync
<1>q. QED
  BY <1>1, <1>6, <1>7

LEMMA SyncStep ==
  ASSUME PowerInv, InSync, [PowerNext]_powerVars
  PROVE  /\ InSync'
         /\ Committed => UNCHANGED <<record, privKey, durable.record, durable.privKey>>
<1>1. CASE PowerReset
  BY <1>1 DEF PowerReset, InSync, Committed
<1>2. CASE UNCHANGED powerVars
  BY <1>2 DEF powerVars, storage, vars, InSync, Committed
<1>q. QED
  BY <1>1, <1>2, ProcessStepInSync, CommitInSync DEF PowerNext

LEMMA AlwaysInSync == PowerSpec => []InSync
<1>1. PowerInit => InSync
  BY BootstrapConstants DEF PowerInit, Init, Files, Committed, InSync
<1>q. QED
  BY <1>1, PowerInvariance, SyncStep, PTL DEF PowerSpec

\* Once record and key have reached the disk no run and no reset replaces either.
THEOREM PowerCommittedIsFinal == PowerSpec => CommittedIsFinal
<1>1. PowerInv /\ InSync /\ [PowerNext]_powerVars
        => [Committed => UNCHANGED <<record, privKey, durable.record, durable.privKey>>]_powerVars
  BY SyncStep
<1>q. QED
  BY <1>1, AlwaysInSync, PowerInvariance, PTL DEF PowerSpec, CommittedIsFinal
=============================================================================
