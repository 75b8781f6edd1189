----------------------------- MODULE PowerLoss ------------------------------
(***************************************************************************)
(* Bootstrap on a VM that may be reset.  persistence.rs calls neither      *)
(* sync_all nor sync_data, so what a reset brings back is up to the kernel *)
(* and its journalling file system, which are modelled here: names and     *)
(* sizes are committed in order and all at once, the data written to a     *)
(* file at some later time of its own.                                     *)
(*                                                                         *)
(* One process bootstraps at a time (Bootstrap!Sole).  A reset can cost    *)
(* the VM its record or its key, and what is left is never repaired:       *)
(* NoHalfWrittenRecord fails here.  It cannot make the VM wrong:           *)
(* NeverMismatched and ResetsAreNotTampering hold, and what has reached    *)
(* the disk once is out of danger (CommittedIsFinal).                      *)
(***************************************************************************)
EXTENDS Bootstrap, Naturals

CONSTANT MaxResets   \* bound: the resets of one behaviour

ASSUME PowerLossConstants == MaxResets \in Nat

VARIABLES
  dirty,       \* the files whose latest data has not reached the disk
  durable,     \* the content of each file that a reset would bring back
  resetsLeft

storage   == <<dirty, durable, resetsLeft>>
powerVars == <<vars, storage>>

FileNames == {"privKey", "tmp", "record"}

Files == [privKey |-> privKey, tmp |-> tmp, record |-> record]

PowerInit ==
  /\ Init
  /\ dirty = {}
  /\ durable = Files
  /\ resetsLeft = MaxResets

\* A write dirties its file, truncating leaves nothing to write, and a rename takes
\* the file's unwritten data along.
Track ==
  dirty' =
    IF tmp # Absent /\ tmp' = Absent
    THEN {f \in FileNames : IF f = "record" THEN "tmp" \in dirty
                            ELSE f = "privKey" /\ f \in dirty}
    ELSE {f \in FileNames : IF Files'[f] = Files[f] THEN f \in dirty
                            ELSE Files'[f] # Empty}

\* The keys a reset can bring back: as good as in use.
DurableKeys ==
  {k \in Keys :
     \/ durable.privKey = k
     \/ \E f \in {durable.tmp, durable.record} :
          f \in Record /\ f.publicKey = AddressFromPrivateKey(k)}

\* A step of some process, which draws no key twice.
ProcessStep ==
  /\ SoleNext
  /\ \A p \in Procs : key'[p] \in {key[p], None} \cup (Keys \ DurableKeys)
  /\ Track
  /\ UNCHANGED <<durable, resetsLeft>>

\* What a commit may make of f: its content, or, while its data is unwritten, an
\* empty file, or the part of a record that was written.  (A key is one block.)
Survivals(f) ==
  {Files[f]} \cup
  (IF f \notin dirty THEN {} ELSE IF f = "privKey" THEN {Empty} ELSE {Empty, Garbled})

\* The file system commits its journal.
Commit ==
  /\ durable' \in [privKey : Survivals("privKey"), tmp : Survivals("tmp"),
                   record : Survivals("record")]
  /\ dirty' = {f \in dirty : durable'[f] # Files[f]}
  /\ UNCHANGED <<vars, resetsLeft>>

\* The VM is reset: every process is gone, and the files are as they last reached
\* the disk.
PowerReset ==
  /\ resetsLeft > 0
  /\ resetsLeft' = resetsLeft - 1
  /\ privKey' = durable.privKey
  /\ tmp'     = durable.tmp
  /\ record'  = durable.record
  /\ dirty'   = {}
  /\ pc'      = [p \in Procs |-> "down"]
  /\ issuer'  = [p \in Procs |-> None]
  /\ key'     = [p \in Procs |-> None]
  /\ fd'      = [p \in Procs |-> "closed"]
  /\ view'    = [p \in Procs |-> None]
  /\ UNCHANGED <<cmd, verdict, reported, durable>>

PowerNext == ProcessStep \/ Commit \/ PowerReset

PowerSpec == PowerInit /\ [][PowerNext]_powerVars

-----------------------------------------------------------------------------
\* The record and its key have both reached the disk.
Committed == durable.record \in Record /\ durable.privKey \in Keys

\* From then on first boot is over: the files a later process finds, and those a later
\* reset brings back, are that record and that key, however often the VM is reset
\* and whatever is run on it.
CommittedIsFinal ==
  [][Committed => UNCHANGED <<record, privKey, durable.record, durable.privKey>>]_powerVars

=============================================================================
