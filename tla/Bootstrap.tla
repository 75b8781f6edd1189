----------------------------- MODULE Bootstrap ------------------------------
(***************************************************************************)
(* First boot and restart of reth-tdx: bootstrap.rs and persistence.rs as  *)
(* run by the subcommands of runtime.rs (`bootstrap`, `serve`, `check`).   *)
(*                                                                         *)
(* The state on disk is two files, the private key and the bootstrap       *)
(* record, plus the temporary file the record is renamed from.  A process  *)
(* is one run of the binary; any number may run, and one may die between   *)
(* any two system calls.  The code takes no lock.                          *)
(*                                                                         *)
(* Abstractions.  A record keeps the issuer, the address and the address   *)
(* the quote was issued over; nonce and metadata are left out.  Nothing    *)
(* ever removes a file, so `bootstrap_exists` is read in one step.  A key  *)
(* referenced nowhere any more may be drawn again, which keeps Keys finite *)
(* and is indistinguishable from drawing a new one.                        *)
(***************************************************************************)
CONSTANTS
  Procs,       \* runs of the binary that can be alive together
  Commands,    \* the subcommands that are run
  Keys,        \* private keys the generator can draw
  Issuers,     \* issuer types the tdxs daemon can report
  Supported,   \* those of SUPPORTED_ISSUER_TYPES
  Absent,      \* file content: there is no such file
  Empty,       \* file content: created or truncated, nothing written yet
  Garbled,     \* file content: does not parse
  None         \* a local variable that holds nothing

\* The Ethereum address a private key signs as: distinct keys, distinct addresses.
AddressFromPrivateKey(k) == [account |-> k]

Addresses == {AddressFromPrivateKey(k) : k \in Keys}

\* BootstrapData.  `quote` is the address embedded in the quote's report data.
Record == [issuerType : Supported, publicKey : Addresses, quote : Addresses]

ASSUME BootstrapConstants ==
  /\ Commands \subseteq {"bootstrap", "serve", "check"}
  /\ Supported \subseteq Issuers
  /\ {Absent, Empty, Garbled, None} \cap (Keys \cup Issuers \cup Record) = {}
  /\ None \notin Addresses
  /\ Absent # Empty /\ Absent # Garbled /\ Empty # Garbled

VARIABLES
  privKey,     \* secrets/priv.key
  tmp,         \* bootstrap.json.tmp
  record,      \* bootstrap.json
  pc,          \* where each process is
  cmd,         \* its subcommand
  issuer,      \* its `metadata.issuer_type`
  key,         \* its `private_key`
  fd,          \* the file its fs::write has open
  view,        \* the record `check` has read
  verdict,     \* what `check` concluded
  reported     \* every record printed by `bootstrap` or served by GET /bootstrap

disk   == <<privKey, tmp, record>>
locals == <<issuer, key, fd, view>>
vars   == <<privKey, tmp, record, pc, cmd, issuer, key, fd, view, verdict, reported>>

\* Inside bootstrap(): before bootstrap_exists has answered, past it, and loading.
Provisioning  == {"metadata", "createKey", "writeKey", "quote", "createTmp",
                  "writeTmp", "rename"}
Bootstrapping == {"exists", "load"} \cup Provisioning
Checking      == {"ping", "probe", "checkExists", "checkRecord", "checkKey"}
Locations     == {"down", "bind", "serving"} \cup Bootstrapping \cup Checking
Verdicts      == {"none", "ok", "uninitialised", "unreadable", "mismatch"}

TypeOK ==
  /\ privKey  \in {Absent, Empty} \cup Keys
  /\ tmp      \in {Absent, Empty, Garbled} \cup Record
  /\ record   \in {Absent, Empty, Garbled} \cup Record
  /\ pc       \in [Procs -> Locations]
  /\ cmd      \in [Procs -> Commands \cup {None}]
  /\ issuer   \in [Procs -> Supported \cup {None}]
  /\ key      \in [Procs -> Keys \cup {None}]
  /\ fd       \in [Procs -> {"closed", "tmp", "record", "unlinked"}]
  /\ view     \in [Procs -> Record \cup {None}]
  /\ verdict  \in [Procs -> Verdicts]
  /\ reported \subseteq Record

Init ==
  /\ privKey  = Absent
  /\ tmp      = Absent
  /\ record   = Absent
  /\ pc       = [p \in Procs |-> "down"]
  /\ cmd      = [p \in Procs |-> None]
  /\ issuer   = [p \in Procs |-> None]
  /\ key      = [p \in Procs |-> None]
  /\ fd       = [p \in Procs |-> "closed"]
  /\ view     = [p \in Procs |-> None]
  /\ verdict  = [p \in Procs |-> "none"]
  /\ reported = {}

-----------------------------------------------------------------------------
(***************************************************************************)
(* Helpers                                                                 *)
(***************************************************************************)
\* Mutant: the key alone counts as bootstrapped.
BootstrapExistsByKey == privKey # Absent

\* Mutant: a record that does not parse does not count, so it is made again.
BootstrapExistsParsed == record \in Record /\ privKey \in Keys

BootstrapExists == record # Absent /\ privKey # Absent

\* The record a process writes: its daemon's issuer, its key's address, and the
\* quote it asked for over that address.
RecordOf(p) ==
  [issuerType |-> issuer[p],
   publicKey  |-> AddressFromPrivateKey(key[p]),
   quote      |-> AddressFromPrivateKey(key[p])]

\* Writing r from offset 0 into a file.  If another writer got there first, its
\* longer text may stick out past r's end.
Overlay(file, r) == IF file = Empty THEN {r} ELSE {r, Garbled}

\* The keys something still refers to.
InUse ==
  {k \in Keys :
     \/ privKey = k
     \/ \E p \in Procs : key[p] = k
     \/ \E f \in {tmp, record} \cup reported \cup {view[p] : p \in Procs} :
          f \in Record /\ f.publicKey = AddressFromPrivateKey(k)}

\* Process p moves to location l.
Goto(p, l) == pc' = [pc EXCEPT ![p] = l]

\* The locals of p go out of scope.
Forget(p) ==
  /\ issuer' = [issuer EXCEPT ![p] = None]
  /\ key'    = [key    EXCEPT ![p] = None]
  /\ fd'     = [fd     EXCEPT ![p] = "closed"]
  /\ view'   = [view   EXCEPT ![p] = None]

-----------------------------------------------------------------------------
(***************************************************************************)
(* bootstrap(), one action per system call or await                        *)
(***************************************************************************)
Start(p, c) ==
  /\ pc[p] = "down"
  /\ cmd' = [cmd EXCEPT ![p] = c]
  /\ verdict' = [verdict EXCEPT ![p] = "none"]
  /\ Goto(p, IF c = "check" THEN "ping" ELSE "exists")
  /\ UNCHANGED <<disk, locals, reported>>

\* Mutant: the early return of an already bootstrapped VM is lost.
TestExistsWithoutReturn(p) ==
  /\ pc[p] = "exists"
  /\ Goto(p, "metadata")
  /\ UNCHANGED <<disk, cmd, locals, verdict, reported>>

\* bootstrap_exists: both files there means reuse, anything less means a new key.
TestExists(p) ==
  /\ pc[p] = "exists"
  /\ Goto(p, IF BootstrapExists THEN "load" ELSE "metadata")
  /\ UNCHANGED <<disk, cmd, locals, verdict, reported>>

\* Mutant: validate_issuer is not called.
FetchMetadataUnvalidated(p) ==
  /\ pc[p] = "metadata"
  /\ \E i \in Issuers : issuer' = [issuer EXCEPT ![p] = i]
  /\ Goto(p, "createKey")
  /\ UNCHANGED <<disk, cmd, key, fd, view, verdict, reported>>

FetchMetadata(p) ==
  /\ pc[p] = "metadata"
  /\ \E i \in Supported : issuer' = [issuer EXCEPT ![p] = i]
  /\ Goto(p, "createKey")
  /\ UNCHANGED <<disk, cmd, key, fd, view, verdict, reported>>

\* validate_issuer refuses an issuer the verifier has no format for.
RejectIssuer(p) ==
  /\ pc[p] = "metadata"
  /\ Issuers \ Supported # {}
  /\ Goto(p, "down")
  /\ Forget(p)
  /\ UNCHANGED <<disk, cmd, verdict, reported>>

\* Mutant: a key file left by a crashed run is kept, though a new key is in use.
CreateKeyFileOnce(p) ==
  /\ pc[p] = "createKey"
  /\ \E k \in Keys \ InUse : key' = [key EXCEPT ![p] = k]
  /\ privKey' = IF privKey = Absent THEN Empty ELSE privKey
  /\ Goto(p, IF privKey = Absent THEN "writeKey" ELSE "quote")
  /\ UNCHANGED <<tmp, record, cmd, issuer, fd, view, verdict, reported>>

\* A key is drawn and priv.key is opened with O_CREAT | O_TRUNC.
CreateKeyFile(p) ==
  /\ pc[p] = "createKey"
  /\ \E k \in Keys \ InUse : key' = [key EXCEPT ![p] = k]
  /\ privKey' = Empty
  /\ Goto(p, "writeKey")
  /\ UNCHANGED <<tmp, record, cmd, issuer, fd, view, verdict, reported>>

WriteKeyFile(p) ==
  /\ pc[p] = "writeKey"
  /\ privKey' = key[p]
  /\ Goto(p, "quote")
  /\ UNCHANGED <<tmp, record, cmd, locals, verdict, reported>>

\* The daemon answers the `issue` request for the key's address.
ReceiveQuote(p) ==
  /\ pc[p] = "quote"
  /\ Goto(p, "createTmp")
  /\ UNCHANGED <<disk, cmd, locals, verdict, reported>>

\* Mutant: the record is written in place.
CreateTmpInPlace(p) ==
  /\ pc[p] = "createTmp"
  /\ record' = Empty
  /\ fd' = [fd EXCEPT ![p] = "record"]
  /\ Goto(p, "writeTmp")
  /\ UNCHANGED <<privKey, tmp, cmd, issuer, key, view, verdict, reported>>

\* fs::write(bootstrap.json.tmp): create or truncate...
CreateTmp(p) ==
  /\ pc[p] = "createTmp"
  /\ tmp' = Empty
  /\ fd' = [fd EXCEPT ![p] = "tmp"]
  /\ Goto(p, "writeTmp")
  /\ UNCHANGED <<privKey, record, cmd, issuer, key, view, verdict, reported>>

\* ... then write.  The open file is the one p created or truncated, under
\* whatever name it has by now.
WriteTmp(p) ==
  /\ pc[p] = "writeTmp"
  /\ \/ /\ fd[p] = "tmp"
        /\ tmp' \in Overlay(tmp, RecordOf(p))
        /\ UNCHANGED record
     \/ /\ fd[p] = "record"
        /\ record' \in Overlay(record, RecordOf(p))
        /\ UNCHANGED tmp
     \/ /\ fd[p] = "unlinked"
        /\ UNCHANGED <<tmp, record>>
  /\ fd' = [fd EXCEPT ![p] = "closed"]
  /\ Goto(p, "rename")
  /\ UNCHANGED <<privKey, cmd, issuer, key, view, verdict, reported>>

\* fs::rename(bootstrap.json.tmp, bootstrap.json): descriptors follow the file.
Rename(p) ==
  /\ pc[p] = "rename"
  /\ tmp # Absent
  /\ record' = tmp
  /\ tmp' = Absent
  /\ fd' = [q \in Procs |-> IF fd[q] = "tmp" THEN "record"
                            ELSE IF fd[q] = "record" THEN "unlinked" ELSE fd[q]]
  /\ Goto(p, "load")
  /\ UNCHANGED <<privKey, cmd, issuer, key, view, verdict, reported>>

\* The temporary file is gone: another process renamed it first.
RenameFails(p) ==
  /\ pc[p] = "rename"
  /\ tmp = Absent
  /\ Goto(p, "down")
  /\ Forget(p)
  /\ UNCHANGED <<disk, cmd, verdict, reported>>

\* load_bootstrap_response: `bootstrap` prints the record and exits, `serve` goes on.
Load(p) ==
  /\ pc[p] = "load"
  /\ record \in Record
  /\ IF cmd[p] = "serve"
     THEN Goto(p, "bind") /\ UNCHANGED reported
     ELSE Goto(p, "down") /\ reported' = reported \cup {record}
  /\ Forget(p)
  /\ UNCHANGED <<disk, cmd, verdict>>

LoadFails(p) ==
  /\ pc[p] = "load"
  /\ record \notin Record
  /\ Goto(p, "down")
  /\ Forget(p)
  /\ UNCHANGED <<disk, cmd, verdict, reported>>

\* server::run binds the listener; if the address is taken, the process ends (Abort).
Bind(p) ==
  /\ pc[p] = "bind"
  /\ Goto(p, "serving")
  /\ UNCHANGED <<disk, cmd, locals, verdict, reported>>

\* GET /bootstrap on a serving process reads the record anew.
GetBootstrap(p) ==
  /\ pc[p] = "serving"
  /\ record \in Record
  /\ reported' = reported \cup {record}
  /\ UNCHANGED <<disk, pc, cmd, locals, verdict>>

-----------------------------------------------------------------------------
(***************************************************************************)
(* `reth-tdx check`: read-only, and it may overlap anything                *)
(***************************************************************************)
\* The daemon has answered its metadata, or the check has failed (Abort).
PingAttestation(p) ==
  /\ pc[p] = "ping"
  /\ Goto(p, "probe")
  /\ UNCHANGED <<disk, cmd, locals, verdict, reported>>

\* The L2 node has answered within 5 s, or the check has failed (Abort).
ProbeL2(p) ==
  /\ pc[p] = "probe"
  /\ Goto(p, "checkExists")
  /\ UNCHANGED <<disk, cmd, locals, verdict, reported>>

Conclude(p, v) ==
  /\ verdict' = [verdict EXCEPT ![p] = v]
  /\ Goto(p, "down")
  /\ Forget(p)

CheckExists(p) ==
  /\ pc[p] = "checkExists"
  /\ IF BootstrapExists
     THEN Goto(p, "checkRecord") /\ UNCHANGED <<locals, verdict>>
     ELSE Conclude(p, "uninitialised")
  /\ UNCHANGED <<disk, cmd, reported>>

\* verify_disk_consistency reads the record first, the key second.
CheckReadRecord(p) ==
  /\ pc[p] = "checkRecord"
  /\ IF record \in Record
     THEN /\ view' = [view EXCEPT ![p] = record]
          /\ Goto(p, "checkKey")
          /\ UNCHANGED <<issuer, key, fd, verdict>>
     ELSE Conclude(p, "unreadable")
  /\ UNCHANGED <<disk, cmd, reported>>

CheckReadKey(p) ==
  /\ pc[p] = "checkKey"
  /\ Conclude(p, IF privKey \notin Keys
                 THEN "unreadable"
                 ELSE IF AddressFromPrivateKey(privKey) = view[p].publicKey
                      THEN "ok" ELSE "mismatch")
  /\ UNCHANGED <<disk, cmd, reported>>

-----------------------------------------------------------------------------
(***************************************************************************)
(* Failures                                                                *)
(***************************************************************************)
\* A process ends early: killed, a `?` on I/O, or the daemon down, in error or
\* past its socket timeout.  Every error of bootstrap() ends the process.
Abort(p) ==
  /\ pc[p] # "down"
  /\ Goto(p, "down")
  /\ Forget(p)
  /\ UNCHANGED <<disk, cmd, verdict, reported>>

-----------------------------------------------------------------------------
(***************************************************************************)
(* Specifications                                                          *)
(***************************************************************************)
\* What a started process does when nothing goes wrong around it.
Step(p) ==
  \/ TestExists(p) \/ FetchMetadata(p) \/ CreateKeyFile(p) \/ WriteKeyFile(p)
  \/ ReceiveQuote(p) \/ CreateTmp(p) \/ WriteTmp(p) \/ Rename(p)
  \/ RenameFails(p) \/ Load(p) \/ LoadFails(p) \/ Bind(p)
  \/ PingAttestation(p) \/ ProbeL2(p) \/ CheckExists(p) \/ CheckReadRecord(p) \/ CheckReadKey(p)

Fault(p) == Abort(p) \/ RejectIssuer(p)

Next ==
  \E p \in Procs :
    \/ \E c \in Commands : Start(p, c)
    \/ Step(p)
    \/ GetBootstrap(p)
    \/ Fault(p)

\* At most one process is inside bootstrap(): the deployment's promise, which the
\* code relies on and does not enforce.
Sole ==
  \A p, q \in Procs :
    pc[p] \in Bootstrapping /\ pc[q] \in Bootstrapping => p = q

SoleNext == Next /\ Sole'

\* Processes crash and restart, one bootstraps at a time.
SoleSpec == Init /\ [][SoleNext]_vars

\* Processes bootstrap as they please.
FreeSpec == Init /\ [][Next]_vars

-----------------------------------------------------------------------------
(***************************************************************************)
(* Safety                                                                  *)
(***************************************************************************)
\* A complete record is the record of the key on disk: the address it publishes,
\* and the address its quote attests, are the ones priv.key signs as.  This is
\* what `check` verifies and what GET /bootstrap lets a verifier rely on.
RecordHasItsKey ==
  record \in Record =>
    /\ privKey \in Keys
    /\ record.publicKey = AddressFromPrivateKey(privKey)
    /\ record.quote = record.publicKey

\* Whenever a record and a key are both on disk, the record is that key's, and its
\* quote attests that key.  Weaker than RecordHasItsKey, it is to hold even of what a
\* reset of the VM leaves (PowerLoss): nothing pairs the files of two bootstraps.
NeverMismatched ==
  record \in Record /\ privKey \in Keys =>
    /\ record.publicKey = AddressFromPrivateKey(privKey)
    /\ record.quote = record.publicKey

\* bootstrap.json is missing or complete, wherever a process died.
RecordIsWhole == record \in {Absent} \cup Record

\* Every record ever printed or served is still the one on disk, so the instance
\* an operator registers from it is the instance that signs.
ReportedStands == \A r \in reported : record = r

\* `check` never fails on a disk this program wrote, even while another process
\* is bootstrapping between its reads.
CheckIsSilent ==
  \A p \in Procs : verdict[p] \notin {"unreadable", "mismatch"}

\* `check` never takes the damage of a reset for a key that was exchanged: it may
\* find a file unreadable, and never finds a mismatch (PowerLoss).
ResetsAreNotTampering == \A p \in Procs : verdict[p] # "mismatch"

\* Once the record is complete no step touches it or the key: later runs reuse.
ProvisionedIsFinal == [][(record \in Record) => UNCHANGED <<record, privKey>>]_vars

NobodySetsOut ==
  \A p \in Procs : pc'[p] \in Provisioning => pc[p] \in Provisioning

\* However many bootstraps race, only those already past bootstrap_exists can
\* still replace the key or the record: nobody sets out to once a record is there.
LatecomersReuse == [][record # Absent => NobodySetsOut]_vars

\* Bootstrapping takes and reports one address, as ProverIdentity says.
Identity == INSTANCE ProverIdentity WITH
  NoAddress  <- None,
  identity   <- IF record \in Record THEN record.publicKey ELSE None,
  reportedAs <- {r.publicKey : r \in reported}

TakesOneIdentity == Identity!Spec

-----------------------------------------------------------------------------
(***************************************************************************)
(* What the documentation promises and FreeSpec does not keep               *)
(***************************************************************************)
Quiet == \A p \in Procs : pc[p] \notin Bootstrapping

\* README.md: "A TDX attestation quote binds that key".  With no bootstrap under
\* way, a serving process signs with the key its published quote attests.
ServedKeyIsAttested ==
  Quiet /\ (\E p \in Procs : pc[p] = "serving") /\ record \in Record /\ privKey \in Keys
    => record.quote = AddressFromPrivateKey(privKey)

\* persistence.rs, write_bootstrap: "a crash mid-write cannot leave a half-written
\* bootstrap.json that fails to parse on the next start".
NoHalfWrittenRecord == Quiet => record \notin {Empty, Garbled}
=============================================================================
