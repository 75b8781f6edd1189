---------------------------- MODULE SystemProofs ----------------------------
(***************************************************************************)
(* System, for any number of processes, keys, requests, blocks and resets. *)
(*                                                                         *)
(* The argument.  Seen by itself, the server of System is a Prover, so all *)
(* that is proved of Prover holds of it.  A process serves only when there *)
(* is a complete record, and then no step but a reset touches the key: a   *)
(* request's key stays the key on disk for as long as the request lives,   *)
(* and the record is that key's.                                           *)
(***************************************************************************)
EXTENDS System, PowerLossProofs

\* Server once more, with its theorems.
P == INSTANCE ForkProofs WITH
  Unreadable <- Garbled,
  keyFile    <- IF privKey \in Keys THEN privKey ELSE Garbled,
  pc         <- reqPc,
  key        <- reqKey

\* What ProverProofs assumes holds here.
LEMMA ServerConstants == P!ProverConstants
<1>1. P!Instances = Addresses
  BY DEF P!Instances, P!AddressFromPrivateKey, Addresses, AddressFromPrivateKey
<1>q. QED
  BY <1>1, SystemConstants, BootstrapConstants DEF P!ProverConstants

\* P and Server are one specification: clients can ask for the same,
LEMMA SameBatches == Server!Batches = P!Batches
<1>1. \A v, k : Server!SigningHash(v, k) = P!SigningHash(v, k)
  BY Zenon
     DEF Server!SigningHash, Server!ShastaAggregationOutput, Server!AddressFromPrivateKey,
         P!SigningHash, P!ShastaAggregationOutput, P!AddressFromPrivateKey
<1>2. \A p : Server!Inputs(p) = P!Inputs(p)
  BY <1>1, Zenon
     DEF Server!Inputs, Server!ComputedInputs, Server!KeyLoads, Server!HeaderAt,
         Server!ProposalCarryDataFromHeader,
         P!Inputs, P!ComputedInputs, P!KeyLoads, P!HeaderAt, P!ProposalCarryDataFromHeader
<1>3. \A h : Server!Proofs(h) = P!Proofs(h)
  BY Zenon
     DEF Server!Proofs, Server!SignMessage, Server!Instances, Server!ClientInstances,
         Server!AddressFromPrivateKey, P!Proofs, P!SignMessage, P!Instances,
         P!ClientInstances, P!AddressFromPrivateKey
<1>4. Server!SubProofs = P!SubProofs
  BY <1>2, <1>3 DEF Server!SubProofs, P!SubProofs
<1>q. QED
  BY <1>4, Zenon DEF Server!Batches, P!Batches

\* and it is served the same.
LEMMA SameServe ==
  ASSUME NEW r \in Requests, Server!Serve(r)
  PROVE  P!Serve(r)
BY SameBatches, Zenon
   DEF Server!Serve, Server!ProveShasta, Server!ProveShastaAggregate, Server!L2Answers,
       Server!Proceed, Server!Tdxs, Server!Cancel, Server!NoHeader, Server!SignProposal,
       Server!RebuildSub, Server!NotHex, Server!Combine, Server!TdxsIssues, Server!TdxsFails,
       Server!Free, Server!Accept, Server!Refuse, Server!Respond, Server!Goto, Server!world,
       Server!Current, Server!HeaderAt, Server!ValidatePayload,
       Server!ProposalCarryDataFromHeader, Server!SigningHash,
       Server!ShastaAggregationOutput, Server!AddressFromPrivateKey,
       Server!VerifySubProofs, Server!RecoverSigner, Server!SignedProof,
       Server!TdxProof, Server!SignMessage, Server!KeyLoads,
       Server!ResultOf, Server!HasCommitment, Server!Follows, Server!Cardinality,
       P!Serve, P!ProveShasta, P!ProveShastaAggregate, P!L2Answers,
       P!Proceed, P!Tdxs, P!Cancel, P!NoHeader, P!SignProposal,
       P!RebuildSub, P!NotHex, P!Combine, P!TdxsIssues, P!TdxsFails,
       P!Free, P!Accept, P!Refuse, P!Respond, P!Goto, P!world,
       P!Current, P!HeaderAt, P!ValidatePayload,
       P!ProposalCarryDataFromHeader, P!SigningHash,
       P!ShastaAggregationOutput, P!AddressFromPrivateKey,
       P!VerifySubProofs, P!RecoverSigner, P!SignedProof,
       P!TdxProof, P!SignMessage, P!KeyLoads,
       P!ResultOf, P!HasCommitment, P!Follows, P!Cardinality

LEMMA SameSpec == Server!Spec => P!Spec
<1>1. Server!Init => P!Init
  BY DEF Server!Init, P!Init
<1>2. [Server!Next]_(Server!vars) => [P!Next]_(P!vars)
  <2>1. CASE UNCHANGED Server!vars
    BY <2>1 DEF Server!vars, P!vars
  <2>2. ASSUME NEW r \in Requests, Server!Serve(r) PROVE P!Next
    BY <2>2, SameServe DEF P!Next
  <2>3. CASE Server!World
    BY <2>3 DEF Server!World, Server!Extend, Server!Unwind, Server!Disturb,
                P!Next, P!World, P!Extend, P!Unwind, P!Disturb
  <2>q. QED
    BY <2>1, <2>2, <2>3 DEF Server!Next
<1>q. QED
  BY <1>1, <1>2, PTL DEF Server!Spec, P!Spec

-----------------------------------------------------------------------------
\* Every step of the VM is a step of its server, or none of the server's business.
LEMMA StepServes ==
  ASSUME [SystemNext]_systemVars
  PROVE  [Server!Next]_(Server!vars)
<1>1. CASE UNCHANGED systemVars
  BY <1>1 DEF systemVars, powerVars, vars, serverVars, Server!vars
<1>2. CASE Run
  <2>1. Orphans \in SUBSET Requests
    BY DEF Orphans
  <2>q. QED
    BY <1>2, <2>1 DEF Run, Server!Next, Server!World
<1>3. ASSUME NEW p \in Procs, NEW r \in Requests, ServeRequest(p, r)
      PROVE  Server!Next
  BY <1>3 DEF ServeRequest, Server!Next
<1>4. CASE ChainMoves
  BY <1>4 DEF ChainMoves, Server!Next, Server!World
<1>5. CASE CommitJournal
  BY <1>5 DEF CommitJournal, Commit, vars, serverVars, Server!vars
<1>6. CASE Reset
  <2>1. Requests \in SUBSET Requests
    OBVIOUS
  <2>q. QED
    BY <1>6, <2>1 DEF Reset, Server!Next, Server!World
<1>q. QED
  BY <1>1, <1>2, <1>3, <1>4, <1>5, <1>6 DEF SystemNext

\* The server in the VM behaves as Prover says a server does: its key file, its
\* processes and its resets are no worse than what Prover allows for.
THEOREM SystemServes == SystemSpec => Server!Spec
<1>1. SystemInit => Server!Init
  BY DEF SystemInit
<1>q. QED
  BY <1>1, StepServes, PTL DEF SystemSpec, Server!Spec

LEMMA SystemProverInv == SystemSpec => []P!Inv
<1>1. P!Spec => []P!Inv
  BY ServerConstants, P!Invariance
<1>q. QED
  BY <1>1, SystemServes, SameSpec, PTL

\* What is proved of Prover is so of the server in the VM, with the key file that
\* bootstraps write, and processes and resets that end its requests.
THEOREM SystemProves ==
  SystemSpec => /\ []Server!ResultsVerify
                /\ []Server!AggregatesAreCovered
                /\ []Server!OneFork
                /\ Server!RequestsWindDown
<1>1. P!Spec => /\ []P!ResultsVerify /\ []P!AggregatesAreCovered /\ []P!OneFork
                /\ P!RequestsWindDown
  <2>1. P!Spec => []P!ResultsVerify
    BY ServerConstants, P!SpecResultsVerify
  <2>2. P!Spec => []P!AggregatesAreCovered
    BY ServerConstants, P!SpecAggregatesAreCovered
  <2>3. P!Spec => []P!OneFork
    BY ServerConstants, P!SpecOneFork
  <2>4. P!Spec => P!RequestsWindDown
    BY ServerConstants, P!SpecRequestsWindDown
  <2>q. QED
    BY <2>1, <2>2, <2>3, <2>4
<1>2. P!ResultsVerify => Server!ResultsVerify
  BY Zenon
     DEF P!ResultsVerify, P!ShastaAggregationOutput, P!RecoverSigner, P!HasCommitment,
         P!Follows, Server!ResultsVerify, Server!ShastaAggregationOutput,
         Server!RecoverSigner, Server!HasCommitment, Server!Follows
<1>3. P!AggregatesAreCovered => Server!AggregatesAreCovered
  BY Zenon DEF P!AggregatesAreCovered, P!Issued, Server!AggregatesAreCovered, Server!Issued
<1>4. P!OneFork => Server!OneFork
  BY Zenon DEF P!OneFork, Server!OneFork
<1>5. [\A r \in Requests :
         \/ reqPc[r] = "idle"
         \/ P!StepsLeft(r)' < P!StepsLeft(r)
         \/ UNCHANGED <<reqPc[r], subs[r], reqKey[r], header[r], carry[r]>>]_(P!vars)
      => [\A r \in Requests :
            \/ reqPc[r] = "idle"
            \/ Server!StepsLeft(r)' < Server!StepsLeft(r)
            \/ UNCHANGED <<reqPc[r], subs[r], reqKey[r], header[r], carry[r]>>]_(Server!vars)
  <2>1. \A r : /\ P!StepsLeft(r) = Server!StepsLeft(r)
               /\ P!StepsLeft(r)' = Server!StepsLeft(r)'
    BY Zenon DEF P!StepsLeft, P!StepsAt, Server!StepsLeft, Server!StepsAt
  <2>2. UNCHANGED P!vars => UNCHANGED Server!vars
    BY DEF P!vars, Server!vars
  <2>q. QED
    BY <2>1, <2>2, Zenon
<1>q. QED
  BY <1>1, <1>2, <1>3, <1>4, <1>5, SystemServes, SameSpec, PTL
     DEF P!RequestsWindDown, Server!RequestsWindDown

\* Nor does the server change what processes and resets do to the disk.
LEMMA SystemPowers == SystemSpec => PowerSpec
<1>1. SystemInit => PowerInit
  BY DEF SystemInit
<1>2. [SystemNext]_systemVars => [PowerNext]_powerVars
  BY DEF systemVars, SystemNext, Run, ServeRequest, ChainMoves, CommitJournal, Commit,
         Reset, PowerNext
<1>q. QED
  BY <1>1, <1>2, PTL DEF SystemSpec, PowerSpec

\* The files of two bootstraps are never paired, and no reset looks like tampering.
THEOREM SystemNeverMismatched == SystemSpec => []NeverMismatched
BY SystemPowers, PowerNeverMismatched, PTL

\* `check` never takes the damage of a reset for an exchanged key.
THEOREM SystemResetsAreNotTampering == SystemSpec => []ResetsAreNotTampering
BY SystemPowers, PowerResetsAreNotTampering, PTL

\* What has reached the disk once, no run and no reset of the VM replaces.
THEOREM SystemCommittedIsFinal == SystemSpec => CommittedIsFinal
BY SystemPowers, PowerCommittedIsFinal, PTL

-----------------------------------------------------------------------------
(***************************************************************************)
(* What a request holds.                                                   *)
(***************************************************************************)
\* A request lives with a process that serves, and its key is the key on disk.
Hosted ==
  /\ host   \in [Requests -> Procs \cup {None}]
  /\ reqPc  = [r \in Requests |-> reqPc[r]]
  /\ reqKey \in [Requests -> Keys \cup {None}]
  /\ \A r \in Requests :
       /\ host[r] \in Procs => pc[host[r]] = "serving"
       /\ host[r] = None => reqPc[r] = "idle"
       /\ reqPc[r] = "idle" => reqKey[r] = None
       /\ reqKey[r] \in Keys => reqKey[r] = privKey

SystemInv == PowerInv /\ Hosted

\* What serving a request can do to it, and to the results.
LEMMA RequestStep ==
  ASSUME Hosted, NEW r \in Requests, Server!Serve(r)
  PROVE  /\ \E l : reqPc' = [reqPc EXCEPT ![r] = l]
         /\ \E k \in {reqKey[r], None} \cup (Keys \cap {privKey}) :
              reqKey' = [reqKey EXCEPT ![r] = k]
         /\ reqPc'[r] = "idle" => reqKey'[r] = None
         /\ \/ results' = results
            \/ reqPc[r] = "quote" /\ results' = results \cup {Server!ResultOf(r)}
<1> USE DEF Hosted, Server!Free, Server!Accept, Server!Refuse, Server!Respond, Server!Goto
<1>1. CASE Server!ProveShasta(r)
  <2>1. /\ reqPc' = [reqPc EXCEPT ![r] = "fetch"] /\ results' = results
        /\ reqKey' = [reqKey EXCEPT ![r] = reqKey[r]]
    BY <1>1 DEF Server!ProveShasta
  <2>q. QED
    BY <2>1
<1>2. CASE Server!ProveShastaAggregate(r)
  BY <1>2, BootstrapConstants DEF Server!ProveShastaAggregate, Server!KeyLoads
<1>3. CASE Server!L2Answers(r)
  <2>1. /\ reqPc' = [reqPc EXCEPT ![r] = "fetched"] /\ results' = results
        /\ reqKey' = [reqKey EXCEPT ![r] = reqKey[r]]
    BY <1>3 DEF Server!L2Answers
  <2>q. QED
    BY <2>1
<1>4. CASE Server!Refuse(r)
  <2>1. /\ reqPc' = [reqPc EXCEPT ![r] = "idle"] /\ results' = results
        /\ reqKey' = [reqKey EXCEPT ![r] = None]
    BY <1>4
  <2>q. QED
    BY <2>1
<1>5. CASE Server!SignProposal(r)
  BY <1>5, BootstrapConstants DEF Server!SignProposal, Server!KeyLoads
<1>6. CASE Server!RebuildSub(r)
  BY <1>6 DEF Server!RebuildSub
<1>7. CASE Server!Combine(r)
  BY <1>7 DEF Server!Combine
<1>8. CASE Server!TdxsIssues(r)
  BY <1>8 DEF Server!TdxsIssues
<1>q. QED
  BY <1>1, <1>2, <1>3, <1>4, <1>5, <1>6, <1>7, <1>8
     DEF Server!Serve, Server!Proceed, Server!Tdxs, Server!NoHeader, Server!NotHex,
         Server!TdxsFails, Server!Cancel

LEMMA RunHosted ==
  ASSUME SystemInv, Run
  PROVE  Hosted'
<1>1. /\ Orphans \subseteq Requests
      /\ host' = [r \in Requests |-> IF r \in Orphans THEN None ELSE host[r]]
      /\ reqPc' = [r \in Requests |-> IF r \in Orphans THEN "idle" ELSE reqPc[r]]
      /\ reqKey' = [r \in Requests |-> IF r \in Orphans THEN None ELSE reqKey[r]]
  BY DEF Run, Orphans, Server!Disturb
<1>2. ASSUME NEW r \in Requests, r \notin Orphans, host[r] \in Procs
      PROVE  pc'[host[r]] = "serving" /\ privKey' = privKey
  <2>1. record \in Record
    BY <1>2 DEF SystemInv, Hosted, PowerInv, SafeInv, ReadersHoldIt
  <2>q. QED
    BY <1>2, <2>1, StepKeepsIdentity DEF SystemInv, PowerInv, Run, ProcessStep, Orphans
<1>3. ASSUME NEW r \in Requests
      PROVE  /\ host'[r] \in Procs => pc'[host'[r]] = "serving"
             /\ host'[r] = None => reqPc'[r] = "idle"
             /\ reqPc'[r] = "idle" => reqKey'[r] = None
             /\ reqKey'[r] \in Keys => reqKey'[r] = privKey'
  BY <1>1, <1>2, SystemConstants, BootstrapConstants DEF SystemInv, Hosted
<1>q. QED
  BY <1>1, <1>3 DEF SystemInv, Hosted

LEMMA ServeRequestHosted ==
  ASSUME SystemInv, NEW p \in Procs, NEW r \in Requests, ServeRequest(p, r)
  PROVE  Hosted'
<1>1. /\ \E l : reqPc' = [reqPc EXCEPT ![r] = l]
      /\ \E k \in {reqKey[r], None} \cup (Keys \cap {privKey}) :
           reqKey' = [reqKey EXCEPT ![r] = k]
      /\ reqPc'[r] = "idle" => reqKey'[r] = None
  BY RequestStep DEF SystemInv, ServeRequest
<1>2. /\ pc' = pc /\ privKey' = privKey /\ pc[p] = "serving"
      /\ host' = [host EXCEPT ![r] = IF reqPc'[r] = "idle" THEN None ELSE p]
  BY DEF ServeRequest, powerVars, vars
<1>q. QED
  BY <1>1, <1>2, SystemConstants, BootstrapConstants DEF SystemInv, Hosted

LEMMA SystemNextInv ==
  ASSUME SystemInv, [SystemNext]_systemVars
  PROVE  SystemInv'
<1>1. PowerInv'
  <2>1. [PowerNext]_powerVars
    BY DEF systemVars, SystemNext, Run, ServeRequest, ChainMoves, CommitJournal, Commit,
           Reset, PowerNext
  <2>q. QED
    BY <2>1, PowerNextInv DEF SystemInv
<1>2. Hosted'
  <2>1. CASE Reset
    BY <2>1, SystemConstants, BootstrapConstants DEF Reset, Server!Disturb, Hosted
  <2>2. CASE ChainMoves \/ CommitJournal \/ UNCHANGED systemVars
    BY <2>2 DEF ChainMoves, Server!Extend, Server!Unwind, CommitJournal, Commit, systemVars,
                powerVars, vars, serverVars, SystemInv, Hosted
  <2>q. QED
    BY <2>1, <2>2, RunHosted, ServeRequestHosted DEF SystemNext
<1>q. QED
  BY <1>1, <1>2 DEF SystemInv

LEMMA SystemInvariance == SystemSpec => []SystemInv
<1>1. SystemInit => SystemInv
  <2>1. SystemInit => Hosted
    BY SystemConstants, BootstrapConstants DEF SystemInit, Server!Init, Hosted
  <2>q. QED
    BY <2>1, PowerInitInv DEF SystemInit, SystemInv
<1>q. QED
  BY <1>1, SystemNextInv, PTL DEF SystemSpec

-----------------------------------------------------------------------------
(***************************************************************************)
(* Whose results they are.                                                 *)
(***************************************************************************)
\* A result that goes out is by the address in the record.
LEMMA ResultIsRegistered ==
  ASSUME SystemInv, P!Inv, NEW p \in Procs, NEW r \in Requests, ServeRequest(p, r),
         reqPc[r] = "quote"
  PROVE  /\ record \in Record
         /\ Server!ResultOf(r).instance = record.publicKey
         /\ Server!ResultOf(r).instance = record.quote
<1>1. record \in Record
  BY DEF ServeRequest, SystemInv, PowerInv, SafeInv, ReadersHoldIt
<1>2. reqKey[r] \in Keys
  BY DEF P!Inv, P!Signed
<1>3. privKey = reqKey[r]
  BY <1>2 DEF SystemInv, Hosted
<1>4. Server!ResultOf(r).instance = AddressFromPrivateKey(privKey)
  BY <1>3 DEF Server!ResultOf, Server!AddressFromPrivateKey, AddressFromPrivateKey
<1>q. QED
  BY <1>1, <1>2, <1>3, <1>4 DEF SystemInv, PowerInv, SafeInv, NeverMismatched

LEMMA NewResults ==
  ASSUME SystemInv, P!Inv, [SystemNext]_systemVars
  PROVE  \/ results' = results
         \/ \E r \in Requests :
              /\ results' = results \cup {Server!ResultOf(r)}
              /\ UNCHANGED powerVars
              /\ record \in Record
              /\ Server!ResultOf(r).instance = record.publicKey
              /\ Server!ResultOf(r).instance = record.quote
<1>1. ASSUME NEW p \in Procs, NEW r \in Requests, ServeRequest(p, r), results' # results
      PROVE  /\ results' = results \cup {Server!ResultOf(r)}
             /\ UNCHANGED powerVars
             /\ record \in Record
             /\ Server!ResultOf(r).instance = record.publicKey
             /\ Server!ResultOf(r).instance = record.quote
  BY <1>1, RequestStep, ResultIsRegistered DEF SystemInv, ServeRequest
<1>2. CASE Run \/ ChainMoves \/ CommitJournal \/ Reset \/ UNCHANGED systemVars
  BY <1>2 DEF Run, ChainMoves, CommitJournal, Reset, Server!Disturb, Server!Extend,
              Server!Unwind, serverVars, systemVars
<1>q. QED
  BY <1>1, <1>2 DEF SystemNext

\* Every result is by the address in the record on disk, which its quote attests.
THEOREM SystemResultsAreRegistered == SystemSpec => ResultsAreRegistered
<1>1. SystemInv /\ P!Inv /\ [SystemNext]_systemVars
        => [\A res \in results' \ results :
              /\ record \in Record
              /\ res.instance = record.publicKey
              /\ res.instance = record.quote]_systemVars
  BY NewResults
<1>q. QED
  BY <1>1, SystemInvariance, SystemProverInv, PTL DEF SystemSpec, ResultsAreRegistered

LEMMA ResetsCounted == SystemSpec => [](resetsLeft \in Nat)
<1>1. SystemInit => resetsLeft \in Nat
  BY PowerLossConstants DEF SystemInit, PowerInit
<1>2. resetsLeft \in Nat /\ [SystemNext]_systemVars => (resetsLeft \in Nat)'
  BY DEF systemVars, powerVars, storage, SystemNext, Run, ProcessStep, ServeRequest,
         ChainMoves, CommitJournal, Commit, Reset, PowerReset
<1>q. QED
  BY <1>1, <1>2, PTL DEF SystemSpec

\* While no reset has happened, the invariant of Bootstrap holds in full, and all
\* results are by the address of the record.
Unbroken ==
  /\ resetsLeft \in Nat /\ resetsLeft <= MaxResets
  /\ resetsLeft = MaxResets =>
       /\ Inv
       /\ \A res \in results : record \in Record /\ res.instance = record.publicKey

LEMMA UnbrokenStep ==
  ASSUME SystemInv, P!Inv, Unbroken, [SystemNext]_systemVars
  PROVE  Unbroken'
<1>1. CASE Reset
  <2>1. resetsLeft > 0 /\ resetsLeft' = resetsLeft - 1
    BY <1>1 DEF Reset, PowerReset
  <2>2. /\ resetsLeft \in Nat /\ resetsLeft <= MaxResets /\ MaxResets \in Nat
    BY PowerLossConstants DEF Unbroken
  <2>3. resetsLeft' \in Nat /\ resetsLeft' < MaxResets
    BY <2>1, <2>2
  <2>q. QED
    BY <2>2, <2>3 DEF Unbroken
<1>2. CASE ~ Reset
  <2>1. resetsLeft' = resetsLeft /\ [SoleNext]_vars
    BY <1>2 DEF systemVars, SystemNext, Run, ProcessStep, ServeRequest, ChainMoves,
                CommitJournal, Commit, powerVars, storage
  <2>2. Inv => Inv'
    BY <2>1, NextInv
  <2>3. record \in Record => record' = record
    BY <2>1, StepKeepsIdentity DEF SystemInv, PowerInv, vars
  <2>4. \/ results' = results
        \/ /\ record' = record /\ record \in Record
           /\ \A res \in results' \ results : res.instance = record.publicKey
    BY NewResults DEF powerVars, vars
  <2>q. QED
    BY <2>1, <2>2, <2>3, <2>4 DEF Unbroken
<1>q. QED
  BY <1>1, <1>2

\* Until a reset all results there are, and all records reported, are one prover's.
THEOREM SystemOneProverUntilReset == SystemSpec => []OneProverUntilReset
<1>1. SystemInit => Unbroken
  BY InitInv, PowerLossConstants DEF SystemInit, PowerInit, Server!Init, Unbroken
<1>2. Unbroken => OneProverUntilReset
  BY DEF Unbroken, OneProverUntilReset, Inv
<1>q. QED
  BY <1>1, <1>2, UnbrokenStep, SystemInvariance, SystemProverInv, PTL DEF SystemSpec

\* With resets: from when the record has reached the disk, whatever is handed out is
\* by its address, for good.
THEOREM SystemCommittedSigns ==
  ASSUME NEW r
  PROVE  SystemSpec =>
           [](Committed /\ record = r =>
                [][\A res \in results' \ results : res.instance = r.publicKey]_systemVars)
<1>1. Committed /\ record = r /\ [Committed => UNCHANGED <<record, privKey, durable.record, durable.privKey>>]_powerVars
        => (Committed /\ record = r)'
  BY DEF Committed, powerVars, storage, vars
<1>2. Committed /\ record = r
      /\ [\A res \in results' \ results :
           /\ record \in Record
           /\ res.instance = record.publicKey
           /\ res.instance = record.quote]_systemVars
      => [\A res \in results' \ results : res.instance = r.publicKey]_systemVars
  OBVIOUS
<1>q. QED
  BY <1>1, <1>2, SystemCommittedIsFinal, SystemResultsAreRegistered, PTL
     DEF CommittedIsFinal, ResultsAreRegistered
-----------------------------------------------------------------------------
(***************************************************************************)
(* System implements AttestedProver: completing the record takes the       *)
(* address, printing or serving it reports it, handing out a result issues *)
(* a proof, and a reset, which is counted, can lose the address.           *)
(***************************************************************************)
\* Where powerVars stand still, so does what the mapping shows of the VM.
LEMMA SameIdentity ==
  ASSUME UNCHANGED powerVars
  PROVE  identityOf' = identityOf /\ reportedOf' = reportedOf /\ resetsLeft' = resetsLeft
BY DEF powerVars, storage, vars, identityOf, reportedOf

\* A process takes or reports the address, or does neither; no result goes out.
LEMMA RunAttests ==
  ASSUME SystemInv, Run
  PROVE  Attested!TakeOrReport \/ UNCHANGED Attested!proverVars
<1>1. Server!Issued' = Server!Issued /\ resetsLeft' = resetsLeft
  BY DEF Run, ProcessStep, Server!Disturb, Server!Issued
<1>2. Identity!Next \/ (identityOf' = identityOf /\ reportedOf' = reportedOf)
  BY StepRefines DEF SystemInv, PowerInv, Run, ProcessStep
<1>3. Identity!Next => Attested!Taken!Next
  BY DEF Identity!Next, Identity!Adopt, Identity!Report,
         Attested!Taken!Next, Attested!Taken!Adopt, Attested!Taken!Report
<1>q. QED
  BY <1>1, <1>2, <1>3
     DEF Attested!TakeOrReport, Attested!proverVars, identityOf, reportedOf

\* A request issues one proof as the address in the record, or none.
LEMMA ServeAttests ==
  ASSUME SystemInv, P!Inv, NEW p \in Procs, NEW r \in Requests, ServeRequest(p, r)
  PROVE  Attested!IssueAsTaken \/ UNCHANGED Attested!proverVars
<1>1. UNCHANGED powerVars
  BY DEF ServeRequest
<1>2. P!Service!Issue \/ P!Issued' = P!Issued
  <2>1. P!Next
    BY SameServe DEF ServeRequest, P!Next
  <2>q. QED
    BY <2>1, ServerConstants, P!StepIssues
<1>3. P!Issued = Server!Issued /\ P!Issued' = Server!Issued'
  BY DEF P!Issued, Server!Issued
<1>4. P!Service!Issue => Attested!Issue
  BY <1>3 DEF P!Service!Issue, P!Service!HasCommitment, P!Service!Follows,
              P!Service!Covered, Attested!Issue, Attested!HasCommitment,
              Attested!Follows, Attested!Covered
<1>5. ASSUME NEW s \in Server!Issued' \ Server!Issued
      PROVE  identityOf # None /\ s.instance = identityOf
  <2>1. PICK res \in results' \ results : s = [instance |-> res.instance, vec |-> res.vec]
    BY <1>5 DEF Server!Issued
  <2>2. record \in Record /\ res.instance = record.publicKey
    BY <2>1, NewResults DEF SystemNext
  <2>3. record.publicKey \in Addresses
    BY <2>2 DEF Record
  <2>q. QED
    BY <2>1, <2>2, <2>3, BootstrapConstants DEF identityOf
<1>q. QED
  BY <1>1, <1>2, <1>3, <1>4, <1>5, SameIdentity
     DEF Attested!IssueAsTaken, Attested!proverVars, identityOf, reportedOf

\* A reset brings the record back or loses it, and is counted.
LEMMA ResetAttests ==
  ASSUME SystemInv, resetsLeft \in Nat, Reset
  PROVE  Attested!Reset
<1>1. Server!Issued' = Server!Issued /\ reportedOf' = reportedOf
  BY DEF Reset, PowerReset, Server!Disturb, Server!Issued, reportedOf
<1>2. identityOf' = None \/ identityOf' = identityOf
  BY DEF Reset, PowerReset, SystemInv, PowerInv, DurableRecordStands, identityOf
<1>3. MaxResets - resetsLeft' = (MaxResets - resetsLeft) + 1
  BY PowerLossConstants DEF Reset, PowerReset
<1>q. QED
  BY <1>1, <1>2, <1>3 DEF Attested!Reset, identityOf, reportedOf

LEMMA StepAttests ==
  ASSUME SystemInv, P!Inv, resetsLeft \in Nat, [SystemNext]_systemVars
  PROVE  [Attested!ProverNext]_(Attested!proverVars)
<1>1. CASE Run
  BY <1>1, RunAttests DEF Attested!ProverNext
<1>2. ASSUME NEW p \in Procs, NEW r \in Requests, ServeRequest(p, r)
      PROVE  [Attested!ProverNext]_(Attested!proverVars)
  BY <1>2, ServeAttests DEF Attested!ProverNext
<1>3. CASE Reset
  BY <1>3, ResetAttests DEF Attested!ProverNext
<1>4. CASE ChainMoves \/ CommitJournal \/ UNCHANGED systemVars
  <2>1. UNCHANGED <<record, reported, results, resetsLeft>>
    BY <1>4 DEF ChainMoves, CommitJournal, Commit, systemVars, powerVars, storage, vars,
                serverVars,
                Server!Extend, Server!Unwind
  <2>q. QED
    BY <2>1 DEF Attested!proverVars, Server!Issued
<1>q. QED
  BY <1>1, <1>2, <1>3, <1>4 DEF SystemNext

\* The VM takes one address, reports it and no other, issues proofs as it and no
\* other and only as ProofService allows; a reset, and nothing else, can make it forget
\* the address.
THEOREM SystemIsAnAttestedProver == SystemSpec => ImplementsAttestedProver
<1>1. SystemInit => Attested!ProverInit
  <2>1. SystemInit => MaxResets - resetsLeft = 0
    BY PowerLossConstants DEF SystemInit, PowerInit
  <2>2. SystemInit => Attested!Taken!Init /\ Attested!NothingIssued
    BY BootstrapConstants
       DEF SystemInit, PowerInit, Init, Server!Init, Server!Issued, Attested!Taken!Init,
           Attested!NothingIssued
  <2>q. QED
    BY <2>1, <2>2, Zenon DEF Attested!ProverInit
<1>2. SystemInv /\ P!Inv /\ resetsLeft \in Nat /\ [SystemNext]_systemVars
        => [Attested!ProverNext]_(Attested!proverVars)
  BY StepAttests
<1>q. QED
  BY <1>1, <1>2, SystemInvariance, SystemProverInv, ResetsCounted, PTL
     DEF SystemSpec, ImplementsAttestedProver, Attested!ProverSpec
=============================================================================
