# A TLA+ model of reth-tdx

`reth-tdx` proves Shasta proposals from inside a TDX virtual machine: on first
boot it makes a signing key and has the `tdxs` daemon attest it; afterwards it
answers HTTP requests by fetching an L2 header from the Nethermind node next to
it, signing what the header and the caller's L1 data amount to, and having the
signing hash attested. This directory models that program, checks the models
with TLC on small instances, and proves the main results with TLAPS for all
sizes. Paths below are relative to the repository (`src/src/bootstrap.rs` is
written `bootstrap.rs`).

## 1. The system

| component | state | operations | talks to |
| --- | --- | --- | --- |
| `persistence.rs` | `secrets/priv.key`, `bootstrap.json`, `bootstrap.json.tmp` | `bootstrap_exists`, `generate_private_key`, `load_private_key`, `read_bootstrap`, `write_bootstrap`, `validate_issuer` | the file system |
| `bootstrap.rs` | locals of `bootstrap()` across its two awaits | `bootstrap`, `load_bootstrap_response`, `verify_disk_consistency`, `ping_attestation` | persistence, proof, attestation |
| `runtime.rs`, `main.rs` | the subcommand of a process | `bootstrap`, `check`, `serve` | bootstrap, l2_client, server |
| `server.rs` | `AppState` (configuration and L2 client; nothing mutable) | `GET /health`, `GET /bootstrap`, `POST /prove/shasta`, `POST /prove/shasta-aggregate` | bootstrap, proposal, aggregation |
| `proposal.rs` | locals of `sign_proposal` across its two awaits | `sign_proposal`, `validate_payload`, `proposal_carry_data_from_header` | l2_client, persistence, proof, raiko2 |
| `aggregation.rs` | locals of `sign_aggregation` across N + 1 awaits | `sign_aggregation` | l2_client, persistence, proof, raiko2 |
| `proof.rs`, `signature.rs` | none | `prove`, `prove_shasta_aggregation`, `verify_sub_proofs`, `sign_message`, `recover_signer` | attestation |
| `l2_client.rs` | none; the chain is the node's | `fetch_block_header`, `probe` | Nethermind |
| `attestation.rs` | a socket and a blocking thread per call | `issue_attestation`, `metadata` | the tdxs daemon |
| `protocol.rs`, `config.rs` | none | types | |
| raiko2 (external) | none | continuity of carry data, commitment, aggregation hash | |

The program holds no lock and no shared mutable memory. What its tasks and
processes share is outside of it: the files, the L2 chain, the daemon. That is
where the hard behaviour is:

* **Processes.** `bootstrap` and `serve` both bootstrap and may overlap, `check`
  may overlap either, and each may die between two system calls. The key file
  is truncated, then written; the record is written to a temporary file with a
  fixed name, then renamed; nothing is synced.
* **Awaits.** A request reads the key file once, but before (aggregation) or
  after (proposal) it waits for headers, which come one by one from a node that
  reorgs; a client may hang up at any await, and the process may die there.
* **Resets.** The VM may be reset. Nothing was synced, so what comes back of the
  key, the temporary file and the record is for the kernel and its file system
  to say, each file by itself.
* **Callers.** Sub-proofs come back in any combination of payload, hash and
  proof: stale, repeated, mixed up, of another instance, signed with a caller's own
  key, not proofs at all.
* **The daemon.** It may be down, answer in part, fall silent, trickle. Its
  exchanges run on threads that cannot be cancelled.

What makes each part correct: bootstrapping takes one identity, pairs every
record with the key on disk, recovers from any crash and never changes what it
has reported; a reset of the VM may lose that identity, and may not mix it with
another. Proving returns only results that verify, aggregates only what the same
instance has signed, only along one fork, and answers as long as the node and the
daemon do. The daemon's client never uses half an answer, and gives its threads back
unless the daemon trickles or stops accepting. Together: whatever goes out is by
the instance that is registered.

## 2. The modules

| module | what it is |
| --- | --- |
| `ProverIdentity` | abstract: one address is adopted, once, and only it is reported |
| `Bootstrap` | the disk and any number of processes, one action per system call or await |
| `BootstrapLiveness` | `Bootstrap` under a service unit, with a budget of faults |
| `BootstrapProofs` | theorems about `Bootstrap` |
| `BootstrapLivenessProofs` | theorems about `BootstrapLiveness` |
| `PowerLoss` | `Bootstrap` on a VM that may be reset, on a disk nobody syncs |
| `PowerLossProofs` | theorems about `PowerLoss` |
| `ShastaCommitment` | what is used of raiko2 (external) |
| `ProofService` | abstract: what may be issued, given what has been |
| `Prover` | the two prove endpoints, the L2 chain and the key file |
| `ProverProofs`, `ForkProofs` | theorems about `Prover` |
| `AttestedProver` | abstract: `ProverIdentity` and `ProofService` joined, and resets that may lose the identity |
| `System` | `PowerLoss`, and `Prover` in each process that serves |
| `SystemProofs` | theorems about `System` |
| `AttestationService` | abstract: whom a call to the daemon may answer, and with what |
| `TdxsClient` | the exchange with the daemon, on the blocking pool |
| `TdxsClientProofs` | theorems about `TdxsClient` |
| `MCBootstrap`, `MCBootstrapLiveness`, `MCPowerLoss`, `MCProver`, `MCSystem`, `MCTdxsClient` | instances for TLC |

`BootstrapLiveness` and `PowerLoss` extend `Bootstrap`, and `System` extends `PowerLoss` and
instantiates `Prover`. `Bootstrap` implements `ProverIdentity`, `Prover` implements
`ProofService`, `System` implements `AttestedProver`, which is made of the two, and
`TdxsClient` implements `AttestationService`. `Bootstrap` and `Prover` see of `TdxsClient` its outcome, a document or an error.

Operators marked `Mutant:` are wrong variants of the definition after them; no
specification uses them. Putting one in place of its definition makes TLC report
the property it is listed with in `PROJECT.json`.

### Bootstrap

`privKey`, `tmp`, `record` are the three files; a file is `Absent`, `Empty`
(created or truncated), `Garbled` (not JSON) or its content. `pc[p]` says where a
process is, `cmd[p]` which subcommand it runs; `issuer`, `key`, `fd`, `view` are
its locals, `reported` every record printed or served.

| action | code |
| --- | --- |
| `Start` | `main` |
| `TestExists`, `FetchMetadata`, `RejectIssuer` | `bootstrap.rs:32-42`, `validate_issuer` |
| `CreateKeyFile`, `WriteKeyFile` | `generate_private_key`, the open and the write of `save_private_key` |
| `ReceiveQuote` | `generate_tdx_quote_from_public_key` |
| `CreateTmp`, `WriteTmp`, `Rename`, `RenameFails` | `write_bootstrap`; `fs::write` is two system calls |
| `Load`, `LoadFails` | `load_bootstrap_response` |
| `Bind`, `GetBootstrap` | `server::run` up to the listener, `bootstrap_handler` |
| `PingAttestation`, `ProbeL2`, `CheckExists`, `CheckReadRecord`, `CheckReadKey` | `runtime::check`, `ping_attestation`, `L2Client::probe`, `verify_disk_consistency` |
| `Abort` | a kill, or any `?`: all errors of `bootstrap()` end the process |

Two specifications differ in what may happen: `SoleSpec` (one process inside
`bootstrap()` at a time; the others check or serve, and all may die) and
`FreeSpec` (any overlap). Two processes may serve together: the address to bind
is an option, and the one that finds it taken aborts. The open file follows a
rename, as a descriptor does. Writers that share a file may leave the end of
the longer text behind (`Overlay`).

Left out: nonce and metadata of a record; the path resolution; file modes;
`write_all` in more than one write. `bootstrap_exists` is read in one step, which
is sound because nothing removes a file. A key that nothing refers to any more
may be drawn again.

### PowerLoss

The same processes, under `Sole`, on a disk with a memory of its own: `durable` is
the content a reset would bring back for each of the three files, `dirty` the
files with data that has not reached the disk. `persistence.rs` never syncs, so
when data gets there is external: `Commit` commits the names and sizes of all
files at once (the order of an ordered journal), and for a dirty file either its
content, or nothing, or the part of a record that was written (`Survivals`).
`ProcessStep` is a step of `Bootstrap` with what it does to `dirty` (`Track`: a
write dirties its file, a rename takes unwritten data along). `PowerReset` ends
all processes and puts `durable` back. A key that a reset could bring back is
not drawn again.

### Prover

`canon` is the canonical chain as a list of labels, one per block; the hash of a
block is the list up to it, and block 0, which the code does not refuse, has no
parent. `keyFile` is the key file. `pc[r]` is the await that
request `r` is at: `fetch` (asked for a header), `fetched` (the node has answered
but the task has not run yet), `combine`, `quote`. `subs`, `key`, `header`,
`carry` are its locals, `results` all results that went out.

| action | code |
| --- | --- |
| `ProveShasta` | `prove_shasta` up to the fetch |
| `ProveShastaAggregate` | `prove_shasta_aggregate`, `sign_aggregation` up to the first fetch |
| `L2Answers`, `NoHeader` | `fetch_block_header`; its errors |
| `SignProposal` | `sign_proposal` from the header to the request for a quote |
| `RebuildSub`, `NotHex` | one turn of the loop of `sign_aggregation`, and the deployment check of the next; its refusal of proof text that is not hex |
| `Combine` | `sign_aggregation` after the loop, `verify_sub_proofs`, the comparison of instances |
| `TdxsIssues`, `TdxsFails` | the end of `prove` and `prove_shasta_aggregation` |
| `Cancel` | the client is gone and the handler's future is dropped |
| `Extend`, `Unwind` | the node imports or unwinds blocks |
| `Disturb` | all that can happen outside the server: `save_private_key` of other processes, crashes, resets. The key file changes in any way, and any of the requests are lost with their process |

A request that is refused before its first await (schema, deployment, no key, an
empty batch) changes nothing and has no step. The text of a refusal is left out.
Hashing and signing are ideal: a hash is the value it is taken of, and a
signature recovers to its signer for the hash it was made over and to nobody for
any other. So the results assume that the commitment determines the carry data
it is built from, as the comment at `aggregation.rs:89-94` does; raiko2's source
is not in the repository. `transition` is taken as fixed by the proposal hash and
the state root as fixed by the block hash. Clients have the keys `ClientKeys` and
not the prover's. A sub-proof's payload is any; its hash one that was handed out or
computed for a block as it is now; its proof any address next to a signature that was
handed out or that a client's key has made of the sub-proof's hash (`Proofs`), or
`Malformed`: text that is not hex, which the loop refuses, or hex of the wrong size,
which `verify_sub_proofs` does. Left out are signatures of clients over other hashes
than the one they come with; they recover to nobody.

### System

`PowerLoss` and `Prover` in one state. `Prover` is instantiated with `keyFile` mapped
to what `privKey` holds (unreadable if that is no key), and `host[r]` is the
process that serves request `r`.

| action | what it is |
| --- | --- |
| `Run` | a step of some process; requests of a process that no longer serves are lost |
| `ServeRequest` | a step of a request inside a process that serves (`server::run`) |
| `ChainMoves`, `CommitJournal`, `Reset` | the node, the file system, the VM |

To `Prover`, `Run` and `Reset` are `Disturb` and `CommitJournal` is nothing, so all that
holds of `Prover` holds of the server in `System`. `AttestedProver` is what the whole promises: it joins the steps of
`ProverIdentity` and `ProofService`, demands that what is issued is issued as
the identity taken, and adds one step, `Reset`. It counts resets, and the mapping
takes the number from `resetsLeft`: so the identity can be lost where the VM is reset
and in no other step.

### TdxsClient

Each call has a `caller`, a `task` (none, queued, connect, send, read), a
`socket` as the daemon sees it, and `buf`, what has been read. A call that is
dropped leaves its task behind. `Period` is the end of 30 s of reading: it fails
if no byte came. `stale` counts connections that were given up before the daemon
accepted them and still fill its backlog. The pool serves its queue in order.

`AttestationService` is what the callers see of all that: a call is asked, answered
once or abandoned; the daemon's document is the one of this call, and is whole.
The mapping forgets threads, queue, sockets, backlog and periods, and keeps of the
buffer whether a whole answer is in it.

## 3. What is checked

Bounds are in the `.cfg` files. `p`, `k`: processes and keys.

| run | specification and bounds | properties |
| --- | --- | --- |
| `bootstrap_sole` | `SoleSpec`, 3 p, 4 k | `TypeOK`, `RecordHasItsKey`, `RecordIsWhole`, `ReportedStands`, `CheckIsSilent`, `ProvisionedIsFinal`, `TakesOneIdentity` |
| `bootstrap_race` | `FreeSpec`, 3 p, 4 k | `LatecomersReuse` |
| `bootstrap_live` | `LiveSpec`, 2 p, 3 k, 3 faults | `Recovers`, `OnlyFaultsSetBack` |
| `prover_reorg` | `Spec`, 1 request, 1 key, 2 labels, 2 blocks, batches of 2, 3 results | `AggregatesAreCovered`, `OneFork` |
| `prover_rotation` | `Spec`, 1 request, 2 keys and one of a client, 1 label, 1 block, batches of 2, 3 results, a payload for another chain, and the genesis block | `TypeOK`, `ResultsVerify`, `ImplementsService` |
| `prover_live` | `FairSpec`, 2 requests, 2 results | `AnsweredOrAtTheNode`, `RequestsWindDown` |
| `tdxs_drain` | `SteadySpec`, 3 calls, 2 threads, backlog 1 | `TypeOK`, `AnswersAreWhole`, `ImplementsAttestationService`, `CallsEnd` |
| `system` | `SystemSpec`, 2 p, 3 k, 1 reset, 1 request, 1 label, 1 block, batches of 1, 2 results | `NeverMismatched`, `ResetsAreNotTampering`, `OneProverUntilReset`, `ResultsAreRegistered`, `CommittedIsFinal`, `ImplementsAttestedProver` |

What they show:

* **One bootstrap at a time is safe against any crash of the process.** The
  record is missing or whole, it is always the record of the key on disk, what
  was reported stands, and `check`, whose three reads another process may split,
  raises no false alarm. `TakesOneIdentity` is the refinement: with the identity
  defined as the address in the complete record, `Bootstrap` implements
  `ProverIdentity`.
* **Any overlap** still keeps `LatecomersReuse`: who starts after the record is
  there does not replace anything. The damage below is limited to processes that
  were inside `bootstrap()` at the time.
* **Recovery.** Under a unit that restarts `serve`, whatever the faults left
  behind, the VM ends up serving with a consistent pair. It works because only
  the record, written last, makes a start skip the making of a key. On the way
  there no step but a fault sets the unit back (`OnlyFaultsSetBack`): no start of it
  fails for what an earlier crash left on disk, or for a `check` next to it.
* **Aggregation** never vouches for a block its sub-proofs do not cover, in
  spite of reorgs between the sub-proof and the batch and within the batch
  (`AggregatesAreCovered`), and the blocks of a result are on one fork although
  no snapshot of the chain is taken (`OneFork`: continuity of the carry data does
  it). Every result verifies by itself although the key file changes
  (`ResultsVerify`), and the server implements `ProofService`, also for clients that
  sign sub-proofs themselves: without the comparison at `proof.rs:188` it would not
  (the mutant `CombineForAnyone`).
* **A reset can cost the VM its record or its key, never make it another.** A
  reset can leave an empty key under a complete record (the server then answers
  `GET /bootstrap` and refuses to prove), or no record at all. It cannot leave a
  readable key next to a readable record of another (`NeverMismatched`), and
  `check` reports the damage as a file it cannot read, never as a key that was
  exchanged (`ResetsAreNotTampering`). Both rest on `bootstrap_exists` asking
  only whether the files are there: a start that made a damaged file again would
  break the two (that is one of the mutants).
* **The whole VM.** When a result goes out, the instance it names is the one of
  the record on disk, which `GET /bootstrap` reports and the quote attests,
  although the key was read before the awaits (`ResultsAreRegistered`). Until a reset
  that is one instance for all results of all its processes, and the one record
  ever reported (`OneProverUntilReset`). A reset can undo a bootstrap only as long
  as its record or its key has not reached the disk; from then on neither a run nor
  a reset replaces them (`CommittedIsFinal`). The VM implements `AttestedProver`.
* **Requests end, or wait for the L2 node**, which has no timeout, as long as the
  daemon ends its exchanges. It need not: `tdxs_wedge` shows daemons that hold an
  exchange for ever, and a request that waits for its quote then waits for ever too.
  `RequestsWindDown` is what holds with any daemon: `StepsLeft` counts the steps a
  request still has to take, two for each header, then the commitment and the quote.
  Each step it takes lowers that number and nothing else raises it, so it is never
  sent round in circles, and only a wait, for the node or the daemon, can last.
* **Calls to the daemon end** behind dropped calls and a silent or dying daemon that
  accepts connections and does not trickle, and a partial answer is never used. That a
  call is answered out of its own exchange holds by the shape of the model, where
  each call has its own slot, as each has its own socket in the code; what
  `ImplementsAttestationService` can catch is half an answer, a second answer, or a
  buffer that is used again.

Why the bounds are enough. In the runs of `Bootstrap`, three processes let two overlap while a third reads;
four keys are one for the disk, one for each writer, and one to draw. Two blocks
and two labels make the smallest reorg that changes both elements of a batch or
only the second; three results are two sub-proofs and their aggregation, and
also leave room for a stale sub-proof. Two keys are one rotation. One request is
enough for the safety of `Prover`: requests share only `results`, `canon` and
`keyFile`, and the world moves between any two steps of the one; the theorems
drop the bound. In `system` one process bootstraps while the other checks or serves;
three keys are the one on disk, the one a reset may bring back and one to draw; a
proposal is proved, then aggregated by the same or another server process, with
the reset before, between or after (the theorems cover resets that follow one on
the damage of another). A batch of one adds no statement to those issued, so this run
says nothing of the coverage of aggregations: that it survives a change of key
between the sub-proofs and the batch is checked in `prover_rotation`, and proved for
`System` with its resets (`SystemProves`, `SystemIsAnAttestedProver`). Batches of two
with two proposals would make the run several times too long. In `prover_reorg` and
`prover_live` no client has a key: they are about the chain and about progress. Three calls on two threads with a backlog of one make a call wait
for a thread and for the backlog. Symmetry is used in runs of safety properties
only.

### Disagreements with the documentation

These runs end in a counterexample; each checks one sentence of the repository.

| run | sentence | what happens |
| --- | --- | --- |
| `bootstrap_twokeys` | README: the quote binds the key | two bootstraps that overlap leave one's key and the other's record, and `serve` starts on it |
| `bootstrap_sharedtmp` | `persistence.rs:166-168`: no half-written record after a crash | the temporary name is shared: one process renames what another has just truncated |
| `bootstrap_power` | the same | the rename is not preceded by a sync, so a VM reset can leave an empty record; a crash of the process alone cannot. The run is of `PowerSpec`, with one reset |
| `tdxs_wedge` | `attestation.rs:14-16`: a wedged daemon cannot hold a thread indefinitely | it can, in `connect`, or by sending a byte in every period |

The README, `protocol.rs:94`, `:128` and `proposal.rs:25` call a proof 89 bytes; it has
85 (`proof.rs:17`). No run is about that: it is a constant.

### Fairness

* `LiveSpec`: the unit restarts the process (`Restart=` of a service unit), and
  the process's next system call returns. Faults are not assumed away but
  bounded, so the claim is about the time after the last one. Nothing is assumed
  of operators, who may run `check` for ever, or of clients.
* `FairSpec`: tokio runs tasks that are ready, and a request for a quote ends.
  The second half is an assumption about the daemon: `tdxs_drain` shows it for one that
  accepts and does not trickle, `tdxs_wedge` that it fails for others. The node is not
  assumed to answer.
* `SteadySpec`: threads run and time passes; the daemon accepts while it is up,
  the kernel lets in those that wait for the backlog in turn, and a daemon that
  goes on sending comes to an end. It may be silent, and die as often as it
  likes. `ClientSpec` drops all that concerns the daemon.

## 4. What is proved

| theorem | says |
| --- | --- |
| `SoleTypeOK`, `SoleRecordHasItsKey`, `SoleRecordIsWhole`, `SoleReportedStands`, `SoleCheckIsSilent` | the invariants of `bootstrap_sole` |
| `SoleProvisionedIsFinal` | its action property |
| `SoleTakesOneIdentity` | its refinement |
| `FreeLatecomersReuse` | `LatecomersReuse`, with no assumption on overlap |
| `FreeSettledIsFinal` | the key and the record a race of bootstraps leaves, once nobody provisions any more, stay for good, matching or not |
| `LiveIsSole` | a VM under the service unit never has two processes bootstrap at once: `LiveSpec` implements `SoleSpec` |
| `LiveOnlyFaultsSetBack` | the action property of `bootstrap_live` |
| `LiveServingIsRecovered` | of `Recovers`, all but that the unit ends up serving |
| `PowerNeverMismatched`, `PowerResetsAreNotTampering`, `PowerCommittedIsFinal` | `NeverMismatched`, `ResetsAreNotTampering` and `CommittedIsFinal` of `PowerSpec` |
| `SpecResultsVerify`, `SpecAggregatesAreCovered`, `SpecOneFork`, `SpecTypeOK` (`ForkProofs`) | the invariants of `Prover` |
| `SpecImplementsService` | its refinement |
| `SpecRequestsWindDown`, `SpecStepsLeftBounded` | the action property of `prover_live`; the steps left are at most two per element of the batch and two more |
| `SystemServes` | every behaviour of `System` is, seen from the server, one of `Prover` |
| `SystemProves` | so in `System` all results verify, aggregations are covered, blocks lie on one fork, requests wind down |
| `SystemNeverMismatched`, `SystemResetsAreNotTampering`, `SystemOneProverUntilReset` | the invariants of `system` |
| `SystemResultsAreRegistered`, `SystemCommittedIsFinal` | the action properties of `system` |
| `SystemCommittedSigns` | from when a record and its key have reached the disk, all that is handed out is by its address, for good |
| `SystemIsAnAttestedProver` | its refinement |
| `SpecAnswersAreWhole`, `SpecTypeOK` (`TdxsClientProofs`) | the invariants of `TdxsClient` |
| `SpecImplementsAttestationService` | its refinement |

They hold for any processes, keys, requests, payloads, chains and calls, from the
assumptions named in the modules (`BootstrapConstants`: the markers for missing
and broken files are not keys or records; `ProverConstants`: proposal ids are
naturals, `None` and `Unreadable` are no keys, clients do not have the prover's; `LivenessConstants`: the unit is a
process, `serve` and `check` are run; `PowerLossConstants`;
`SystemConstants`: `ProverConstants` for what `System` adds, and `None` is no process;
`TdxsConstants`).

*Bootstrap.* None of the invariants is inductive: that the record matches the key
at the rename depends on what the process holds. The strengthening has two
parts. `SafeInv` is what also a reset leaves; `Inv` adds what only holds while
there is none (the record is whole, what was reported stands). `SafeInv` says that
inside `bootstrap()` there is at most one process, that while it provisions there
is no record, that from `WriteKeyFile` on its key is the key on disk, that the
temporary file is the empty one it has open while it is to write it and its
record when it is to rename it, that it has no file open at any other step, and
that what `check` has in `view` is the record on disk. `FreeLatecomersReuse` needs
only that the key file comes before the record (`KeyFileFirst`). From the same fact
`FreeSettledIsFinal`: once there is a record and nobody is past `bootstrap_exists`,
nobody gets past it again, so the outcome of a race (`bootstrap_twokeys`) is not
repaired by any later run, nor is a good one spoilt.

*BootstrapLiveness.* The unit is the only process that runs `serve` and all others
check, so `Sole` need not be assumed: `LiveIsSole` derives it, and with it all
invariants of `Bootstrap`. `WayUp` orders the locations of `serve`. Each step of the
unit goes up in it because its failing branches (`RenameFails`, `LoadFails`) are shut:
its temporary file is in hand and whoever loads finds a record, which is in `Inv`.

*PowerLoss.* The journal commits names all at once, so a reset brings back the disk of
some moment with some files cut short. `PowerInv` is `SafeInv` and as much of it as
outlives that, said of `durable`: a key and a record in it belong together, there is
no record without a key file (`DurableIsSafe`), and a complete record in it is the
one on disk (`DurableRecordStands`). Each step of a process is a `SafeStep`, the
lemma of `BootstrapProofs`; what is left to prove is about `Commit` and `PowerReset`.
`CommittedIsFinal` needs one thing more (`InSync`): where a complete record and a key
have reached the disk, they are the files as they are, with no data left to write. A
commit cannot bring the two there from two moments, since it makes of each file
what it is now, or less; and nobody renames when there is a record, so nothing
makes either file dirty again.

*Prover.* `Inv` says what each await leaves true: a request that waits for a
header has passed the deployment check of that element (`Awaiting`); a batch has
its key, its signatures stem from results or are not by an instance of this prover,
and each element it has rebuilt hashes to the input of its sub-proof (`Rebuilding`); at `combine` all are rebuilt; at
`quote` the carry data has a commitment and, if it is a batch's, is covered
(`Signed`). The step that matters is `VerifiedIsIssued`: a signature that
recovers to the local instance over that input is not a client's, so it was handed out
in a result, whose hash is over exactly the element rebuilt, because hashes of different statements
differ. The key file does not appear after it has been read: that is why
rotation does no harm.

`OneFork` is about batches of any length, so it needs an induction over the carry
data. `ForkProofs` does it with a set in place of an operator: the distances from
the end at which a block is not an ancestor of the last one are a set of naturals,
which if not empty has a least element (`Least`, from the well-foundedness of `<`);
the block next to it is an ancestor, and continuity makes it one too. `ForkInv` says
that headers and carry data name a block of the height asked for and its parent,
if it has one.

`RequestsWindDown` rests on the lengths: a batch keeps its sub-proofs from the first
fetch to the last, a request that waits for a header still lacks one, and a turn
of the loop that goes on adds exactly one element of carry data.

*System.* `SystemServes` maps each step to a step of `Prover` or a stutter, so the
theorems about `Prover` come for free. `SystemInv` adds to `PowerInv` that a request
has a host that serves while it is not idle (`Hosted`), and that the key it has
loaded is the key on disk: as long as a process serves there is a complete record
(`ReadersHoldIt`), and with that no step of a process touches the key
(`StepKeepsIdentity`); a reset ends all requests. For `OneProverUntilReset` the full
`Inv` of `Bootstrap` is carried along as long as no reset has happened (`Unbroken`):
results are then added one by one with the address of a record that no longer
changes. `SystemCommittedSigns` joins `CommittedIsFinal` and `ResultsAreRegistered`.

*TdxsClient.* While an exchange is under way there is no answer (`Unanswered`), so
later bytes cannot spoil one. For `TypeOK` the queue holds each waiting call once,
and each step adds at most one element to the sets whose sizes are bounded. For the
refinement, a caller waits or is gone exactly while its exchange is under way
(`Attended`): the end of an exchange is the answer to the call that began it, or to
nobody.

Only model-checked: liveness (`Recovers`, `AnsweredOrAtTheNode`, `CallsEnd`), which
needs fairness and `ENABLED`, out of reach of the provers. The safety that these rest
on is proved: of `Recovers` there remains that the unit gets up in finitely many
steps up and `MaxFaults` down, of `AnsweredOrAtTheNode` that the scheduler, and the
daemon as far as it ends its exchanges, do not stop a request whose steps are numbered.
Every invariant, action property and refinement that a passing run checks is also
proved.

## 5. Not modelled

Logging, `/health`, argument parsing and serialisation (no state); the body limit;
byte layouts; elliptic curves and Keccak; the file modes and the directory (the
names of the directory and of `secrets/` are assumed to survive a reset with the
files in them); the on-chain verifier. `raiko2`, the daemon, the node, the kernel
and tokio are modelled as far as this code depends on them. The types of
`protocol.rs` and `config.rs` are records and constants of the models.

A disk on which the names of two files can be committed out of order, and
overlapping bootstraps with resets, are left out of `PowerLoss`: `FreeSpec` shows
the damage of overlap already.

## 6. Plan

*Done.* `Bootstrap`, its liveness and proofs; `Prover` and its proofs; `TdxsClient`, its
refinement of `AttestationService` and proofs; `PowerLoss`; the composition `System` and
the refinement of `AttestedProver`.

*Left.* Liveness of `System` (a request to a VM that has recovered is answered), which
needs a bound on resets and the fairness of both parts, and a much larger state
graph; what syncing before the rename would restore; `TdxsClient` in place of its
outcome inside `System`.
