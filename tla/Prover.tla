------------------------------- MODULE Prover -------------------------------
(***************************************************************************)
(* The proving server: POST /prove/shasta and POST /prove/shasta-aggregate *)
(* (server.rs, proposal.rs, aggregation.rs, proof.rs, l2_client.rs), from  *)
(* the request to the response.                                            *)
(*                                                                         *)
(* A request is a task that runs undisturbed between two awaits, and there *)
(* are two: the header it asks the L2 node for, and the quote it asks the  *)
(* tdxs daemon for.  While it waits, the node may reorg, the key file may  *)
(* change, the client may hang up, and the serving process may die.        *)
(*                                                                         *)
(* Abstractions.  An L1 payload keeps the deployment it is for, its        *)
(* proposal id, the two proposal hashes and the actual prover (`transition`*)
(* is part of what proposalHash names).  A block hash is the chain of fork *)
(* labels that leads to the block, so it fixes the state root.  Clients    *)
(* make up sub-proofs from what they were given, in any combination, and   *)
(* can sign with keys of their own, but not with the prover's.             *)
(***************************************************************************)
EXTENDS ShastaCommitment, FiniteSets

CONSTANTS
  Requests,    \* requests that can be served at the same time
  Payloads,    \* the L1 payloads clients send
  ChainId,     \* Config::l2_chain_id
  Verifier,    \* Config::verifier
  Keys,        \* private keys that can be in the key file
  ClientKeys,  \* private keys that clients have
  Labels,      \* what tells two blocks of the same parent apart
  MaxHeight,   \* bound: blocks of the L2 chain
  MaxBatch,    \* bound: sub-proofs of one aggregation request
  MaxResults,  \* bound: nothing more is accepted once that many results are out
  Malformed,   \* sub-proof text that is not hex or not TDX_PROOF_SIZE bytes
  Unreadable,  \* key file content: truncated, or no file
  None         \* nothing

AddressFromPrivateKey(k) == [account |-> k]

Instances == {AddressFromPrivateKey(k) : k \in Keys}

ClientInstances == {AddressFromPrivateKey(k) : k \in ClientKeys}

ASSUME ProverConstants ==
  /\ \A p \in Payloads : p.proposalId \in Nat
  /\ Unreadable \notin Keys
  /\ ClientKeys \cap Keys = {}
  /\ None \notin Keys \cup Instances
  /\ MaxHeight \in Nat /\ MaxBatch \in Nat /\ MaxResults \in Nat

VARIABLES
  canon,       \* the canonical L2 chain: its blocks' labels, from block 1
  keyFile,     \* secrets/priv.key
  pc,          \* where each request is
  kind,        \* the endpoint it was sent to
  subs,        \* its payloads, with the sub-proof each comes with if any
  key,         \* the private key it has loaded
  header,      \* the header it has received
  carry,       \* the carry data it has built so far
  results      \* every result returned to a client

\* What requests leave alone, and what they hold.
world == <<canon, keyFile>>
vars  == <<canon, keyFile, pc, kind, subs, key, header, carry, results>>

Locations == {"idle", "fetch", "fetched", "combine", "quote"}
Kinds     == {"prove", "aggregate"}

Init ==
  /\ canon   = <<>>
  /\ keyFile \in Keys \cup {Unreadable}
  /\ pc      = [r \in Requests |-> "idle"]
  /\ kind    = [r \in Requests |-> "prove"]
  /\ subs    = [r \in Requests |-> <<>>]
  /\ key     = [r \in Requests |-> None]
  /\ header  = [r \in Requests |-> None]
  /\ carry   = [r \in Requests |-> <<>>]
  /\ results = {}

-----------------------------------------------------------------------------
(***************************************************************************)
(* Data                                                                    *)
(***************************************************************************)
\* L2BlockHeader of block n. Block 0, the genesis block, has no parent.
HeaderAt(n) ==
  [number     |-> n,
   hash       |-> SubSeq(canon, 1, n),
   parentHash |-> IF n = 0 THEN None ELSE SubSeq(canon, 1, n - 1)]

\* The request's chain_id and verifier are the configured ones.
ValidatePayload(payload) ==
  payload.chainId = ChainId /\ payload.verifier = Verifier

ProposalCarryDataFromHeader(payload, h) ==
  [chainId            |-> payload.chainId,
   verifier           |-> payload.verifier,
   proposalId         |-> payload.proposalId,
   proposalHash       |-> payload.proposalHash,
   parentProposalHash |-> payload.parentProposalHash,
   actualProver       |-> payload.actualProver,
   parentBlockHash    |-> h.parentHash,
   blockNumber        |-> h.number,
   blockHash          |-> h.hash]

\* load_private_key: 32 bytes that are a key, or an error.
KeyLoads == keyFile \in Keys

\* sign_message.
SignMessage(k, hash) == [signer |-> AddressFromPrivateKey(k), digest |-> hash]

\* TdxProof::new, and the two fields its bytes are taken apart into.
TdxProof(instance, signature) == [publicKey |-> instance, signature |-> signature]

\* The proof that prove makes of a hash.
SignedProof(k, hash) == TdxProof(AddressFromPrivateKey(k), SignMessage(k, hash))

\* recover_signer: the signer, for the hash that was signed, and an address that
\* nobody has, for any other.
RecoverSigner(signature, hash) ==
  IF signature.digest = hash THEN signature.signer ELSE None

\* verify_sub_proofs: each proof can be taken apart and names the instance the first
\* one names, and its signature is that instance's, of its own input.
VerifySubProofs(ss) ==
  \A i \in 1..Len(ss) :
    /\ ss[i].proof # Malformed
    /\ ss[i].proof.publicKey = ss[1].proof.publicKey
    /\ RecoverSigner(ss[i].proof.signature, ss[i].input) = ss[1].proof.publicKey

\* The payload whose block request r needs next.
Current(r) == subs[r][Len(carry[r]) + 1]

\* The signing hash over r's carry data vec.
SigningHash(vec, k) ==
  ShastaAggregationOutput(vec, vec[1].chainId, vec[1].verifier, AddressFromPrivateKey(k))

\* Mutant: the instance address comes from the key file as it is at the end.
ResultOfKeyFile(r) ==
  [proof    |-> SignedProof(key[r], SigningHash(carry[r], key[r])),
   quote    |-> SigningHash(carry[r], key[r]),
   input    |-> SigningHash(carry[r], key[r]),
   instance |-> AddressFromPrivateKey(keyFile),
   vec      |-> carry[r]]

ResultOf(r) ==
  [proof    |-> SignedProof(key[r], SigningHash(carry[r], key[r])),
   quote    |-> SigningHash(carry[r], key[r]),
   input    |-> SigningHash(carry[r], key[r]),
   instance |-> AddressFromPrivateKey(key[r]),
   vec      |-> carry[r]]

\* The hash that a proof of payload p by the key in use would be over, if the block
\* were read now: anybody can compute it.
ComputedInputs(p) ==
  IF KeyLoads /\ p.proposalId <= Len(canon)
  THEN {SigningHash(<<ProposalCarryDataFromHeader(p, HeaderAt(p.proposalId))>>, keyFile)}
  ELSE {}

\* The hashes a client can name: those it was given and those it has computed.
Inputs(p) == {res.input : res \in results} \cup ComputedInputs(p)

\* The proofs it can name: any instance address next to a signature that it was given
\* or has made over h with a key of its own; and bytes that are no proof.
Proofs(h) ==
  [publicKey : Instances \cup ClientInstances,
   signature : {res.proof.signature : res \in results}
                 \cup {SignMessage(k, h) : k \in ClientKeys}] \cup {Malformed}

\* What it can put together: any payload, with such a hash and such a proof.
SubProofs ==
  UNION {UNION {[payload : {p}, input : {h}, proof : Proofs(h)] : h \in Inputs(p)} :
           p \in Payloads}

Batches == UNION {[1..n -> SubProofs] : n \in 0..MaxBatch}

-----------------------------------------------------------------------------
(***************************************************************************)
(* Requests, one action from each await to the next                        *)
(***************************************************************************)
Goto(r, l) == pc' = [pc EXCEPT ![r] = l]

\* Mutant: carry data is collected in a buffer that outlives the request.
RespondKeepsCarry(r) ==
  /\ Goto(r, "idle")
  /\ subs'   = [subs   EXCEPT ![r] = <<>>]
  /\ key'    = [key    EXCEPT ![r] = None]
  /\ header' = [header EXCEPT ![r] = None]
  /\ UNCHANGED carry

\* The handler returns and its locals go out of scope.
Respond(r) ==
  /\ Goto(r, "idle")
  /\ subs'   = [subs   EXCEPT ![r] = <<>>]
  /\ key'    = [key    EXCEPT ![r] = None]
  /\ header' = [header EXCEPT ![r] = None]
  /\ carry'  = [carry  EXCEPT ![r] = <<>>]

\* It returns an error, whichever: the client gets no result.
Refuse(r) == Respond(r) /\ UNCHANGED <<world, kind, results>>

\* A request can come in.
Free(r) == pc[r] = "idle" /\ Cardinality(results) < MaxResults

\* It is of kind k, asks for ss, and gets as far as its first fetch.
Accept(r, k, ss) ==
  /\ Goto(r, "fetch")
  /\ kind' = [kind EXCEPT ![r] = k]
  /\ subs' = [subs EXCEPT ![r] = ss]
  /\ UNCHANGED <<world, header, carry, results>>

\* POST /prove/shasta.  A request that names another schema or deployment is
\* refused on the spot, which leaves nothing to see.
ProveShasta(r) ==
  /\ Free(r)
  /\ \E p \in Payloads :
       /\ ValidatePayload(p)
       /\ Accept(r, "prove", <<[payload |-> p, input |-> None, proof |-> None]>>)
  /\ UNCHANGED key

\* POST /prove/shasta-aggregate.  The key is loaded here, once for the whole batch.
ProveShastaAggregate(r) ==
  /\ Free(r)
  /\ KeyLoads
  /\ \E ss \in Batches :
       /\ ss # <<>>
       /\ ValidatePayload(ss[1].payload)
       /\ Accept(r, "aggregate", ss)
  /\ key' = [key EXCEPT ![r] = keyFile]

\* The L2 node looks the block up, then or later its answer arrives: the header,
\* or an error, or that there is no such block.
L2Answers(r) ==
  /\ pc[r] = "fetch"
  /\ LET n == Current(r).payload.proposalId
     IN  header' \in {[header EXCEPT ![r] = h] :
                        h \in {None} \cup IF n <= Len(canon) THEN {HeaderAt(n)} ELSE {}}
  /\ Goto(r, "fetched")
  /\ UNCHANGED <<world, kind, subs, key, carry, results>>

NoHeader(r) ==
  /\ pc[r] = "fetched"
  /\ header[r] = None
  /\ Refuse(r)

\* sign_proposal goes on: load the key, build the carry data, sign, ask for a quote.
SignProposal(r) ==
  /\ pc[r] = "fetched"
  /\ kind[r] = "prove"
  /\ header[r] # None
  /\ IF KeyLoads
     THEN /\ key' = [key EXCEPT ![r] = keyFile]
          /\ carry' = [carry EXCEPT ![r] =
                         <<ProposalCarryDataFromHeader(Current(r).payload, header[r])>>]
          /\ header' = [header EXCEPT ![r] = None]
          /\ Goto(r, "quote")
          /\ UNCHANGED <<world, kind, subs, results>>
     ELSE Refuse(r)

\* Mutant: the rebuilt hash is not compared with the one that was signed.
RebuildSubUnchecked(r) ==
  /\ pc[r] = "fetched"
  /\ kind[r] = "aggregate"
  /\ header[r] # None
  /\ LET c    == ProposalCarryDataFromHeader(Current(r).payload, header[r])
         done == Len(carry[r]) + 1 = Len(subs[r])
     IN  IF done \/ ValidatePayload(subs[r][Len(carry[r]) + 2].payload)
         THEN /\ carry' = [carry EXCEPT ![r] = Append(@, c)]
              /\ header' = [header EXCEPT ![r] = None]
              /\ Goto(r, IF done THEN "combine" ELSE "fetch")
              /\ UNCHANGED <<world, kind, subs, key, results>>
         ELSE Refuse(r)

\* Mutant: the rebuilt carry data is not kept, so the loop never gets on.
RebuildSubForgotten(r) ==
  /\ pc[r] = "fetched"
  /\ kind[r] = "aggregate"
  /\ header[r] # None
  /\ header' = [header EXCEPT ![r] = None]
  /\ Goto(r, "fetch")
  /\ UNCHANGED <<world, kind, subs, key, carry, results>>

\* sign_aggregation goes on with the sub-proof whose header has come: rebuild its
\* carry data, compare the hash with the one that was signed, and check the next one's
\* deployment before asking for its block.
RebuildSub(r) ==
  /\ pc[r] = "fetched"
  /\ kind[r] = "aggregate"
  /\ header[r] # None
  /\ LET sub  == Current(r)
         c    == ProposalCarryDataFromHeader(sub.payload, header[r])
         done == Len(carry[r]) + 1 = Len(subs[r])
     IN  IF /\ SigningHash(<<c>>, key[r]) = sub.input
            /\ done \/ ValidatePayload(subs[r][Len(carry[r]) + 2].payload)
         THEN /\ carry' = [carry EXCEPT ![r] = Append(@, c)]
              /\ header' = [header EXCEPT ![r] = None]
              /\ Goto(r, IF done THEN "combine" ELSE "fetch")
              /\ UNCHANGED <<world, kind, subs, key, results>>
         ELSE Refuse(r)

\* The proof of that sub-proof is not hex.  (Malformed stands for this text and for
\* hex of the wrong size, which RebuildSub lets pass and Combine refuses.)
NotHex(r) ==
  /\ pc[r] = "fetched"
  /\ kind[r] = "aggregate"
  /\ header[r] # None
  /\ Current(r).proof = Malformed
  /\ Refuse(r)

\* Mutant: the batch is signed whether or not its elements follow one another.
CombineLoose(r) ==
  /\ pc[r] = "combine"
  /\ IF /\ VerifySubProofs(subs[r])
        /\ subs[r][1].proof.publicKey = AddressFromPrivateKey(key[r])
     THEN /\ Goto(r, "quote")
          /\ UNCHANGED <<world, kind, subs, key, header, carry, results>>
     ELSE Refuse(r)

\* Mutant: the instance of the sub-proofs is not compared with the local one.
CombineForAnyone(r) ==
  /\ pc[r] = "combine"
  /\ IF HasCommitment(carry[r]) /\ VerifySubProofs(subs[r])
     THEN /\ Goto(r, "quote")
          /\ UNCHANGED <<world, kind, subs, key, header, carry, results>>
     ELSE Refuse(r)

\* Build the commitment, verify the sub-proofs, compare their instance with the one of
\* the key loaded at the beginning, sign, ask for a quote.
Combine(r) ==
  /\ pc[r] = "combine"
  /\ IF /\ HasCommitment(carry[r])
        /\ VerifySubProofs(subs[r])
        /\ subs[r][1].proof.publicKey = AddressFromPrivateKey(key[r])
     THEN /\ Goto(r, "quote")
          /\ UNCHANGED <<world, kind, subs, key, header, carry, results>>
     ELSE Refuse(r)

\* The daemon issues the quote over the signing hash; the result goes out.
TdxsIssues(r) ==
  /\ pc[r] = "quote"
  /\ results' = results \cup {ResultOf(r)}
  /\ Respond(r)
  /\ UNCHANGED <<world, kind>>

\* The daemon is down, answers an error, or lets the socket time out.
TdxsFails(r) == pc[r] = "quote" /\ Refuse(r)

\* The client disconnects: the handler's future is dropped at the await.
Cancel(r) == pc[r] \in {"fetch", "quote"} /\ Refuse(r)

-----------------------------------------------------------------------------
(***************************************************************************)
(* The world around                                                        *)
(***************************************************************************)
\* The chain grows by a block, or the node unwinds blocks to follow another fork.
Extend ==
  /\ Len(canon) < MaxHeight
  /\ \E l \in Labels : canon' = Append(canon, l)
  /\ UNCHANGED <<keyFile, pc, kind, subs, key, header, carry, results>>

Unwind ==
  /\ \E n \in 0..(Len(canon) - 1) : canon' = SubSeq(canon, 1, n)
  /\ UNCHANGED <<keyFile, pc, kind, subs, key, header, carry, results>>

\* Whatever other processes and resets of the VM do: the key file changes in any way,
\* and the requests in S are lost with the process that served them.
Disturb(S) ==
  /\ keyFile' \in Keys \cup {Unreadable}
  /\ pc'     = [r \in Requests |-> IF r \in S THEN "idle" ELSE pc[r]]
  /\ subs'   = [r \in Requests |-> IF r \in S THEN <<>> ELSE subs[r]]
  /\ key'    = [r \in Requests |-> IF r \in S THEN None ELSE key[r]]
  /\ header' = [r \in Requests |-> IF r \in S THEN None ELSE header[r]]
  /\ carry'  = [r \in Requests |-> IF r \in S THEN <<>> ELSE carry[r]]
  /\ UNCHANGED <<canon, kind, results>>

-----------------------------------------------------------------------------
Proceed(r) ==
  NoHeader(r) \/ SignProposal(r) \/ RebuildSub(r) \/ NotHex(r) \/ Combine(r)

Tdxs(r) == TdxsIssues(r) \/ TdxsFails(r)

Serve(r) ==
  \/ ProveShasta(r) \/ ProveShastaAggregate(r)
  \/ L2Answers(r) \/ Proceed(r) \/ Tdxs(r) \/ Cancel(r)

World == Extend \/ Unwind \/ \E S \in SUBSET Requests : Disturb(S)

Next == (\E r \in Requests : Serve(r)) \/ World

Spec == Init /\ [][Next]_vars

\* The runtime runs every task that can run.  That a request to the daemon ends, by its
\* answer, its error or the socket timeouts, the code does not guarantee: it is so for
\* a daemon that accepts connections and does not trickle (TdxsClient: CallsEnd), and
\* need not be so for another (ThreadsComeFree).  Nothing is assumed of the L2 node:
\* fetch_block_header waits as long as it takes.
FairSpec == Spec /\ \A r \in Requests : WF_vars(Proceed(r)) /\ WF_vars(Tdxs(r))

-----------------------------------------------------------------------------
(***************************************************************************)
(* Properties                                                              *)
(***************************************************************************)
TypeOK ==
  /\ canon   \in Seq(Labels) /\ Len(canon) <= MaxHeight
  /\ keyFile \in Keys \cup {Unreadable}
  /\ pc      \in [Requests -> Locations]
  /\ kind    \in [Requests -> Kinds]
  /\ key     \in [Requests -> Keys \cup {None}]
  /\ \A r \in Requests :
       /\ Len(subs[r]) <= (IF kind[r] = "prove" THEN 1 ELSE MaxBatch)
       /\ Len(carry[r]) <= Len(subs[r])
       /\ pc[r] = "fetch" => Len(carry[r]) < Len(subs[r])

\* A result can be checked by itself: its proof is a signature, by the instance it
\* names, of the hash of the carry data it returns, and the quote attests that hash,
\* whatever happened to the key file while the request waited.
ResultsVerify ==
  \A res \in results :
    /\ HasCommitment(res.vec)
    /\ res.input = ShastaAggregationOutput(res.vec, ChainId, Verifier, res.instance)
    /\ res.quote = res.input
    /\ res.proof.publicKey = res.instance
    /\ RecoverSigner(res.proof.signature, res.input) = res.instance

\* The statements handed out so far.
Issued == {[instance |-> res.instance, vec |-> res.vec] : res \in results}

\* An aggregation only repeats what its sub-proofs said: for each element of its
\* carry data the same instance has handed out a proof of that element, over the
\* same L2 block, through reorgs, key changes and mixed-up sub-proofs.
AggregatesAreCovered ==
  \A res \in results : \A i \in 1..Len(res.vec) :
    [instance |-> res.instance, vec |-> <<res.vec[i]>>] \in Issued

\* The blocks of one result lie on one fork, though their headers were fetched one
\* after the other from a node that reorgs in between.
OneFork ==
  \A res \in results : \A i \in 1..Len(res.vec) :
    LET tip == res.vec[Len(res.vec)].blockHash
    IN  \E n \in 0..Len(tip) : res.vec[i].blockHash = SubSeq(tip, 1, n)

\* The server issues proofs the way ProofService says.
Service == INSTANCE ProofService WITH issued <- Issued

ImplementsService == Service!Spec

\* The steps a request at location l can still take when it needs n more headers: two
\* for each header, then Combine, then the quote.
StepsAt(l, n) ==
  CASE l = "idle"    -> 0
    [] l = "quote"   -> 1
    [] l = "combine" -> 2
    [] l = "fetched" -> 2 * n + 1
    [] l = "fetch"   -> 2 * n + 2

StepsLeft(r) == StepsAt(pc[r], Len(subs[r]) - Len(carry[r]))

\* A request is not sent round in circles, whatever node, daemon, clients and other
\* processes do: each step it takes brings it nearer to its end, so it takes at most
\* StepsLeft of them, and nothing sets it back.  How long it waits before a step, for
\* the node or for the daemon, is not bounded by this.
RequestsWindDown ==
  [][\A r \in Requests :
       \/ pc[r] = "idle"
       \/ StepsLeft(r)' < StepsLeft(r)
       \/ UNCHANGED <<pc[r], subs[r], key[r], header[r], carry[r]>>]_vars

\* As long as the daemon ends its exchanges, which FairSpec assumes, a request that was
\* accepted is answered, or waits for the L2 node for ever.
AnsweredOrAtTheNode ==
  \A r \in Requests : []<>(pc[r] = "idle") \/ <>[](pc[r] = "fetch")
=============================================================================
