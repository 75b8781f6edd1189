---------------------------- MODULE ProverProofs ----------------------------
(***************************************************************************)
(* Prover, for any number of requests, payloads, keys and blocks, and      *)
(* whatever the clients, the L2 node and the key file do in between.       *)
(*                                                                         *)
(* The argument.  A request holds its own copy of the key from the moment  *)
(* it loads it, so what it signs is by one key throughout.  In a batch,    *)
(* every element it has rebuilt hashes to the input of its sub-proof; if   *)
(* the sub-proofs verify and are the local instance's, each signature is   *)
(* its own over that input.  Clients sign with other keys, so such a       *)
(* signature was handed out in a result: over exactly the rebuilt element. *)
(***************************************************************************)
EXTENDS Prover, SequenceTheorems, TLAPS

ValidPayloads == {p \in Payloads : ValidatePayload(p)}

Headers == [number : Nat, hash : Seq(Labels), parentHash : Seq(Labels) \cup {None}]

CarryData == {ProposalCarryDataFromHeader(p, h) : p \in ValidPayloads, h \in Headers}

\* What the variables range over.
Shape ==
  /\ canon   \in Seq(Labels)
  /\ keyFile \in Keys \cup {Unreadable}
  /\ pc      \in [Requests -> Locations]
  /\ kind    \in [Requests -> Kinds]
  /\ subs    = [r \in Requests |-> subs[r]]
  /\ key     \in [Requests -> Keys \cup {None}]
  /\ header  \in [Requests -> Headers \cup {None}]
  /\ carry   \in [Requests -> Seq(CarryData)]

\* A request that waits for a header has passed the deployment check for it.
Awaiting ==
  \A r \in Requests :
    pc[r] \in {"fetch", "fetched"} =>
      Len(carry[r]) < Len(subs[r]) /\ Current(r).payload \in ValidPayloads

\* Nothing is left of the request served before.
Clean == \A r \in Requests : pc[r] = "idle" => carry[r] = <<>>

\* A proof a client can show: its signature is from a result, or not by an instance of
\* this prover.
KnownProof(proof) ==
  \/ proof = Malformed
  \/ proof.signature \in {res.proof.signature : res \in results}
  \/ proof.signature.signer \notin Instances

\* A batch has its key and proofs that its client can show, and has rebuilt its first
\* elements to the hashes they came with.
Rebuilding ==
  \A r \in Requests :
    kind[r] = "aggregate" /\ pc[r] \in {"fetch", "fetched", "combine"} =>
      /\ key[r] \in Keys
      /\ Len(subs[r]) \in Nat
      /\ \A i \in 1..Len(subs[r]) :
           /\ subs[r][i].payload \in Payloads
           /\ KnownProof(subs[r][i].proof)
      /\ \A i \in 1..Len(carry[r]) : SigningHash(<<carry[r][i]>>, key[r]) = subs[r][i].input

\* All elements of a batch are rebuilt when it is combined.
Combining ==
  \A r \in Requests :
    pc[r] = "combine" => kind[r] = "aggregate" /\ Len(carry[r]) = Len(subs[r])

\* What is signed is a commitment, and if it is a batch's it is covered.
Signed ==
  \A r \in Requests :
    pc[r] = "quote" =>
      /\ key[r] \in Keys
      /\ HasCommitment(carry[r])
      /\ \/ Len(carry[r]) = 1
         \/ \A i \in 1..Len(carry[r]) :
              [instance |-> AddressFromPrivateKey(key[r]), vec |-> <<carry[r][i]>>] \in Issued

\* A result names an instance and lists carry data.
ResultShape ==
  \A res \in results : res.instance \in Instances /\ res.vec \in Seq(CarryData)

Inv ==
  /\ Shape
  /\ Clean
  /\ Awaiting
  /\ Rebuilding
  /\ Combining
  /\ Signed
  /\ ResultShape
  /\ ResultsVerify
  /\ AggregatesAreCovered

-----------------------------------------------------------------------------
\* What a header read from the chain is.
LEMMA HeaderAtType ==
  ASSUME canon \in Seq(Labels), NEW n \in Nat, n <= Len(canon)
  PROVE  HeaderAt(n) \in Headers
<1>1. SubSeq(canon, 1, n) \in Seq(Labels)
  BY SubSeqProperties
<1>2. n # 0 => SubSeq(canon, 1, n - 1) \in Seq(Labels)
  BY SubSeqProperties
<1>q. QED
  BY <1>1, <1>2 DEF HeaderAt, Headers

\* Carry data is for the configured deployment.
LEMMA CarryDeployment ==
  ASSUME NEW c \in CarryData
  PROVE  c.chainId = ChainId /\ c.verifier = Verifier
BY DEF CarryData, ValidPayloads, ValidatePayload, ProposalCarryDataFromHeader

\* The signing hash is over the whole list, for the configured deployment.
LEMMA SigningHashValue ==
  ASSUME NEW v \in Seq(CarryData), v # <<>>, NEW k
  PROVE  SigningHash(v, k) =
           ShastaAggregationOutput(v, ChainId, Verifier, AddressFromPrivateKey(k))
<1>1. v[1] \in CarryData
  OBVIOUS
<1>q. QED
  BY <1>1, CarryDeployment DEF SigningHash

\* Distinct statements have distinct hashes.
LEMMA OutputInjective ==
  ASSUME NEW v, NEW w, NEW c, NEW d, NEW e, NEW f, NEW i, NEW j,
         ShastaAggregationOutput(v, c, d, i) = ShastaAggregationOutput(w, e, f, j)
  PROVE  v = w /\ i = j
<1> DEFINE x == ShastaAggregationOutput(v, c, d, i)
           y == ShastaAggregationOutput(w, e, f, j)
<1>1. x.commitment = v /\ x.instance = i /\ y.commitment = w /\ y.instance = j
  BY DEF ShastaAggregationOutput
<1>q. QED
  BY <1>1

\* A signature that recovers to an instance is that instance's, over that hash.
LEMMA Recovered ==
  ASSUME NEW s, NEW h, NEW i \in Instances, RecoverSigner(s, h) = i
  PROVE  s.digest = h /\ s.signer = i
BY ProverConstants DEF RecoverSigner

\* What verify_sub_proofs establishes of the element it has reached.
LEMMA VerifiedIsIssued ==
  ASSUME Inv, NEW r \in Requests, pc[r] = "combine",
         VerifySubProofs(subs[r]),
         subs[r][1].proof.publicKey = AddressFromPrivateKey(key[r]),
         NEW i \in 1..Len(carry[r])
  PROVE  [instance |-> AddressFromPrivateKey(key[r]), vec |-> <<carry[r][i]>>] \in Issued
<1> DEFINE me  == AddressFromPrivateKey(key[r])
           sub == subs[r][i]
<1>1. /\ key[r] \in Keys /\ me \in Instances
      /\ i \in 1..Len(subs[r])
      /\ KnownProof(sub.proof)
      /\ SigningHash(<<carry[r][i]>>, key[r]) = sub.input
  BY DEF Inv, Rebuilding, Combining, Instances
<1>2. sub.proof # Malformed /\ RecoverSigner(sub.proof.signature, sub.input) = me
  BY <1>1 DEF VerifySubProofs
<1>3. sub.proof.signature.digest = sub.input /\ sub.proof.signature.signer = me
  BY <1>1, <1>2, Recovered
<1>4. PICK res \in results : res.proof.signature = sub.proof.signature
  BY <1>1, <1>2, <1>3 DEF KnownProof
<1>5. /\ res.instance \in Instances
      /\ RecoverSigner(res.proof.signature, res.input) = res.instance
      /\ res.input = ShastaAggregationOutput(res.vec, ChainId, Verifier, res.instance)
  BY DEF Inv, ResultShape, ResultsVerify
<1>6. res.input = sub.input /\ res.instance = me
  BY <1>3, <1>4, <1>5, Recovered
<1>7. <<carry[r][i]>> \in Seq(CarryData) /\ <<carry[r][i]>> # <<>>
  <2>1. carry[r][i] \in CarryData
    BY DEF Inv, Shape
  <2>q. QED
    BY <2>1
<1>8. sub.input = ShastaAggregationOutput(<<carry[r][i]>>, ChainId, Verifier, me)
  BY <1>1, <1>7, SigningHashValue
<1>9. res.vec = <<carry[r][i]>>
  <2>1. ShastaAggregationOutput(res.vec, ChainId, Verifier, res.instance)
          = ShastaAggregationOutput(<<carry[r][i]>>, ChainId, Verifier, me)
    BY <1>5, <1>6, <1>8
  <2>q. QED
    BY <2>1, OutputInjective
<1>q. QED
  BY <1>6, <1>9 DEF Issued

-----------------------------------------------------------------------------
\* One element makes a commitment by itself.
LEMMA SingleHasCommitment ==
  ASSUME NEW c
  PROVE  HasCommitment(<<c>>) /\ Len(<<c>>) = 1
BY DEF HasCommitment

LEMMA InitInv == Init => Inv
<1> SUFFICES ASSUME Init PROVE Inv
  OBVIOUS
<1>1. Shape
  BY DEF Init, Shape, Locations, Kinds
<1>q. QED
  BY <1>1 DEF Init, Inv, Clean, Awaiting, Rebuilding, Combining, Signed, ResultShape,
              ResultsVerify, AggregatesAreCovered

\* A request that ends without a result leaves nothing behind.
LEMMA RefuseInv ==
  ASSUME Inv, NEW r \in Requests, Refuse(r)
  PROVE  Inv'
<1>0. <<>> \in Seq(CarryData)
  OBVIOUS
<1>1. Shape'
  BY <1>0 DEF Inv, Shape, Refuse, Respond, Goto, world, Locations
<1>2. Clean' /\ Awaiting'
  BY <1>1 DEF Inv, Shape, Clean, Awaiting, Refuse, Respond, Goto, Current
<1>3. Rebuilding' /\ Combining' /\ Signed'
  <2>1. Rebuilding'
    BY DEF Inv, Shape, Rebuilding, KnownProof, Refuse, Respond, Goto
  <2>2. Combining' /\ Signed'
    BY DEF Inv, Shape, Combining, Signed, Issued, Refuse, Respond, Goto
  <2>q. QED
    BY <2>1, <2>2
<1>4. ResultShape' /\ ResultsVerify' /\ AggregatesAreCovered'
  BY DEF Inv, ResultShape, ResultsVerify, AggregatesAreCovered, Issued, Refuse
<1>q. QED
  BY <1>1, <1>2, <1>3, <1>4 DEF Inv

LEMMA ProveShastaInv ==
  ASSUME Inv, NEW r \in Requests, ProveShasta(r)
  PROVE  Inv'
<1>1. PICK p \in ValidPayloads :
        Accept(r, "prove", <<[payload |-> p, input |-> None, proof |-> None]>>)
  BY DEF ProveShasta, ValidPayloads
<1> DEFINE ss == <<[payload |-> p, input |-> None, proof |-> None]>>
<1>2. Len(ss) = 1 /\ ss[1].payload = p
  OBVIOUS
<1>3. Shape'
  BY <1>1 DEF Inv, Shape, ProveShasta, Accept, Goto, world, Locations, Kinds
<1>4. Clean' /\ Awaiting'
  BY <1>1, <1>2 DEF Inv, Shape, Clean, Awaiting, ProveShasta, Free, Accept, Goto, Current
<1>5. Rebuilding' /\ Combining' /\ Signed'
  <2>1. UNCHANGED key
    BY DEF ProveShasta
  <2>2. Rebuilding'
    BY <1>1, <2>1 DEF Inv, Shape, Rebuilding, KnownProof, Accept, Goto
  <2>3. Combining' /\ Signed'
    BY <1>1, <2>1 DEF Inv, Shape, Combining, Signed, Issued, Accept, Goto
  <2>q. QED
    BY <2>2, <2>3
<1>6. ResultShape' /\ ResultsVerify' /\ AggregatesAreCovered'
  BY <1>1 DEF Inv, ResultShape, ResultsVerify, AggregatesAreCovered, Issued, Accept
<1>q. QED
  BY <1>3, <1>4, <1>5, <1>6 DEF Inv

\* What a client names as a proof it can show.
LEMMA NamedProof ==
  ASSUME NEW h, NEW proof \in Proofs(h)
  PROVE  KnownProof(proof)
<1>1. CASE proof = Malformed
  BY <1>1 DEF KnownProof
<1>2. CASE proof # Malformed
  <2> DEFINE given == {res.proof.signature : res \in results}
             own   == {SignMessage(k, h) : k \in ClientKeys}
  <2>1. PICK s \in given \cup own : proof.signature = s
    BY <1>2 DEF Proofs
  <2>2. s \in own => s.signer \notin Instances
    BY ProverConstants DEF SignMessage, Instances, AddressFromPrivateKey
  <2>q. QED
    BY <2>1, <2>2 DEF KnownProof
<1>q. QED
  BY <1>1, <1>2

LEMMA ProveShastaAggregateInv ==
  ASSUME Inv, NEW r \in Requests, ProveShastaAggregate(r)
  PROVE  Inv'
<1>1. PICK ss \in Batches :
        /\ ss # <<>>
        /\ ValidatePayload(ss[1].payload)
        /\ Accept(r, "aggregate", ss)
  BY DEF ProveShastaAggregate
<1>2. PICK n \in 0..MaxBatch : ss \in [1..n -> SubProofs]
  BY <1>1 DEF Batches
<1>3. ss \in Seq(SubProofs) /\ Len(ss) = n /\ n # 0
  BY <1>1, <1>2, ProverConstants
<1>4. \A i \in 1..Len(ss) :
        /\ ss[i].payload \in Payloads
        /\ KnownProof(ss[i].proof)
  <2>1. SUFFICES ASSUME NEW i \in 1..Len(ss)
                 PROVE  ss[i].payload \in Payloads /\ KnownProof(ss[i].proof)
    OBVIOUS
  <2>2. PICK p \in Payloads : \E h \in Inputs(p) :
          ss[i] \in [payload : {p}, input : {h}, proof : Proofs(h)]
    BY <1>2, <1>3 DEF SubProofs
  <2>3. PICK h : ss[i] \in [payload : {p}, input : {h}, proof : Proofs(h)]
    BY <2>2
  <2>4. ss[i].payload = p /\ ss[i].proof \in Proofs(h)
    BY <2>3
  <2>q. QED
    BY <2>4, NamedProof
<1>5. keyFile \in Keys /\ key' = [key EXCEPT ![r] = keyFile]
  BY DEF KeyLoads, ProveShastaAggregate
<1>6. Shape'
  BY <1>1, <1>5 DEF Inv, Shape, Accept, Goto, world, Locations, Kinds
<1>7. Clean' /\ Awaiting'
  <2>1. ss[1].payload \in ValidPayloads /\ Len(ss) > 0
    BY <1>1, <1>3, <1>4, ProverConstants DEF ValidPayloads
  <2>q. QED
    BY <1>1, <2>1 DEF Inv, Shape, Clean, Awaiting, ProveShastaAggregate, Free, Accept, Goto,
                      Current
<1>8. Rebuilding' /\ Combining' /\ Signed'
  <2>1. carry[r] = <<>> /\ Len(ss) \in Nat
    BY <1>1, <1>3 DEF Inv, Clean, ProveShastaAggregate, Free
  <2>2. /\ subs' = [subs EXCEPT ![r] = ss] /\ subs'[r] = ss
        /\ kind' = [kind EXCEPT ![r] = "aggregate"]
        /\ pc' = [pc EXCEPT ![r] = "fetch"]
        /\ carry' = carry /\ results' = results
        /\ key'[r] = keyFile
    BY <1>1, <1>5 DEF Inv, Shape, Accept, Goto
  <2>3. Rebuilding'
    <3>1. SUFFICES ASSUME NEW q \in Requests,
                          kind'[q] = "aggregate" /\ pc'[q] \in {"fetch", "fetched", "combine"}
                   PROVE  /\ key'[q] \in Keys
                          /\ Len(subs'[q]) \in Nat
                          /\ \A i \in 1..Len(subs'[q]) :
                               /\ subs'[q][i].payload \in Payloads
                               /\ KnownProof(subs[q][i].proof)'
                          /\ \A i \in 1..Len(carry'[q]) :
                               SigningHash(<<carry'[q][i]>>, key'[q]) = subs'[q][i].input
      BY DEF Rebuilding, KnownProof
    <3>2. CASE q = r
      BY <1>4, <1>5, <2>1, <2>2, <3>2 DEF KnownProof
    <3>3. CASE q # r
      BY <1>5, <2>2, <3>1, <3>3 DEF Inv, Shape, Rebuilding, KnownProof
    <3>q. QED
      BY <3>2, <3>3
  <2>4. Combining' /\ Signed'
    BY <1>1, <1>5 DEF Inv, Shape, Combining, Signed, Issued, Accept, Goto
  <2>q. QED
    BY <2>3, <2>4
<1>9. ResultShape' /\ ResultsVerify' /\ AggregatesAreCovered'
  BY <1>1 DEF Inv, ResultShape, ResultsVerify, AggregatesAreCovered, Issued, Accept
<1>q. QED
  BY <1>6, <1>7, <1>8, <1>9 DEF Inv

LEMMA L2AnswersInv ==
  ASSUME Inv, NEW r \in Requests, L2Answers(r)
  PROVE  Inv'
<1> DEFINE n == Current(r).payload.proposalId
<1>1. n \in Nat
  BY ProverConstants DEF Inv, Awaiting, L2Answers, ValidPayloads
<1>2. PICK h \in {None} \cup IF n <= Len(canon) THEN {HeaderAt(n)} ELSE {} :
        header' = [header EXCEPT ![r] = h]
  BY DEF L2Answers
<1>3. h \in Headers \cup {None}
  BY <1>1, <1>2, HeaderAtType DEF Inv, Shape
<1>4. Shape'
  BY <1>2, <1>3 DEF Inv, Shape, L2Answers, Goto, world, Locations
<1>5. Clean' /\ Awaiting'
  BY DEF Inv, Shape, Clean, Awaiting, L2Answers, Goto, Current
<1>6. Rebuilding' /\ Combining' /\ Signed'
  BY DEF Inv, Shape, Rebuilding, KnownProof, Combining, Signed, Issued, L2Answers, Goto
<1>7. ResultShape' /\ ResultsVerify' /\ AggregatesAreCovered'
  BY DEF Inv, ResultShape, ResultsVerify, AggregatesAreCovered, Issued, L2Answers
<1>q. QED
  BY <1>4, <1>5, <1>6, <1>7 DEF Inv

LEMMA SignProposalInv ==
  ASSUME Inv, NEW r \in Requests, SignProposal(r), keyFile \in Keys
  PROVE  Inv'
<1> DEFINE c == ProposalCarryDataFromHeader(Current(r).payload, header[r])
<1>1. c \in CarryData
  BY DEF Inv, Shape, Awaiting, SignProposal, CarryData
<1>2. HasCommitment(<<c>>) /\ Len(<<c>>) = 1 /\ <<c>> \in Seq(CarryData)
  BY <1>1, SingleHasCommitment
<1>3. /\ key' = [key EXCEPT ![r] = keyFile]
      /\ carry' = [carry EXCEPT ![r] = <<c>>]
      /\ header' = [header EXCEPT ![r] = None]
      /\ pc' = [pc EXCEPT ![r] = "quote"]
      /\ UNCHANGED <<world, kind, subs, results>>
      /\ pc[r] = "fetched" /\ kind[r] = "prove"
  BY DEF SignProposal, KeyLoads, Goto
<1> HIDE DEF c
<1>4. Shape'
  BY <1>2, <1>3 DEF Inv, Shape, world, Locations
<1>5. Clean' /\ Awaiting'
  BY <1>3 DEF Inv, Shape, Clean, Awaiting, Current
<1>6. Rebuilding' /\ Combining'
  BY <1>3 DEF Inv, Shape, Rebuilding, KnownProof, Combining
<1>7. Signed'
  BY <1>2, <1>3 DEF Inv, Shape, Signed, Issued
<1>8. ResultShape' /\ ResultsVerify' /\ AggregatesAreCovered'
  BY <1>3 DEF Inv, ResultShape, ResultsVerify, AggregatesAreCovered, Issued
<1>q. QED
  BY <1>4, <1>5, <1>6, <1>7, <1>8 DEF Inv

LEMMA RebuildSubInv ==
  ASSUME Inv, NEW r \in Requests, RebuildSub(r), ~ Refuse(r)
  PROVE  Inv'
<1> DEFINE n   == Len(carry[r])
           c   == ProposalCarryDataFromHeader(Current(r).payload, header[r])
           end == n + 1 = Len(subs[r])
<1>1. /\ pc[r] = "fetched" /\ kind[r] = "aggregate"
      /\ SigningHash(<<c>>, key[r]) = subs[r][n + 1].input
      /\ end \/ ValidatePayload(subs[r][n + 2].payload)
      /\ carry' = [carry EXCEPT ![r] = Append(carry[r], c)]
      /\ header' = [header EXCEPT ![r] = None]
      /\ pc' = [pc EXCEPT ![r] = IF end THEN "combine" ELSE "fetch"]
      /\ UNCHANGED <<world, kind, subs, key, results>>
  BY DEF RebuildSub, Goto, Current
<1>2. c \in CarryData
  BY DEF Inv, Shape, Awaiting, RebuildSub, CarryData
<1> HIDE DEF c
<1>3. n \in Nat /\ carry[r] \in Seq(CarryData) /\ Len(subs[r]) \in Nat /\ n < Len(subs[r])
  BY <1>1 DEF Inv, Shape, Rebuilding, Awaiting
<1>4. /\ Append(carry[r], c) \in Seq(CarryData)
      /\ Len(Append(carry[r], c)) = n + 1
      /\ \A i \in 1..n : Append(carry[r], c)[i] = carry[r][i]
      /\ Append(carry[r], c)[n + 1] = c
  BY <1>2, <1>3
<1>5. Shape'
  BY <1>1, <1>4 DEF Inv, Shape, world, Locations
<1>6. Clean'
  BY <1>1 DEF Inv, Shape, Clean
<1>7. Awaiting'
  <2>1. ~ end => subs[r][n + 2].payload \in ValidPayloads
    <3>1. \A i \in 1..Len(subs[r]) : subs[r][i].payload \in Payloads
      BY <1>1 DEF Inv, Rebuilding
    <3>2. ~ end => n + 2 \in 1..Len(subs[r])
      BY <1>3
    <3>q. QED
      BY <1>1, <3>1, <3>2 DEF ValidPayloads
  <2>q. QED
    BY <1>1, <1>3, <1>4, <2>1 DEF Inv, Shape, Awaiting, Current
<1>8. Rebuilding'
  <2>1. \A i \in 1..(n + 1) :
          SigningHash(<<Append(carry[r], c)[i]>>, key[r]) = subs[r][i].input
    <3>1. \A i \in 1..n : SigningHash(<<carry[r][i]>>, key[r]) = subs[r][i].input
      BY <1>1 DEF Inv, Rebuilding
    <3>2. TAKE i \in 1..(n + 1)
    <3>3. CASE i = n + 1
      BY <1>1, <1>4, <3>3
    <3>4. CASE i # n + 1
      <4>1. i \in 1..n
        BY <1>3, <3>4
      <4>2. Append(carry[r], c)[i] = carry[r][i]
        BY <1>4, <4>1
      <4>q. QED
        BY <3>1, <4>1, <4>2
    <3>q. QED
      BY <3>3, <3>4
  <2>q. QED
    BY <1>1, <1>3, <1>4, <2>1 DEF Inv, Shape, Rebuilding, KnownProof
<1>9. Combining' /\ Signed'
  BY <1>1, <1>3, <1>4 DEF Inv, Shape, Combining, Signed, Issued
<1>10. ResultShape' /\ ResultsVerify' /\ AggregatesAreCovered'
  BY <1>1 DEF Inv, ResultShape, ResultsVerify, AggregatesAreCovered, Issued
<1>q. QED
  BY <1>5, <1>6, <1>7, <1>8, <1>9, <1>10 DEF Inv

LEMMA CombineInv ==
  ASSUME Inv, NEW r \in Requests, Combine(r), ~ Refuse(r)
  PROVE  Inv'
<1>1. /\ pc[r] = "combine"
      /\ HasCommitment(carry[r])
      /\ VerifySubProofs(subs[r])
      /\ subs[r][1].proof.publicKey = AddressFromPrivateKey(key[r])
      /\ pc' = [pc EXCEPT ![r] = "quote"]
      /\ UNCHANGED <<world, kind, subs, key, header, carry, results>>
  BY DEF Combine, Goto
<1>2. Shape'
  BY <1>1 DEF Inv, Shape, world, Locations
<1>3. Clean' /\ Awaiting'
  BY <1>1 DEF Inv, Shape, Clean, Awaiting, Current
<1>4. Rebuilding' /\ Combining'
  BY <1>1 DEF Inv, Shape, Rebuilding, KnownProof, Combining
<1>5. Signed'
  <2>1. key[r] \in Keys
    BY <1>1 DEF Inv, Rebuilding, Combining
  <2>2. \A i \in 1..Len(carry[r]) :
          [instance |-> AddressFromPrivateKey(key[r]), vec |-> <<carry[r][i]>>] \in Issued
    BY <1>1, VerifiedIsIssued
  <2>3. Issued' = Issued
    BY <1>1 DEF Issued
  <2>q. QED
    BY <1>1, <2>1, <2>2, <2>3 DEF Inv, Shape, Signed
<1>6. ResultShape' /\ ResultsVerify' /\ AggregatesAreCovered'
  BY <1>1 DEF Inv, ResultShape, ResultsVerify, AggregatesAreCovered, Issued
<1>q. QED
  BY <1>2, <1>3, <1>4, <1>5, <1>6 DEF Inv

LEMMA TdxsIssuesInv ==
  ASSUME Inv, NEW r \in Requests, TdxsIssues(r)
  PROVE  Inv'
<1> DEFINE me  == AddressFromPrivateKey(key[r])
           vec == carry[r]
           res == ResultOf(r)
<1>1. /\ pc[r] = "quote" /\ key[r] \in Keys /\ me \in Instances
      /\ vec \in Seq(CarryData) /\ HasCommitment(vec)
      /\ results' = results \cup {res}
      /\ Respond(r) /\ UNCHANGED <<world, kind>>
  BY DEF Inv, Shape, Signed, TdxsIssues, Instances
<1>2. /\ res.instance = me /\ res.vec = vec
      /\ res.input = ShastaAggregationOutput(vec, ChainId, Verifier, me)
      /\ res.quote = res.input
      /\ res.proof.publicKey = me
      /\ RecoverSigner(res.proof.signature, res.input) = me
  BY <1>1, SigningHashValue
     DEF ResultOf, SignedProof, TdxProof, SignMessage, RecoverSigner, HasCommitment
<1> HIDE DEF res
<1>3. Issued' = Issued \cup {[instance |-> me, vec |-> vec]}
  BY <1>1, <1>2 DEF Issued
<1>4. Shape'
  <2>1. <<>> \in Seq(CarryData)
    OBVIOUS
  <2>q. QED
    BY <1>1, <2>1 DEF Inv, Shape, Respond, Goto, world, Locations
<1>5. Clean' /\ Awaiting'
  BY <1>1 DEF Inv, Shape, Clean, Awaiting, Respond, Goto, Current
<1>6. Rebuilding' /\ Combining'
  <2>1. /\ pc' = [pc EXCEPT ![r] = "idle"]
        /\ \A q \in Requests \ {r} :
             subs'[q] = subs[q] /\ key'[q] = key[q] /\ carry'[q] = carry[q]
        /\ pc'[r] = "idle" /\ \A q \in Requests \ {r} : pc'[q] = pc[q]
        /\ kind' = kind
        /\ results \subseteq results'
    BY <1>1 DEF Inv, Shape, Respond, Goto
  <2>2. \A proof : KnownProof(proof) => KnownProof(proof)'
    BY <2>1 DEF KnownProof
  <2>3. Rebuilding'
    BY <2>1, <2>2 DEF Inv, Rebuilding
  <2>4. Combining'
    BY <2>1 DEF Inv, Combining
  <2>q. QED
    BY <2>3, <2>4
<1>7. Signed'
  BY <1>1, <1>3 DEF Inv, Shape, Signed, Respond, Goto
<1>8. ResultShape' /\ ResultsVerify'
  BY <1>1, <1>2 DEF Inv, ResultShape, ResultsVerify
<1>9. AggregatesAreCovered'
  <2>1. \A i \in 1..Len(vec) : [instance |-> me, vec |-> <<vec[i]>>] \in Issued'
    <3>1. CASE Len(vec) = 1
      <4>1. vec = <<vec[1]>>
        BY <1>1, <3>1
      <4>q. QED
        BY <1>3, <3>1, <4>1
    <3>2. CASE Len(vec) # 1
      BY <1>1, <1>3, <3>2 DEF Inv, Signed
    <3>q. QED
      BY <3>1, <3>2
  <2>q. QED
    BY <1>1, <1>2, <1>3, <2>1 DEF Inv, AggregatesAreCovered
<1>q. QED
  BY <1>4, <1>5, <1>6, <1>7, <1>8, <1>9 DEF Inv

\* The chain is nobody's business between two awaits.
LEMMA ChainInv ==
  ASSUME Inv, Extend \/ Unwind
  PROVE  Inv'
<1>1. /\ UNCHANGED <<keyFile, pc, kind, subs, key, header, carry, results>>
      /\ canon' \in Seq(Labels)
  <2>1. CASE Extend
    BY <2>1 DEF Inv, Shape, Extend
  <2>2. CASE Unwind
    <3>1. PICK n \in 0..(Len(canon) - 1) : canon' = SubSeq(canon, 1, n)
      BY <2>2 DEF Unwind
    <3>2. canon' \in Seq(Labels)
      BY <3>1, SubSeqProperties DEF Inv, Shape
    <3>q. QED
      BY <2>2, <3>2 DEF Unwind
  <2>q. QED
    BY <2>1, <2>2
<1>2. Shape' /\ Clean' /\ Awaiting' /\ Combining'
  BY <1>1 DEF Inv, Shape, Clean, Awaiting, Combining, Current
<1>3. Rebuilding' /\ Signed'
  BY <1>1 DEF Inv, Rebuilding, KnownProof, Signed, Issued
<1>4. ResultShape' /\ ResultsVerify' /\ AggregatesAreCovered'
  BY <1>1 DEF Inv, ResultShape, ResultsVerify, AggregatesAreCovered, Issued
<1>q. QED
  BY <1>2, <1>3, <1>4 DEF Inv

\* Nor is the key file, and a request that is lost leaves nothing behind.
LEMMA DisturbInv ==
  ASSUME Inv, NEW S \in SUBSET Requests, Disturb(S)
  PROVE  Inv'
<1>1. /\ keyFile' \in Keys \cup {Unreadable}
      /\ UNCHANGED <<canon, kind, results>>
      /\ \A r \in S : pc'[r] = "idle" /\ carry'[r] = <<>>
      /\ \A r \in Requests \ S :
           /\ pc'[r] = pc[r] /\ subs'[r] = subs[r] /\ key'[r] = key[r]
           /\ header'[r] = header[r] /\ carry'[r] = carry[r]
  BY DEF Disturb
<1>2. Shape'
  <2>1. <<>> \in Seq(CarryData)
    OBVIOUS
  <2>q. QED
    BY <2>1 DEF Inv, Shape, Disturb, Locations
<1>3. Clean' /\ Awaiting' /\ Combining'
  BY <1>1 DEF Inv, Clean, Awaiting, Combining, Current
<1>4. Rebuilding' /\ Signed'
  <2>1. Rebuilding'
    BY <1>1 DEF Inv, Rebuilding, KnownProof
  <2>2. Signed'
    BY <1>1 DEF Inv, Signed, Issued
  <2>q. QED
    BY <2>1, <2>2
<1>5. ResultShape' /\ ResultsVerify' /\ AggregatesAreCovered'
  BY <1>1 DEF Inv, ResultShape, ResultsVerify, AggregatesAreCovered, Issued
<1>q. QED
  BY <1>2, <1>3, <1>4, <1>5 DEF Inv

LEMMA NextInv ==
  ASSUME Inv, [Next]_vars
  PROVE  Inv'
<1>1. CASE UNCHANGED vars
  <2>1. Shape' /\ Clean' /\ Awaiting' /\ Combining'
    BY <1>1 DEF vars, Inv, Shape, Clean, Awaiting, Combining, Current
  <2>2. Rebuilding' /\ Signed'
    BY <1>1 DEF vars, Inv, Rebuilding, KnownProof, Signed, Issued
  <2>3. ResultShape' /\ ResultsVerify' /\ AggregatesAreCovered'
    BY <1>1 DEF vars, Inv, ResultShape, ResultsVerify, AggregatesAreCovered, Issued
  <2>q. QED
    BY <2>1, <2>2, <2>3 DEF Inv
<1>2. CASE World
  BY <1>2, ChainInv, DisturbInv DEF World
<1>3. ASSUME NEW r \in Requests, Serve(r) PROVE Inv'
  <2>1. CASE Refuse(r)
    BY <2>1, RefuseInv
  <2>2. CASE ProveShasta(r)
    BY <2>2, ProveShastaInv
  <2>3. CASE ProveShastaAggregate(r)
    BY <2>3, ProveShastaAggregateInv
  <2>4. CASE L2Answers(r)
    BY <2>4, L2AnswersInv
  <2>5. CASE SignProposal(r) /\ keyFile \in Keys
    BY <2>5, SignProposalInv
  <2>6. CASE RebuildSub(r) /\ ~ Refuse(r)
    BY <2>6, RebuildSubInv
  <2>7. CASE Combine(r) /\ ~ Refuse(r)
    BY <2>7, CombineInv
  <2>8. CASE TdxsIssues(r)
    BY <2>8, TdxsIssuesInv
  <2>9. SignProposal(r) /\ keyFile \notin Keys => Refuse(r)
    BY DEF SignProposal, KeyLoads
  <2>q. QED
    BY <1>3, <2>1, <2>2, <2>3, <2>4, <2>5, <2>6, <2>7, <2>8, <2>9
       DEF Serve, Proceed, Tdxs, NoHeader, NotHex, TdxsFails, Cancel
<1>q. QED
  BY <1>1, <1>2, <1>3 DEF Next

LEMMA Invariance == Spec => []Inv
BY InitInv, NextInv, PTL DEF Spec

-----------------------------------------------------------------------------
\* Every result verifies: its proof, its quote and its hash are of one key and of
\* the carry data it returns, though the key file changes under the request.
THEOREM SpecResultsVerify == Spec => []ResultsVerify
BY Invariance, PTL DEF Inv

\* An aggregation covers only what the same instance signed one by one.
THEOREM SpecAggregatesAreCovered == Spec => []AggregatesAreCovered
BY Invariance, PTL DEF Inv

\* Handing out a result is an Issue step of ProofService, and nothing else is one.
LEMMA StepIssues ==
  ASSUME Inv, Next
  PROVE  Service!Issue \/ Issued' = Issued
<1>1. CASE UNCHANGED results
  BY <1>1 DEF Issued
<1>2. CASE \E r \in Requests : TdxsIssues(r)
  <2>1. PICK r \in Requests : TdxsIssues(r)
    BY <1>2
  <2> DEFINE s == [instance |-> AddressFromPrivateKey(key[r]), vec |-> carry[r]]
  <2>2. results' = results \cup {ResultOf(r)}
    BY <2>1 DEF TdxsIssues
  <2>3. ResultOf(r).instance = s.instance /\ ResultOf(r).vec = s.vec
    BY DEF ResultOf
  <2>4. Issued' = Issued \cup {s}
    BY <2>2, <2>3 DEF Issued
  <2>5. HasCommitment(s.vec) /\ (Len(s.vec) = 1 \/ Service!Covered(s))
    BY <2>1 DEF Inv, Signed, TdxsIssues, Service!Covered
  <2> HIDE DEF s
  <2>6. s \in Issued'
    BY <2>4
  <2>7. \E t \in Issued' :
          /\ Issued' = Issued \cup {t}
          /\ Service!HasCommitment(t.vec)
          /\ Len(t.vec) = 1 \/ Service!Covered(t)
    <3>1. Service!HasCommitment(s.vec)
      BY <2>5 DEF HasCommitment, Follows, Service!HasCommitment, Service!Follows
    <3>q. QED
      BY <2>4, <2>5, <2>6, <3>1, Zenon
  <2>q. QED
    BY <2>7, Zenon DEF Service!Issue
<1>q. QED
  BY <1>1, <1>2
     DEF Next, World, Extend, Unwind, Disturb, Serve, ProveShasta,
         ProveShastaAggregate, Accept, L2Answers, Proceed, Tdxs, NoHeader, SignProposal,
         RebuildSub, NotHex, Combine, TdxsFails, Cancel, Refuse

\* The server implements ProofService.
THEOREM SpecImplementsService == Spec => ImplementsService
<1>1. Init => Service!NothingIssued
  BY DEF Init, Service!NothingIssued, Issued
<1>2. Inv /\ [Next]_vars => [Service!Issue]_Issued
  <2>1. CASE UNCHANGED vars
    BY <2>1 DEF vars, Issued
  <2>q. QED
    BY <2>1, StepIssues
<1>q. QED
  BY <1>1, <1>2, Invariance, PTL DEF Spec, ImplementsService, Service!Spec
=============================================================================
