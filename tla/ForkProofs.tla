----------------------------- MODULE ForkProofs -----------------------------
(***************************************************************************)
(* The properties of Prover that are about lengths, links and steps: its   *)
(* type invariant, that the blocks of a result lie on one fork, and that a *)
(* request has only so many steps to take.                                 *)
(*                                                                         *)
(* The argument.  The header a request receives is a block's and names its *)
(* parent, whatever becomes of the chain afterwards.  Carry data that is   *)
(* continuous follows these links, so from the last block of a result the  *)
(* chain of parents goes through all the others.  A batch is as long as    *)
(* it was when it was accepted, and each fetched header ends up as one     *)
(* more element of the carry data, or ends the request.                    *)
(***************************************************************************)
EXTENDS ProverProofs, WellFoundedInduction

-----------------------------------------------------------------------------
(***************************************************************************)
(* The least of a set of natural numbers.  (SmallestNatural takes an       *)
(* operator as its parameter; this takes a set.)                           *)
(***************************************************************************)
Smaller == {ij \in Nat \X Nat : ij[1] < ij[2]}

LEMMA SmallerIsWellFounded == IsWellFoundedOn(Smaller, Nat)
<1>1. IsWellFoundedOn(OpToRel(<, Nat), Nat)
  BY NatLessThanWellFounded, Zenon
<1>q. QED
  BY <1>1 DEF OpToRel, Smaller

LEMMA Least ==
  ASSUME NEW T \in SUBSET Nat, T # {}
  PROVE  \E m \in T : \A n \in T : m <= n
<1>1. PICK m \in T : \A n \in T : ~ <<n, m>> \in Smaller
  BY SmallerIsWellFounded, WFMin
<1>2. \A n \in T : ~ (n < m)
  <2>1. TAKE n \in T
  <2>2. <<n, m>> \in Nat \X Nat /\ <<n, m>>[1] = n /\ <<n, m>>[2] = m
    OBVIOUS
  <2>q. QED
    BY <1>1, <2>2 DEF Smaller
<1>q. QED
  BY <1>2

\* The beginning of a beginning.
LEMMA PrefixOfPrefix ==
  ASSUME NEW S, NEW s \in Seq(S), NEW n \in 0..Len(s), NEW m \in 0..n
  PROVE  SubSeq(SubSeq(s, 1, n), 1, m) = SubSeq(s, 1, m)
<1>1. /\ SubSeq(s, 1, n) \in Seq(S) /\ Len(SubSeq(s, 1, n)) = n
      /\ \A i \in 1..n : SubSeq(s, 1, n)[i] = s[i]
  BY SubSeqProperties
<1>2. /\ SubSeq(s, 1, m) \in Seq(S) /\ Len(SubSeq(s, 1, m)) = m
      /\ \A i \in 1..m : SubSeq(s, 1, m)[i] = s[i]
  BY SubSeqProperties
<1> DEFINE t == SubSeq(s, 1, n)
<1>3. /\ SubSeq(t, 1, m) \in Seq(S) /\ Len(SubSeq(t, 1, m)) = m
      /\ \A i \in 1..m : SubSeq(t, 1, m)[i] = t[i]
  <2> HIDE DEF t
  <2>1. t \in Seq(S) /\ Len(t) = n
    BY <1>1 DEF t
  <2>q. QED
    BY <2>1, SubSeqProperties
<1>q. QED
  BY <1>1, <1>2, <1>3, SeqEqual

-----------------------------------------------------------------------------
(***************************************************************************)
(* One fork                                                                *)
(***************************************************************************)
\* Carry data names a block and, unless it is the genesis block, its parent.
Linked(c) ==
  /\ c.proposalId \in Nat
  /\ c.blockHash \in Seq(Labels)
  /\ Len(c.blockHash) = c.proposalId
  /\ c.proposalId # 0 => c.parentBlockHash = SubSeq(c.blockHash, 1, c.proposalId - 1)

\* The header that has come is the header of a block of the height asked for.
Received ==
  \A r \in Requests :
    pc[r] = "fetched" /\ header[r] # None =>
      Linked(ProposalCarryDataFromHeader(Current(r).payload, header[r]))

CarryLinked == \A r \in Requests : \A i \in 1..Len(carry[r]) : Linked(carry[r][i])

ResultsLinked == \A res \in results : \A i \in 1..Len(res.vec) : Linked(res.vec[i])

ForkInv == Received /\ CarryLinked /\ ResultsLinked

LEMMA HeaderAtLinked ==
  ASSUME canon \in Seq(Labels), NEW p \in Payloads, p.proposalId <= Len(canon)
  PROVE  Linked(ProposalCarryDataFromHeader(p, HeaderAt(p.proposalId)))
<1> DEFINE n == p.proposalId
           c == ProposalCarryDataFromHeader(p, HeaderAt(n))
<1>1. n \in Nat /\ n \in 0..Len(canon)
  BY ProverConstants
<1>2. /\ c.proposalId = n
      /\ c.blockHash = SubSeq(canon, 1, n)
      /\ n # 0 => c.parentBlockHash = SubSeq(canon, 1, n - 1)
  BY DEF ProposalCarryDataFromHeader, HeaderAt
<1>3. SubSeq(canon, 1, n) \in Seq(Labels) /\ Len(SubSeq(canon, 1, n)) = n
  BY <1>1, SubSeqProperties
<1>4. n # 0 => SubSeq(SubSeq(canon, 1, n), 1, n - 1) = SubSeq(canon, 1, n - 1)
  BY <1>1, PrefixOfPrefix
<1>5. Linked(c)
  <2> HIDE DEF c
  <2>q. QED
    BY <1>1, <1>2, <1>3, <1>4 DEF Linked
<1>q. QED
  BY <1>5

LEMMA L2AnswersFork ==
  ASSUME Inv, ForkInv, NEW r \in Requests, L2Answers(r)
  PROVE  ForkInv'
<1>1. /\ pc[r] = "fetch" /\ pc' = [pc EXCEPT ![r] = "fetched"]
      /\ UNCHANGED <<world, kind, subs, key, carry, results>>
  BY DEF L2Answers, Goto
<1>2. Current(r).payload \in Payloads
  BY <1>1 DEF Inv, Awaiting, ValidPayloads
<1>3. PICK h \in {None} \cup IF Current(r).payload.proposalId <= Len(canon)
                             THEN {HeaderAt(Current(r).payload.proposalId)} ELSE {} :
        header' = [header EXCEPT ![r] = h]
  BY DEF L2Answers
<1>4. h # None => Linked(ProposalCarryDataFromHeader(Current(r).payload, h))
  BY <1>2, <1>3, HeaderAtLinked DEF Inv, Shape
<1>5. Current(r)' = Current(r)
  BY <1>1 DEF Current
<1>6. Received'
  <2>1. SUFFICES ASSUME NEW q \in Requests, pc'[q] = "fetched", header'[q] # None
                 PROVE  Linked(ProposalCarryDataFromHeader(Current(q)'.payload, header'[q]))
    BY DEF Received
  <2>2. Current(q)' = Current(q)
    BY <1>1 DEF Current
  <2>3. CASE q = r
    BY <1>3, <1>4, <2>1, <2>2, <2>3 DEF Inv, Shape
  <2>4. CASE q # r
    BY <1>1, <1>3, <2>1, <2>2, <2>4 DEF Inv, Shape, ForkInv, Received
  <2>q. QED
    BY <2>3, <2>4
<1>q. QED
  BY <1>1, <1>6 DEF ForkInv, CarryLinked, ResultsLinked

\* A request's carry data may be dropped, or take in the element that has come.
LEMMA CarryFork ==
  ASSUME Inv, ForkInv, NEW r \in Requests, SignProposal(r) \/ RebuildSub(r)
  PROVE  ForkInv'
<1> DEFINE c == ProposalCarryDataFromHeader(Current(r).payload, header[r])
<1>1. pc[r] = "fetched" /\ Linked(c)
  BY DEF ForkInv, Received, SignProposal, RebuildSub
<1> HIDE DEF c
<1>2. /\ \E l \in Locations \ {"fetched"} : pc' = [pc EXCEPT ![r] = l]
      /\ carry' \in {[carry EXCEPT ![r] = v] : v \in {<<>>, <<c>>, Append(carry[r], c)}}
      /\ \A q \in Requests \ {r} : subs'[q] = subs[q] /\ header'[q] = header[q]
      /\ results' = results
  <2>1. CASE Refuse(r)
    BY <2>1 DEF Refuse, Respond, Goto, Locations, Inv, Shape
  <2>2. CASE SignProposal(r) /\ ~ Refuse(r)
    BY <2>2 DEF SignProposal, Goto, Locations, Inv, Shape, c
  <2>3. CASE RebuildSub(r) /\ ~ Refuse(r)
    BY <2>3 DEF RebuildSub, Goto, Locations, Inv, Shape, c
  <2>q. QED
    BY <2>1, <2>2, <2>3
<1>3. PICK v \in {<<>>, <<c>>, Append(carry[r], c)} : carry' = [carry EXCEPT ![r] = v]
  BY <1>2
<1>4. \A i \in 1..Len(v) : Linked(v[i])
  <2>1. CASE v = <<>> \/ v = <<c>>
    BY <1>1, <2>1
  <2>2. CASE v = Append(carry[r], c)
    BY <1>1, <2>2 DEF Inv, Shape, ForkInv, CarryLinked
  <2>q. QED
    BY <1>3, <2>1, <2>2
<1>5. Received'
  BY <1>2, <1>3 DEF Inv, Shape, ForkInv, Received, Current
<1>6. CarryLinked'
  BY <1>3, <1>4 DEF Inv, Shape, ForkInv, CarryLinked
<1>q. QED
  BY <1>2, <1>5, <1>6 DEF ForkInv, ResultsLinked

\* Steps that take no element in leave the others as they are, or drop them.
LEMMA OtherFork ==
  ASSUME Inv, ForkInv, NEW r \in Requests,
         \/ ProveShasta(r) \/ ProveShastaAggregate(r) \/ Refuse(r) \/ Combine(r)
         \/ TdxsIssues(r)
  PROVE  ForkInv'
<1>1. /\ \E l \in Locations \ {"fetched"} : pc' = [pc EXCEPT ![r] = l]
      /\ carry' = carry \/ carry' = [carry EXCEPT ![r] = <<>>]
      /\ \A q \in Requests \ {r} : subs'[q] = subs[q] /\ header'[q] = header[q]
      /\ results' = results \/ results' = results \cup {ResultOf(r)}
  <2>1. CASE ProveShasta(r) \/ ProveShastaAggregate(r)
    BY <2>1 DEF ProveShasta, ProveShastaAggregate, Accept, Goto, Locations, Inv, Shape
  <2>2. CASE Refuse(r)
    BY <2>2 DEF Refuse, Respond, Goto, Locations, Inv, Shape
  <2>3. CASE Combine(r) /\ ~ Refuse(r)
    BY <2>3 DEF Combine, Goto, Locations, Inv, Shape
  <2>4. CASE TdxsIssues(r)
    BY <2>4 DEF TdxsIssues, Respond, Goto, Locations, Inv, Shape
  <2>q. QED
    BY <2>1, <2>2, <2>3, <2>4
<1>2. Received'
  BY <1>1 DEF Inv, Shape, ForkInv, Received, Current
<1>3. CarryLinked'
  <2>1. ASSUME NEW q \in Requests PROVE carry'[q] \in {carry[q], <<>>}
    BY <1>1 DEF Inv, Shape
  <2>q. QED
    BY <2>1 DEF ForkInv, CarryLinked
<1>4. ResultOf(r).vec = carry[r]
  BY DEF ResultOf
<1>5. ResultsLinked'
  BY <1>1, <1>4 DEF ForkInv, CarryLinked, ResultsLinked
<1>q. QED
  BY <1>2, <1>3, <1>5 DEF ForkInv

LEMMA DisturbFork ==
  ASSUME Inv, ForkInv, NEW S \in SUBSET Requests, Disturb(S)
  PROVE  ForkInv'
<1>1. /\ results' = results
      /\ \A r \in S : pc'[r] = "idle" /\ carry'[r] = <<>>
      /\ \A r \in Requests \ S :
           /\ pc'[r] = pc[r] /\ subs'[r] = subs[r]
           /\ header'[r] = header[r] /\ carry'[r] = carry[r]
  BY DEF Disturb
<1>2. Received'
  BY <1>1 DEF ForkInv, Received, Current
<1>3. CarryLinked'
  BY <1>1 DEF ForkInv, CarryLinked
<1>q. QED
  BY <1>1, <1>2, <1>3 DEF ForkInv, ResultsLinked

LEMMA ForkNextInv ==
  ASSUME Inv, ForkInv, [Next]_vars
  PROVE  ForkInv'
<1>1. CASE UNCHANGED vars
  BY <1>1 DEF vars, ForkInv, Received, Current, CarryLinked, ResultsLinked
<1>2. CASE Extend \/ Unwind
  BY <1>2 DEF Extend, Unwind, ForkInv, Received, Current, CarryLinked, ResultsLinked
<1>3. ASSUME NEW S \in SUBSET Requests, Disturb(S) PROVE ForkInv'
  BY <1>3, DisturbFork
<1>4. ASSUME NEW r \in Requests, Serve(r) PROVE ForkInv'
  BY <1>4, L2AnswersFork, CarryFork, OtherFork
     DEF Serve, Proceed, Tdxs, NoHeader, NotHex, TdxsFails, Cancel
<1>q. QED
  BY <1>1, <1>2, <1>3, <1>4 DEF Next, World

\* Following the parents from the last block of a list leads through all of it.
LEMMA LinkedIsOneFork ==
  ASSUME NEW v \in Seq(CarryData), HasCommitment(v), \A i \in 1..Len(v) : Linked(v[i]),
         NEW i \in 1..Len(v)
  PROVE  LET tip == v[Len(v)].blockHash
         IN  \E n \in 0..Len(tip) : v[i].blockHash = SubSeq(tip, 1, n)
<1> DEFINE tip == v[Len(v)].blockHash
           OnFork(j) == \E n \in 0..Len(tip) : v[j].blockHash = SubSeq(tip, 1, n)
           T == {d \in 0..(Len(v) - 1) : ~ OnFork(Len(v) - d)}
<1>1. Len(v) \in Nat /\ Len(v) \in 1..Len(v) /\ tip \in Seq(Labels) /\ Len(tip) \in Nat
  <2>1. Len(v) \in Nat /\ Len(v) \in 1..Len(v)
    OBVIOUS
  <2>q. QED
    BY <2>1 DEF Linked
<1>2. OnFork(Len(v))
  <2>1. SubSeq(tip, 1, Len(tip)) = tip
    BY <1>1, SubSeqFull
  <2>q. QED
    BY <1>1, <2>1
<1>3. ASSUME NEW d \in T, d # 0, d - 1 \notin T PROVE FALSE
  <2> DEFINE j == Len(v) - d
  <2>1. j \in 1..(Len(v) - 1) /\ j + 1 \in 1..Len(v) /\ Len(v) - (d - 1) = j + 1
        /\ d - 1 \in 0..(Len(v) - 1)
    BY <1>1, <1>3
  <2>2. OnFork(j + 1)
    BY <1>3, <2>1
  <2>3. PICK n \in 0..Len(tip) : v[j + 1].blockHash = SubSeq(tip, 1, n)
    BY <2>2
  <2>4. /\ Linked(v[j]) /\ Linked(v[j + 1])
        /\ v[j + 1].proposalId = v[j].proposalId + 1
        /\ v[j + 1].parentBlockHash = v[j].blockHash
    BY <2>1 DEF HasCommitment, Follows
  <2>5. v[j].blockHash = SubSeq(v[j + 1].blockHash, 1, v[j].proposalId)
    BY <2>4 DEF Linked
  <2>6. n = v[j].proposalId + 1
    <3>1. Len(SubSeq(tip, 1, n)) = n
      BY <1>1, <2>3, SubSeqProperties
    <3>q. QED
      BY <2>3, <2>4, <3>1 DEF Linked
  <2>7. v[j].proposalId = n - 1 /\ n - 1 \in 0..n /\ n - 1 \in 0..Len(tip)
    <3>1. v[j].proposalId \in Nat
      BY <2>4 DEF Linked
    <3> HIDE DEF tip, j
    <3>q. QED
      BY <1>1, <2>6, <3>1
  <2>8. SubSeq(SubSeq(tip, 1, n), 1, n - 1) = SubSeq(tip, 1, n - 1)
    <3> HIDE DEF tip
    <3>q. QED
      BY <1>1, <2>7, PrefixOfPrefix
  <2>9. v[j].blockHash = SubSeq(tip, 1, n - 1)
    BY <2>3, <2>5, <2>7, <2>8
  <2>10. OnFork(j)
    BY <2>7, <2>9
  <2>q. QED
    BY <1>3, <2>10
<1>4. T = {}
  <2>1. SUFFICES ASSUME T # {} PROVE FALSE
    OBVIOUS
  <2>2. PICK d \in T : \A e \in T : d <= e
    <3>1. T \in SUBSET Nat
      BY <1>1
    <3> HIDE DEF T
    <3>q. QED
      BY <2>1, <3>1, Least
  <2>3. d # 0
    BY <1>1, <1>2
  <2>4. d - 1 \notin T
    <3>1. d \in Nat
      BY <1>1
    <3> HIDE DEF T
    <3>q. QED
      BY <2>2, <3>1
  <2>q. QED
    BY <1>3, <2>3, <2>4
<1>5. Len(v) - i \in 0..(Len(v) - 1) /\ Len(v) - (Len(v) - i) = i
  BY <1>1
<1>q. QED
  BY <1>4, <1>5

\* The blocks of a result lie on one fork, through any reorgs between its fetches.
THEOREM SpecOneFork == Spec => []OneFork
<1>1. Init => ForkInv
  BY DEF Init, ForkInv, Received, CarryLinked, ResultsLinked
<1>2. Inv /\ ForkInv => OneFork
  BY LinkedIsOneFork DEF Inv, ForkInv, ResultShape, ResultsVerify, ResultsLinked, OneFork
<1>q. QED
  BY <1>1, <1>2, Invariance, ForkNextInv, PTL DEF Spec
-----------------------------------------------------------------------------
(***************************************************************************)
(* Lengths                                                                 *)
(***************************************************************************)
MaxSubs(k) == IF k = "prove" THEN 1 ELSE MaxBatch

\* The bounds of TypeOK, with the length of a batch a number.
Sized ==
  /\ Len(canon) <= MaxHeight
  /\ \A r \in Requests :
       /\ Len(subs[r]) \in Nat
       /\ Len(subs[r]) <= MaxSubs(kind[r])
       /\ Len(carry[r]) <= Len(subs[r])

\* A step of one request does nothing to the others, and keeps its own bounds.
LEMMA OwnSizes ==
  ASSUME Inv, Sized, NEW r \in Requests, canon' = canon,
         \A q \in Requests \ {r} :
           subs'[q] = subs[q] /\ kind'[q] = kind[q] /\ carry'[q] = carry[q],
         Len(subs'[r]) \in Nat, Len(subs'[r]) <= MaxSubs(kind'[r]),
         Len(carry'[r]) <= Len(subs'[r])
  PROVE  Sized'
BY DEF Sized, MaxSubs

LEMMA ServeSizes ==
  ASSUME Inv, Sized, NEW r \in Requests, Serve(r)
  PROVE  Sized'
<1>1. CASE ProveShasta(r)
  <2> DEFINE ss(p) == <<[payload |-> p, input |-> None, proof |-> None]>>
  <2>0. \A p : Len(ss(p)) = 1
    OBVIOUS
  <2> HIDE DEF ss
  <2>1. PICK p \in ValidPayloads : Accept(r, "prove", ss(p))
    BY <1>1 DEF ProveShasta, ValidPayloads, ss
  <2>2. subs'[r] = ss(p) /\ carry'[r] = <<>>
    BY <1>1, <2>1 DEF ProveShasta, Free, Accept, Inv, Shape, Clean
  <2>3. /\ kind'[r] = "prove" /\ canon' = canon
        /\ \A q \in Requests \ {r} :
             subs'[q] = subs[q] /\ kind'[q] = kind[q] /\ carry'[q] = carry[q]
    BY <2>1 DEF Accept, world, Inv, Shape
  <2>4. Len(subs'[r]) = 1 /\ Len(carry'[r]) = 0 /\ MaxSubs(kind'[r]) = 1
    BY <2>0, <2>2, <2>3 DEF MaxSubs
  <2>5. /\ Len(subs'[r]) \in Nat /\ Len(subs'[r]) <= MaxSubs(kind'[r])
        /\ Len(carry'[r]) <= Len(subs'[r])
    BY <2>4
  <2>q. QED
    BY <2>3, <2>5, OwnSizes
<1>2. CASE ProveShastaAggregate(r)
  <2>1. PICK ss \in Batches : Accept(r, "aggregate", ss)
    BY <1>2 DEF ProveShastaAggregate
  <2>2. PICK n \in 0..MaxBatch : ss \in [1..n -> SubProofs]
    BY <2>1 DEF Batches
  <2>3. Len(ss) = n /\ n \in Nat /\ n <= MaxBatch
    BY <2>2, ProverConstants
  <2>4. /\ subs'[r] = ss /\ kind'[r] = "aggregate" /\ carry'[r] = <<>>
        /\ canon' = canon
        /\ \A q \in Requests \ {r} :
             subs'[q] = subs[q] /\ kind'[q] = kind[q] /\ carry'[q] = carry[q]
    BY <1>2, <2>1 DEF ProveShastaAggregate, Free, Accept, world, Inv, Shape, Clean
  <2>q. QED
    BY <2>3, <2>4, OwnSizes DEF MaxSubs
<1>3. CASE Refuse(r) \/ TdxsIssues(r)
  <2>1. /\ subs'[r] = <<>> /\ carry'[r] = <<>> /\ kind' = kind /\ canon' = canon
        /\ \A q \in Requests \ {r} : subs'[q] = subs[q] /\ carry'[q] = carry[q]
    BY <1>3 DEF Refuse, TdxsIssues, Respond, world, Inv, Shape
  <2>2. 0 <= MaxSubs(kind'[r])
    BY ProverConstants DEF MaxSubs
  <2>q. QED
    BY <2>1, <2>2, OwnSizes
<1>4. CASE L2Answers(r) \/ (Combine(r) /\ ~ Refuse(r))
  BY <1>4 DEF L2Answers, Combine, world, Sized
<1>5. CASE (SignProposal(r) \/ RebuildSub(r)) /\ ~ Refuse(r)
  <2> DEFINE c == ProposalCarryDataFromHeader(Current(r).payload, header[r])
  <2>1. /\ pc[r] = "fetched" /\ UNCHANGED <<world, kind, subs>>
        /\ \/ carry' = [carry EXCEPT ![r] = <<c>>]
           \/ carry' = [carry EXCEPT ![r] = Append(carry[r], c)]
    BY <1>5 DEF SignProposal, RebuildSub
  <2> HIDE DEF c
  <2>2. Len(carry[r]) < Len(subs[r]) /\ carry[r] \in Seq(CarryData)
    BY <2>1 DEF Inv, Awaiting, Shape
  <2>3. Len(carry'[r]) <= Len(carry[r]) + 1
    <3>1. CASE carry' = [carry EXCEPT ![r] = <<c>>]
      <4>1. Len(carry'[r]) = 1
        BY <3>1 DEF Inv, Shape
      <4>q. QED
        BY <2>2, <4>1
    <3>2. CASE carry' = [carry EXCEPT ![r] = Append(carry[r], c)]
      <4>1. Len(carry'[r]) = Len(carry[r]) + 1
        BY <2>2, <3>2 DEF Inv, Shape
      <4>q. QED
        BY <2>2, <4>1
    <3>q. QED
      BY <2>1, <3>1, <3>2
  <2>4. /\ Len(carry[r]) \in Nat /\ Len(carry'[r]) \in Nat
        /\ Len(subs[r]) \in Nat /\ Len(subs[r]) <= MaxSubs(kind[r])
    BY <2>1, <2>2 DEF Inv, Shape, Sized
  <2>q. QED
    BY <2>1, <2>2, <2>3, <2>4, OwnSizes DEF Inv, Shape, world
<1>q. QED
  BY <1>1, <1>2, <1>3, <1>4, <1>5
     DEF Serve, Proceed, Tdxs, NoHeader, NotHex, TdxsFails, Cancel

LEMMA WorldSizes ==
  ASSUME Inv, Sized, World
  PROVE  Sized'
<1>1. CASE Extend
  BY <1>1, ProverConstants DEF Extend, Inv, Shape, Sized
<1>2. CASE Unwind
  <2>1. PICK n \in 0..(Len(canon) - 1) : canon' = SubSeq(canon, 1, n)
    BY <1>2 DEF Unwind
  <2>2. Len(canon') = n /\ Len(canon) \in Nat
    BY <2>1, SubSeqProperties DEF Inv, Shape
  <2>q. QED
    BY <1>2, <2>2, ProverConstants DEF Unwind, Sized
<1>3. ASSUME NEW S \in SUBSET Requests, Disturb(S) PROVE Sized'
  <2>1. \A k : 0 <= MaxSubs(k)
    BY ProverConstants DEF MaxSubs
  <2>2. canon' = canon /\ kind' = kind
    BY <1>3 DEF Disturb
  <2>3. ASSUME NEW r \in Requests
        PROVE  \/ subs'[r] = subs[r] /\ carry'[r] = carry[r]
               \/ subs'[r] = <<>> /\ carry'[r] = <<>>
    BY <1>3 DEF Disturb
  <2>q. QED
    BY <2>1, <2>2, <2>3 DEF Sized
<1>q. QED
  BY <1>1, <1>2, <1>3 DEF World

LEMMA Sizes == Spec => []Sized
<1>1. Init => Sized
  <2>1. 0 <= MaxSubs("prove") /\ 0 <= MaxHeight
    BY ProverConstants DEF MaxSubs
  <2>q. QED
    BY <2>1 DEF Init, Sized
<1>2. Inv /\ Sized /\ [Next]_vars => Sized'
  <2>1. UNCHANGED vars => (Sized => Sized')
    BY DEF vars, Sized
  <2>q. QED
    BY <2>1, ServeSizes, WorldSizes DEF Next
<1>q. QED
  BY <1>1, <1>2, Invariance, PTL DEF Spec

\* Every variable keeps its type and its bounds: a loop over a batch never runs past
\* its end, and no batch is empty.
THEOREM SpecTypeOK == Spec => []TypeOK
<1>1. Inv /\ Sized => TypeOK
  BY DEF Inv, Shape, Awaiting, Sized, MaxSubs, TypeOK
<1>q. QED
  BY <1>1, Invariance, Sizes, PTL
-----------------------------------------------------------------------------
(***************************************************************************)
(* Steps                                                                   *)
(***************************************************************************)
\* What a step leaves of a request it does not serve.
Untouched(r) == UNCHANGED <<pc[r], subs[r], key[r], header[r], carry[r]>>

\* The headers request r still needs.
HeadersLeft(r) == Len(subs[r]) - Len(carry[r])

LEMMA Difference ==
  ASSUME NEW a \in Nat, NEW b \in Nat, b <= a
  PROVE  a - b \in Nat /\ a - b <= a /\ (b < a => a - b >= 1)
OBVIOUS

LEMMA HeadersLeftType ==
  ASSUME Inv, Sized, NEW r \in Requests
  PROVE  /\ HeadersLeft(r) \in Nat
         /\ pc[r] \in {"fetch", "fetched"} => HeadersLeft(r) >= 1
         /\ HeadersLeft(r) <= Len(subs[r])
<1>1. /\ Len(subs[r]) \in Nat /\ Len(carry[r]) \in Nat /\ Len(carry[r]) <= Len(subs[r])
      /\ pc[r] \in {"fetch", "fetched"} => Len(carry[r]) < Len(subs[r])
  BY DEF Inv, Shape, Awaiting, Sized
<1>q. QED
  BY <1>1, Difference, Zenon DEF HeadersLeft

\* StepsLeft in a state and in the next.
LEMMA StepsLeftIs ==
  ASSUME NEW r
  PROVE  /\ StepsLeft(r) = StepsAt(pc[r], HeadersLeft(r))
         /\ StepsLeft(r)' = StepsAt(pc'[r], HeadersLeft(r)')
BY DEF StepsLeft, StepsAt, HeadersLeft

\* The steps left at each location.
LEMMA StepsAtValues ==
  \A n : /\ StepsAt("idle", n) = 0 /\ StepsAt("quote", n) = 1 /\ StepsAt("combine", n) = 2
         /\ StepsAt("fetched", n) = 2 * n + 1 /\ StepsAt("fetch", n) = 2 * n + 2
BY DEF StepsAt

\* A request that ends has no more steps to take.
LEMMA EndsLower ==
  ASSUME Inv, Sized, NEW r \in Requests, pc[r] # "idle", pc'[r] = "idle"
  PROVE  StepsLeft(r)' < StepsLeft(r)
<1>1. pc[r] \in Locations \ {"idle"}
  BY DEF Inv, Shape
<1>2. HeadersLeft(r) \in Nat
  BY HeadersLeftType
<1>3. StepsLeft(r)' = 0
  BY StepsLeftIs, StepsAtValues
<1>4. StepsLeft(r) \in Nat /\ StepsLeft(r) >= 1
  BY <1>1, <1>2, StepsLeftIs, StepsAtValues DEF Locations
<1>q. QED
  BY <1>2, <1>3, <1>4

\* The steps left before and after each step of a request that goes on.
LEMMA CountsDown ==
  ASSUME NEW n \in Nat
  PROVE  /\ 2 * n + 1 < 2 * n + 2
         /\ n >= 1 => 1 < 2 * n + 1 /\ 2 < 2 * n + 1 /\ 2 * (n - 1) + 2 < 2 * n + 1
OBVIOUS

\* Every step of a request takes it nearer to its end.
LEMMA ServeWindsDown ==
  ASSUME Inv, Sized, NEW r \in Requests, Serve(r), pc[r] # "idle"
  PROVE  StepsLeft(r)' < StepsLeft(r)
<1> DEFINE n == HeadersLeft(r)
<1>1. /\ n \in Nat
      /\ pc[r] \in {"fetch", "fetched"} => n >= 1
      /\ StepsLeft(r) = StepsAt(pc[r], n)
      /\ StepsLeft(r)' = StepsAt(pc'[r], HeadersLeft(r)')
  BY HeadersLeftType, StepsLeftIs
<1>2. \A l : pc' = [pc EXCEPT ![r] = l] => pc'[r] = l
  BY DEF Inv, Shape
<1>3. CASE Refuse(r) \/ TdxsIssues(r)
  BY <1>2, <1>3, EndsLower DEF Refuse, TdxsIssues, Respond, Goto
<1>4. CASE L2Answers(r)
  <2>1. pc[r] = "fetch" /\ pc'[r] = "fetched" /\ HeadersLeft(r)' = n
    BY <1>2, <1>4 DEF L2Answers, Goto, HeadersLeft
  <2>2. StepsLeft(r) = 2 * n + 2 /\ StepsLeft(r)' = 2 * n + 1
    BY <1>1, <2>1, StepsAtValues
  <2>3. n \in Nat /\ n >= 1
    BY <1>1, <2>1
  <2> HIDE DEF n
  <2>q. QED
    BY <2>2, <2>3, CountsDown, Zenon
<1>5. CASE SignProposal(r) /\ ~ Refuse(r)
  <2>1. pc[r] = "fetched" /\ pc'[r] = "quote"
    BY <1>2, <1>5 DEF SignProposal, Goto
  <2>2. StepsLeft(r) = 2 * n + 1 /\ StepsLeft(r)' = 1
    BY <1>1, <2>1, StepsAtValues
  <2>3. n \in Nat /\ n >= 1
    BY <1>1, <2>1
  <2> HIDE DEF n
  <2>q. QED
    BY <2>2, <2>3, CountsDown, Zenon
<1>6. CASE RebuildSub(r) /\ ~ Refuse(r)
  <2> DEFINE c == ProposalCarryDataFromHeader(Current(r).payload, header[r])
             done == Len(carry[r]) + 1 = Len(subs[r])
  <2>1. /\ pc[r] = "fetched" /\ pc'[r] = (IF done THEN "combine" ELSE "fetch")
        /\ subs' = subs /\ carry' = [carry EXCEPT ![r] = Append(carry[r], c)]
    BY <1>2, <1>6 DEF RebuildSub, Goto
  <2> HIDE DEF c, done
  <2>2. Len(carry'[r]) = Len(carry[r]) + 1
    BY <2>1 DEF Inv, Shape
  <2>3. HeadersLeft(r)' = n - 1
    BY <2>1, <2>2 DEF Inv, Shape, Sized, HeadersLeft
  <2>4. /\ StepsLeft(r) = 2 * n + 1
        /\ StepsLeft(r)' = IF done THEN 2 ELSE 2 * (n - 1) + 2
    BY <1>1, <2>1, <2>3, StepsAtValues
  <2>5. n \in Nat /\ n >= 1
    BY <1>1, <2>1
  <2> HIDE DEF n
  <2>q. QED
    BY <2>4, <2>5, CountsDown, Zenon
<1>7. CASE Combine(r) /\ ~ Refuse(r)
  <2>1. pc[r] = "combine" /\ pc'[r] = "quote"
    BY <1>2, <1>7 DEF Combine, Goto
  <2>q. QED
    BY <1>1, <2>1, StepsAtValues
<1>8. CASE ProveShasta(r) \/ ProveShastaAggregate(r)
  BY <1>8 DEF ProveShasta, ProveShastaAggregate, Free
<1>q. QED
  BY <1>3, <1>4, <1>5, <1>6, <1>7, <1>8
     DEF Serve, Proceed, Tdxs, NoHeader, NotHex, TdxsFails, Cancel

\* Serving one request does nothing to another.
LEMMA ServeTouchesOne ==
  ASSUME Inv, NEW q \in Requests, Serve(q), NEW r \in Requests \ {q}
  PROVE  Untouched(r)
BY DEF Inv, Shape, Untouched, Serve, Proceed, Tdxs, ProveShasta, ProveShastaAggregate, Accept,
       L2Answers, NoHeader, SignProposal, RebuildSub, NotHex, Combine, TdxsIssues, TdxsFails,
       Cancel, Refuse, Respond, Goto

\* The world leaves a request alone, or its process takes it down.
LEMMA WorldWindsDown ==
  ASSUME Inv, Sized, World, NEW r \in Requests, pc[r] # "idle"
  PROVE  StepsLeft(r)' < StepsLeft(r) \/ Untouched(r)
<1>1. CASE Extend \/ Unwind
  BY <1>1 DEF Extend, Unwind, Untouched
<1>2. ASSUME NEW S \in SUBSET Requests, Disturb(S)
      PROVE  StepsLeft(r)' < StepsLeft(r) \/ Untouched(r)
  <2>1. CASE r \in S
    BY <1>2, <2>1, EndsLower DEF Disturb
  <2>2. CASE r \notin S
    BY <1>2, <2>2 DEF Disturb, Untouched
  <2>q. QED
    BY <2>1, <2>2
<1>q. QED
  BY <1>1, <1>2 DEF World

\* An accepted request ends after a bounded number of steps of its own, for batches of
\* any length and whatever happens around it: only the waits between them are up to
\* the node, the daemon and the scheduler.
THEOREM SpecRequestsWindDown == Spec => RequestsWindDown
<1>1. Inv /\ Sized /\ [Next]_vars
        => [\A r \in Requests :
              \/ pc[r] = "idle"
              \/ StepsLeft(r)' < StepsLeft(r)
              \/ UNCHANGED <<pc[r], subs[r], key[r], header[r], carry[r]>>]_vars
  BY ServeWindsDown, ServeTouchesOne, WorldWindsDown DEF Next, Untouched
<1>q. QED
  BY <1>1, Invariance, Sizes, PTL DEF Spec, RequestsWindDown

\* How many steps that are at most.
THEOREM SpecStepsLeftBounded ==
  Spec => [](\A r \in Requests : StepsLeft(r) \in 0..(2 * MaxSubs(kind[r]) + 2))
<1>1. Inv /\ Sized => \A r \in Requests : StepsLeft(r) \in 0..(2 * MaxSubs(kind[r]) + 2)
  <2>1. SUFFICES ASSUME Inv, Sized, NEW r \in Requests
                 PROVE  StepsLeft(r) \in 0..(2 * MaxSubs(kind[r]) + 2)
    OBVIOUS
  <2> DEFINE n == HeadersLeft(r)
             m == MaxSubs(kind[r])
  <2>2. m \in Nat
    BY ProverConstants DEF MaxSubs
  <2>3. n \in Nat /\ n <= m
    <3>1. Len(subs[r]) \in Nat /\ Len(subs[r]) <= m
      BY <2>1 DEF Sized
    <3>2. n \in Nat /\ n <= Len(subs[r])
      BY <2>1, HeadersLeftType
    <3> HIDE DEF n, m
    <3>q. QED
      BY <2>2, <3>1, <3>2
  <2>4. StepsLeft(r) \in {0, 1, 2, 2 * n + 1, 2 * n + 2}
    BY <2>1, StepsLeftIs, StepsAtValues DEF Inv, Shape, Locations
  <2> HIDE DEF n, m
  <2>5. StepsLeft(r) \in 0..(2 * m + 2)
    BY <2>2, <2>3, <2>4
  <2>q. QED
    BY <2>5 DEF m
<1>q. QED
  BY <1>1, Invariance, Sizes, PTL
=============================================================================
