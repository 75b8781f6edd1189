-------------------------- MODULE TdxsClientProofs --------------------------
(***************************************************************************)
(* TdxsClient, for any number of calls and threads, and whatever the       *)
(* daemon does.                                                            *)
(*                                                                         *)
(* The argument.  While an exchange is under way its caller has no answer  *)
(* yet, so what the buffer still takes in cannot spoil an answer given;    *)
(* and the answer is given where the buffer is looked at.  A caller waits  *)
(* or is gone exactly while its one exchange is under way, so an exchange  *)
(* ends for the call that began it.                                        *)
(***************************************************************************)
EXTENDS TdxsClient, FiniteSetTheorems, TLAPS

\* The variables the argument is about are functions on Calls.
Shape ==
  /\ task   \in [Calls -> {"none", "queued", "connect", "send", "read"}]
  /\ caller \in [Calls -> {"idle", "waiting", "gone"}]
  /\ buf    \in [Calls -> {"empty", "part", "whole"}]
  /\ answer \in [Calls -> {"none", "ok", "error"}]

\* A caller waits exactly while there is an exchange for it or left by it.
Attended == \A c \in Calls : caller[c] = "idle" <=> task[c] = "none"

\* Nothing is answered before the exchange ends.
Unanswered == \A c \in Calls : task[c] # "none" => answer[c] = "none"

\* The queue holds calls that wait for a thread, each once.
Queueing ==
  /\ queue \in Seq(Calls)
  /\ \A i \in 1..Len(queue) : task[queue[i]] = "queued"
  /\ \A i, j \in 1..Len(queue) : queue[i] = queue[j] => i = j

Inv == Shape /\ Attended /\ Unanswered /\ Queueing /\ AnswersAreWhole

LEMMA InitInv == Init => Inv
BY DEF Init, Inv, Shape, Attended, Unanswered, Queueing, AnswersAreWhole

\* An exchange that ends with "ok" only on a whole answer preserves Inv.
LEMMA EndInv ==
  ASSUME Inv, NEW c \in Calls, NEW a \in {"ok", "error"}, End(c, a),
         task[c] \in {"connect", "send", "read"}, a = "ok" => buf[c] = "whole"
  PROVE  Inv'
<1>1. /\ task'   = [task   EXCEPT ![c] = "none"]
      /\ caller' = [caller EXCEPT ![c] = "idle"]
      /\ answer' = [answer EXCEPT ![c] = IF caller[c] = "waiting" THEN a ELSE answer[c]]
      /\ UNCHANGED <<buf, queue>>
  BY DEF End
<1>2. Shape' /\ Attended' /\ Unanswered'
  BY <1>1 DEF Inv, Shape, Attended, Unanswered
<1>3. AnswersAreWhole'
  BY <1>1 DEF Inv, Shape, AnswersAreWhole
<1>4. Queueing'
  BY <1>1 DEF Inv, Shape, Queueing
<1>q. QED
  BY <1>2, <1>3, <1>4 DEF Inv

\* The first in the queue waits for a thread, and is in the queue only once.
LEMMA StartTaskInv ==
  ASSUME Inv, NEW c \in Calls, StartTask(c)
  PROVE  Inv'
<1>1. /\ queue \in Seq(Calls) /\ queue # <<>> /\ c = queue[1]
      /\ queue' = Tail(queue)
      /\ task' = [task EXCEPT ![c] = "connect"]
      /\ UNCHANGED <<caller, buf, answer>>
  BY DEF StartTask, Inv, Queueing
<1>2. /\ Tail(queue) \in Seq(Calls)
      /\ Len(Tail(queue)) = Len(queue) - 1
      /\ \A i \in 1..(Len(queue) - 1) : Tail(queue)[i] = queue[i + 1]
  BY <1>1
<1>3. Len(queue) \in Nat /\ 1 \in 1..Len(queue)
  BY <1>1
<1>4. task[c] = "queued"
  BY <1>1, <1>3 DEF Inv, Queueing
<1>5. Shape' /\ Attended' /\ Unanswered' /\ AnswersAreWhole'
  BY <1>1, <1>4 DEF Inv, Shape, Attended, Unanswered, AnswersAreWhole
<1>6. Queueing'
  <2>1. \A i \in 1..(Len(queue) - 1) :
          i + 1 \in 1..Len(queue) /\ queue[i + 1] # c /\ queue[i + 1] \in Calls
    BY <1>1, <1>3 DEF Inv, Queueing
  <2>2. \A i \in 1..Len(queue') : task'[queue'[i]] = "queued"
    BY <1>1, <1>2, <2>1 DEF Inv, Shape, Queueing
  <2>3. \A i, j \in 1..Len(queue') : queue'[i] = queue'[j] => i = j
    <3>1. TAKE i, j \in 1..Len(queue')
    <3>2. i \in 1..(Len(queue) - 1) /\ j \in 1..(Len(queue) - 1)
      BY <1>1, <1>2
    <3>3. i + 1 \in 1..Len(queue) /\ j + 1 \in 1..Len(queue)
      BY <1>3, <3>2
    <3>4. queue[i + 1] = queue[j + 1] => i + 1 = j + 1
      BY <3>3 DEF Inv, Queueing
    <3>q. QED
      BY <1>1, <1>2, <3>2, <3>4
  <2>q. QED
    BY <1>1, <1>2, <2>2, <2>3 DEF Queueing
<1>q. QED
  BY <1>5, <1>6 DEF Inv

LEMMA ExchangeInv ==
  ASSUME Inv, NEW c \in Calls, Exchange(c)
  PROVE  Inv'
<1>1. CASE StartTask(c)
  BY <1>1, StartTaskInv
<1>6. CASE Connect(c)
  BY <1>6 DEF Connect, Inv, Shape, Attended, Unanswered, Queueing, AnswersAreWhole
<1>2. CASE ConnectFails(c)
  BY <1>2, EndInv DEF ConnectFails
<1>3. CASE Send(c)
  <2>1. CASE End(c, "error")
    BY <1>3, <2>1, EndInv DEF Send
  <2>2. CASE ~ End(c, "error")
    BY <1>3, <2>2 DEF Send, Inv, Shape, Attended, Unanswered, Queueing, AnswersAreWhole
  <2>q. QED
    BY <2>1, <2>2
<1>4. CASE ReadEof(c)
  <2>1. PICK a \in {"error"} \cup (IF buf[c] = "whole" THEN {"ok"} ELSE {}) : End(c, a)
    BY <1>4 DEF ReadEof
  <2>q. QED
    BY <1>4, <2>1, EndInv DEF ReadEof
<1>5. CASE Period(c)
  <2>1. CASE End(c, "error")
    BY <1>5, <2>1, EndInv DEF Period
  <2>2. CASE ~ End(c, "error")
    BY <1>5, <2>2 DEF Period, Inv, Shape, Attended, Unanswered, Queueing, AnswersAreWhole
  <2>q. QED
    BY <2>1, <2>2
<1>q. QED
  BY <1>1, <1>6, <1>2, <1>3, <1>4, <1>5 DEF Exchange

\* A call that starts is not in the queue yet.
LEMMA CallInv ==
  ASSUME Inv, NEW c \in Calls, Call(c)
  PROVE  Inv'
<1>1. /\ task[c] = "none"
      /\ queue' = Append(queue, c)
      /\ task' = [task EXCEPT ![c] = "queued"]
      /\ queue \in Seq(Calls)
  BY DEF Call, Inv, Attended, Queueing
<1>2. Shape' /\ Attended' /\ Unanswered' /\ AnswersAreWhole'
  BY DEF Call, Inv, Shape, Attended, Unanswered, AnswersAreWhole
<1>3. /\ Append(queue, c) \in Seq(Calls)
      /\ Len(queue) \in Nat /\ Len(Append(queue, c)) = Len(queue) + 1
      /\ \A i \in 1..Len(queue) : Append(queue, c)[i] = queue[i]
      /\ Append(queue, c)[Len(queue) + 1] = c
  BY <1>1
<1>4. \A i \in 1..Len(queue) : queue[i] # c /\ queue[i] \in Calls
  BY <1>1 DEF Inv, Queueing
<1>5. \A i \in 1..(Len(queue) + 1) : i \in 1..Len(queue) \/ i = Len(queue) + 1
  BY <1>3
<1>6. Queueing'
  <2>1. \A i \in 1..Len(queue') : task'[queue'[i]] = "queued"
    BY <1>1, <1>3, <1>4, <1>5 DEF Inv, Shape, Queueing
  <2>2. \A i, j \in 1..Len(queue') : queue'[i] = queue'[j] => i = j
    BY <1>1, <1>3, <1>4, <1>5 DEF Inv, Queueing
  <2>q. QED
    BY <1>1, <1>3, <2>1, <2>2 DEF Queueing
<1>q. QED
  BY <1>2, <1>6 DEF Inv

LEMMA NextInv ==
  ASSUME Inv, [Next]_vars
  PROVE  Inv'
<1>1. CASE UNCHANGED vars
  BY <1>1 DEF vars, Inv, Shape, Attended, Unanswered, Queueing, AnswersAreWhole
<1>2. ASSUME NEW c \in Calls, Call(c) PROVE Inv'
  BY <1>2, CallInv
<1>7. ASSUME NEW c \in Calls, Drop(c) PROVE Inv'
  BY <1>7 DEF Drop, Inv, Shape, Attended, Unanswered, Queueing, AnswersAreWhole
<1>3. ASSUME NEW c \in Calls, Exchange(c) PROVE Inv'
  BY <1>3, ExchangeInv
<1>4. ASSUME NEW c \in Calls, Emit(c) PROVE Inv'
  BY <1>4 DEF Emit, Inv, Shape, Attended, Unanswered, Queueing, AnswersAreWhole
<1>5. ASSUME NEW c \in Calls, Accept(c) \/ Close(c) PROVE Inv'
  BY <1>5 DEF Accept, Close, Inv, Shape, Attended, Unanswered, Queueing, AnswersAreWhole
<1>6. CASE AcceptStale \/ Die \/ Restart
  BY <1>6 DEF AcceptStale, Die, Restart, Inv, Shape, Attended, Unanswered, Queueing, AnswersAreWhole
<1>q. QED
  BY <1>1, <1>2, <1>7, <1>3, <1>4, <1>5, <1>6 DEF Next

\* Whatever the daemon does, half an answer is never taken for a document.
THEOREM SpecAnswersAreWhole == Spec => []AnswersAreWhole
<1>1. Inv => AnswersAreWhole
  BY DEF Inv
<1>q. QED
  BY <1>1, InitInv, NextInv, PTL DEF Spec
-----------------------------------------------------------------------------
(***************************************************************************)
(* Threads and backlog                                                     *)
(***************************************************************************)
\* No more threads than the pool has, no more connections than the backlog holds.
Bounded ==
  /\ daemon \in {"up", "down"}
  /\ socket \in [Calls -> {"none", "pending", "accepted", "closed"}]
  /\ recent \in [Calls -> BOOLEAN]
  /\ stale \in Nat
  /\ IsFiniteSet(Busy) /\ Cardinality(Busy) <= Threads
  /\ IsFiniteSet(Pending) /\ Cardinality(Pending) + stale <= Backlog

\* One element more or less.
LEMMA OneElement ==
  ASSUME NEW S, NEW x, IsFiniteSet(S)
  PROVE  /\ Cardinality(S) \in Nat
         /\ IsFiniteSet(S \cup {x}) /\ Cardinality(S \cup {x}) \in Nat
         /\ Cardinality(S \cup {x}) <= Cardinality(S) + 1
         /\ IsFiniteSet(S \ {x}) /\ Cardinality(S \ {x}) \in Nat
         /\ Cardinality(S \ {x}) <= Cardinality(S)
<1>1. IsFiniteSet(S \cup {x}) /\ IsFiniteSet(S \ {x})
  BY FS_AddElement, FS_RemoveElement
<1>2. /\ Cardinality(S) \in Nat /\ Cardinality(S \cup {x}) \in Nat
      /\ Cardinality(S \ {x}) \in Nat
  BY <1>1, FS_CardinalityType
<1>q. QED
  BY <1>1, <1>2, FS_AddElement, FS_RemoveElement

\* A step that takes no thread and no place in the backlog keeps within the bounds.
LEMMA NoMore ==
  ASSUME Bounded, daemon' \in {"up", "down"},
         socket' \in [Calls -> {"none", "pending", "accepted", "closed"}],
         recent' \in [Calls -> BOOLEAN],
         stale' = stale, Busy' = Busy,
         Pending' = Pending \/ \E c : Pending' = Pending \ {c}
  PROVE  Bounded'
<1>1. /\ IsFiniteSet(Pending') /\ Cardinality(Pending') <= Cardinality(Pending)
      /\ Cardinality(Pending) \in Nat /\ Cardinality(Pending') \in Nat
  <2>1. IsFiniteSet(Pending)
    BY DEF Bounded
  <2>2. Cardinality(Pending) \in Nat
    BY <2>1, FS_CardinalityType
  <2>3. ASSUME NEW c
        PROVE  /\ IsFiniteSet(Pending \ {c}) /\ Cardinality(Pending \ {c}) \in Nat
               /\ Cardinality(Pending \ {c}) <= Cardinality(Pending)
    BY <2>1, OneElement
  <2>q. QED
    BY <2>1, <2>2, <2>3
<1>q. QED
  BY <1>1, TdxsConstants DEF Bounded

\* Ending an exchange frees its thread; a connection that has not been accepted
\* keeps its place.
LEMMA EndBounded ==
  ASSUME Inv, Bounded, NEW c \in Calls, NEW a \in {"ok", "error"}, End(c, a),
         task[c] \in {"connect", "send", "read"}
  PROVE  Bounded'
<1>1. Busy' = Busy \ {c} /\ c \in Busy
  BY DEF End, Inv, Shape, Busy
<1>2. Pending' = Pending \ {c}
  BY DEF End, Bounded, Pending
<1>3. stale' = IF c \in Pending THEN stale + 1 ELSE stale
  BY DEF End, Pending
<1>4. /\ IsFiniteSet(Busy') /\ Cardinality(Busy') = Cardinality(Busy) - 1
      /\ Cardinality(Busy) \in Nat
  BY <1>1, FS_RemoveElement, FS_CardinalityType DEF Bounded
<1>5. /\ IsFiniteSet(Pending')
      /\ Cardinality(Pending')
           = IF c \in Pending THEN Cardinality(Pending) - 1 ELSE Cardinality(Pending)
      /\ Cardinality(Pending) \in Nat
  BY <1>2, FS_RemoveElement, FS_CardinalityType DEF Bounded
<1>6. /\ daemon' = daemon
      /\ socket' \in [Calls -> {"none", "pending", "accepted", "closed"}]
      /\ recent' \in [Calls -> BOOLEAN]
  BY DEF End, Bounded
<1>q. QED
  BY <1>3, <1>4, <1>5, <1>6, TdxsConstants DEF Bounded

LEMMA StartTaskBounded ==
  ASSUME Inv, Bounded, NEW c \in Calls, StartTask(c)
  PROVE  Bounded'
<1>1. Busy' = Busy \cup {c} /\ Pending' = Pending
  BY DEF StartTask, Inv, Shape, Busy, Pending
<1>2. /\ IsFiniteSet(Busy') /\ Cardinality(Busy') <= Cardinality(Busy) + 1
      /\ Cardinality(Busy) \in Nat /\ Cardinality(Busy') \in Nat
  BY <1>1, OneElement DEF Bounded
<1>3. Cardinality(Busy) < Threads /\ UNCHANGED <<daemon, socket, stale, recent>>
  BY DEF StartTask
<1>q. QED
  BY <1>1, <1>2, <1>3, TdxsConstants DEF Bounded

LEMMA ConnectBounded ==
  ASSUME Inv, Bounded, NEW c \in Calls, Connect(c)
  PROVE  Bounded'
<1>1. Busy' = Busy /\ Pending' = Pending \cup {c}
  BY DEF Connect, Inv, Shape, Bounded, Busy, Pending
<1>2. /\ IsFiniteSet(Pending') /\ Cardinality(Pending') <= Cardinality(Pending) + 1
      /\ Cardinality(Pending) \in Nat /\ Cardinality(Pending') \in Nat
  BY <1>1, OneElement DEF Bounded
<1>3. /\ Cardinality(Pending) + stale < Backlog
      /\ UNCHANGED <<daemon, stale, recent>>
      /\ socket' \in [Calls -> {"none", "pending", "accepted", "closed"}]
  BY DEF Connect, Bounded
<1>q. QED
  BY <1>1, <1>2, <1>3, TdxsConstants DEF Bounded

LEMMA ExchangeBounded ==
  ASSUME Inv, Bounded, NEW c \in Calls, Exchange(c)
  PROVE  Bounded'
<1>1. CASE StartTask(c)
  BY <1>1, StartTaskBounded
<1>2. CASE Connect(c)
  BY <1>2, ConnectBounded
<1>3. CASE \E a \in {"ok", "error"} :
             End(c, a) /\ task[c] \in {"connect", "send", "read"}
  BY <1>3, EndBounded
<1>4. CASE Send(c) /\ ~ End(c, "error")
  <2>1. Busy' = Busy /\ Pending' = Pending /\ UNCHANGED <<daemon, socket, stale, recent>>
    BY <1>4 DEF Send, Inv, Shape, Busy, Pending
  <2>q. QED
    BY <2>1, NoMore DEF Bounded
<1>5. CASE Period(c) /\ ~ End(c, "error")
  <2>1. /\ Busy' = Busy /\ Pending' = Pending /\ UNCHANGED <<daemon, socket, stale>>
        /\ recent' \in [Calls -> BOOLEAN]
    BY <1>5 DEF Period, Bounded, Busy, Pending
  <2>q. QED
    BY <2>1, NoMore DEF Bounded
<1>q. QED
  BY <1>1, <1>2, <1>3, <1>4, <1>5 DEF Exchange, ConnectFails, Send, ReadEof, Period

LEMMA OthersBounded ==
  ASSUME Inv, Bounded, NEW c \in Calls,
         Call(c) \/ Drop(c) \/ Accept(c) \/ Emit(c) \/ Close(c)
  PROVE  Bounded'
<1>1. Busy' = Busy
  BY DEF Call, Drop, Accept, Emit, Close, Inv, Shape, Attended, Busy
<1>2. /\ Pending' = Pending \/ Pending' = Pending \ {c}
      /\ socket' \in [Calls -> {"none", "pending", "accepted", "closed"}]
      /\ recent' \in [Calls -> BOOLEAN]
      /\ daemon' = daemon /\ stale' = stale
  BY DEF Call, Drop, Accept, Emit, Close, Bounded, Pending
<1>q. QED
  BY <1>1, <1>2, NoMore DEF Bounded

LEMMA DaemonBounded ==
  ASSUME Inv, Bounded, AcceptStale \/ Die \/ Restart
  PROVE  Bounded'
<1>1. Busy' = Busy /\ recent' = recent
  BY DEF AcceptStale, Die, Restart, Busy
<1>2. CASE AcceptStale
  <2>1. Pending' = Pending /\ stale' = stale - 1 /\ stale > 0
        /\ daemon' = daemon /\ socket' = socket
    BY <1>2 DEF AcceptStale, Pending
  <2>2. Cardinality(Pending) \in Nat
    BY FS_CardinalityType DEF Bounded
  <2>q. QED
    BY <1>1, <2>1, <2>2, TdxsConstants DEF Bounded
<1>3. CASE Die
  <2>1. Pending' = {} /\ stale' = 0 /\ daemon' = "down"
        /\ socket' \in [Calls -> {"none", "pending", "accepted", "closed"}]
    BY <1>3 DEF Die, Pending
  <2>2. IsFiniteSet(Pending') /\ Cardinality(Pending') = 0
    BY <2>1, FS_EmptySet
  <2>q. QED
    BY <1>1, <2>1, <2>2, TdxsConstants DEF Bounded
<1>4. CASE Restart
  <2>1. Pending' = Pending /\ stale' = stale /\ daemon' = "up" /\ socket' = socket
    BY <1>4 DEF Restart, Pending
  <2>q. QED
    BY <1>1, <2>1, NoMore DEF Bounded
<1>q. QED
  BY <1>2, <1>3, <1>4

\* The blocking pool and the daemon's backlog are never overrun, the queue holds
\* calls that wait, and a caller waits exactly while there is an exchange.
THEOREM SpecTypeOK == Spec => []TypeOK
<1>1. ASSUME Init PROVE Bounded
  <2>1. Busy = {} /\ Pending = {}
    BY <1>1 DEF Init, Busy, Pending
  <2>2. IsFiniteSet({}) /\ Cardinality({}) = 0
    BY FS_EmptySet
  <2>q. QED
    BY <1>1, <2>1, <2>2, TdxsConstants DEF Init, Bounded
<1>2. Inv /\ Bounded /\ [Next]_vars => Bounded'
  <2>1. Bounded /\ UNCHANGED vars => Bounded'
    BY DEF vars, Bounded, Busy, Pending
  <2>q. QED
    BY <2>1, ExchangeBounded, OthersBounded, DaemonBounded DEF Next
<1>3. Inv /\ Bounded => TypeOK
  <2>1. Queueing => queue \in Seq({c \in Calls : task[c] = "queued"})
    BY DEF Queueing
  <2>q. QED
    BY <2>1 DEF Inv, Shape, Attended, Bounded, TypeOK
<1>q. QED
  BY <1>1, <1>2, <1>3, InitInv, NextInv, PTL DEF Spec
-----------------------------------------------------------------------------
(***************************************************************************)
(* TdxsClient implements AttestationService: spawn_blocking is Ask, the    *)
(* last of an answer is Document, the end of an exchange is Answer if its  *)
(* caller waits and Lapse if it does not, and everything else is invisible.*)
(***************************************************************************)
\* What the refinement mapping makes of the buffers.
documentOf == [c \in Calls |-> buf[c] = "whole"]

LEMMA SameDocuments ==
  ASSUME buf' = buf
  PROVE  documentOf' = documentOf
BY DEF documentOf

LEMMA CallAsks ==
  ASSUME Inv, NEW c \in Calls, Call(c)
  PROVE  Service!Ask(c)
<1>1. documentOf' = [documentOf EXCEPT ![c] = FALSE]
  BY DEF Call, Inv, Shape, documentOf
<1>q. QED
  BY <1>1 DEF Call, Service!Ask, documentOf

\* An exchange is never over for a caller that has its answer.
LEMMA EndAnswers ==
  ASSUME Inv, NEW c \in Calls, NEW a \in {"ok", "error"}, End(c, a),
         task[c] \in {"connect", "send", "read"}, a = "ok" => buf[c] = "whole"
  PROVE  Service!Answer(c) \/ Service!Lapse(c)
<1>1. /\ caller' = [caller EXCEPT ![c] = "idle"]
      /\ answer' = [answer EXCEPT ![c] = IF caller[c] = "waiting" THEN a ELSE answer[c]]
      /\ buf' = buf
  BY DEF End
<1>2. caller[c] \in {"waiting", "gone"}
  BY DEF Inv, Shape, Attended
<1>3. documentOf' = documentOf /\ (a = "ok" => documentOf[c])
  BY <1>1, SameDocuments DEF documentOf
<1>4. CASE caller[c] = "waiting"
  BY <1>1, <1>3, <1>4 DEF Service!Answer, documentOf
<1>5. CASE caller[c] = "gone"
  <2>1. answer' = answer
    BY <1>1, <1>5 DEF Inv, Shape
  <2>q. QED
    BY <1>1, <1>3, <1>5, <2>1 DEF Service!Lapse, documentOf
<1>q. QED
  BY <1>2, <1>4, <1>5

LEMMA ExchangeAnswers ==
  ASSUME Inv, NEW c \in Calls, Exchange(c)
  PROVE  Service!Next \/ UNCHANGED <<caller, buf, answer>>
<1>1. CASE \E a \in {"ok", "error"} :
             /\ End(c, a) /\ task[c] \in {"connect", "send", "read"}
             /\ a = "ok" => buf[c] = "whole"
  BY <1>1, EndAnswers DEF Service!Next
<1>2. CASE UNCHANGED <<caller, buf, answer>>
  BY <1>2
<1>q. QED
  BY <1>1, <1>2 DEF Exchange, StartTask, Connect, ConnectFails, Send, ReadEof, Period

\* The daemon's last byte is the document.
LEMMA EmitDocuments ==
  ASSUME Inv, NEW c \in Calls, Emit(c)
  PROVE  Service!Document(c) \/ UNCHANGED <<caller, documentOf, answer>>
<1>1. PICK b \in {"part", "whole"} : buf' = [buf EXCEPT ![c] = b]
  BY DEF Emit
<1>2. caller[c] # "idle" /\ buf[c] # "whole" /\ UNCHANGED <<caller, answer>>
  BY DEF Emit, Inv, Attended
<1>3. documentOf' = [documentOf EXCEPT ![c] = (b = "whole")] /\ ~ documentOf[c]
  BY <1>1, <1>2 DEF Inv, Shape, documentOf
<1>4. CASE b = "whole"
  BY <1>2, <1>3, <1>4 DEF Service!Document, documentOf
<1>5. CASE b = "part"
  <2>1. documentOf' = documentOf
    BY <1>3, <1>5 DEF documentOf
  <2>q. QED
    BY <1>2, <2>1
<1>q. QED
  BY <1>4, <1>5

LEMMA StepServes ==
  ASSUME Inv, [Next]_vars
  PROVE  [Service!Next]_(Service!serviceVars)
<1>1. UNCHANGED <<caller, documentOf, answer>> => UNCHANGED Service!serviceVars
  BY DEF Service!serviceVars, documentOf
<1>2. UNCHANGED <<caller, buf, answer>> => UNCHANGED Service!serviceVars
  BY <1>1, SameDocuments
<1>3. CASE UNCHANGED vars
  BY <1>2, <1>3 DEF vars
<1>4. ASSUME NEW c \in Calls, Call(c) \/ Drop(c) \/ Exchange(c) \/ Emit(c)
      PROVE  [Service!Next]_(Service!serviceVars)
  <2>1. CASE Call(c)
    BY <2>1, CallAsks DEF Service!Next
  <2>2. CASE Drop(c)
    <3>1. Service!Abandon(c)
      BY <2>2, SameDocuments DEF Drop, Service!Abandon, documentOf
    <3>q. QED
      BY <3>1 DEF Service!Next
  <2>3. CASE Exchange(c)
    BY <1>2, <2>3, ExchangeAnswers
  <2>4. CASE Emit(c)
    BY <1>1, <2>4, EmitDocuments DEF Service!Next
  <2>q. QED
    BY <1>4, <2>1, <2>2, <2>3, <2>4
<1>5. ASSUME NEW c \in Calls, Accept(c) \/ Close(c)
      PROVE  [Service!Next]_(Service!serviceVars)
  BY <1>2, <1>5 DEF Accept, Close
<1>6. CASE AcceptStale \/ Die \/ Restart
  BY <1>2, <1>6 DEF AcceptStale, Die, Restart
<1>q. QED
  BY <1>3, <1>4, <1>5, <1>6 DEF Next

\* The client implements AttestationService, whatever the daemon does.
THEOREM SpecImplementsAttestationService == Spec => ImplementsAttestationService
<1>1. Init => Service!Init
  BY DEF Init, Service!Init
<1>q. QED
  BY <1>1, InitInv, NextInv, StepServes, PTL
     DEF Spec, ImplementsAttestationService, Service!Spec
=============================================================================
