----------------------------- MODULE TdxsClient -----------------------------
(***************************************************************************)
(* The client of the tdxs daemon: issue_attestation and metadata of        *)
(* attestation.rs, each one exchange over a socket of its own, run on a    *)
(* thread of the runtime's blocking pool: connect, write the request,      *)
(* half-close, read to EOF, parse.                                         *)
(*                                                                         *)
(* A caller whose future is dropped leaves its exchange behind.  Socket    *)
(* timeouts are counted in periods of TDXS_SOCKET_TIMEOUT: a read fails    *)
(* after a period in which no byte came.  connect has no timeout.  The     *)
(* daemon may accept, answer, answer in part, fall silent, die and come    *)
(* back.  The request is small and never fills the socket's buffer.        *)
(***************************************************************************)
EXTENDS Naturals, Sequences, FiniteSets

CONSTANTS
  Calls,     \* calls that can be under way together
  Threads,   \* threads of the blocking pool
  Backlog    \* connections the daemon's listening socket holds

ASSUME TdxsConstants == Threads \in Nat \ {0} /\ Backlog \in Nat \ {0}

VARIABLES
  daemon,    \* "up" or "down"
  caller,    \* each call's caller
  task,      \* its send_request_blocking
  queue,     \* calls that wait for a thread
  socket,    \* its connection, as the daemon sees it
  stale,     \* connections in the backlog that the client has closed
  buf,       \* its response_buf: what has been read
  recent,    \* a byte has come in this period
  answer     \* what its caller has got

vars == <<daemon, caller, task, queue, socket, stale, buf, recent, answer>>

Pending == {c \in Calls : socket[c] = "pending"}

Busy == {c \in Calls : task[c] \in {"connect", "send", "read"}}

TypeOK ==
  /\ daemon \in {"up", "down"}
  /\ caller \in [Calls -> {"idle", "waiting", "gone"}]
  /\ task   \in [Calls -> {"none", "queued", "connect", "send", "read"}]
  /\ queue  \in Seq({c \in Calls : task[c] = "queued"})
  /\ socket \in [Calls -> {"none", "pending", "accepted", "closed"}]
  /\ buf    \in [Calls -> {"empty", "part", "whole"}]
  /\ recent \in [Calls -> BOOLEAN]
  /\ answer \in [Calls -> {"none", "ok", "error"}]
  /\ Cardinality(Busy) <= Threads
  /\ stale \in Nat /\ Cardinality(Pending) + stale <= Backlog
  /\ \A c \in Calls : caller[c] # "idle" <=> task[c] # "none"

Init ==
  /\ daemon = "up"
  /\ caller = [c \in Calls |-> "idle"]
  /\ task   = [c \in Calls |-> "none"]
  /\ queue  = <<>>
  /\ socket = [c \in Calls |-> "none"]
  /\ stale  = 0
  /\ buf    = [c \in Calls |-> "empty"]
  /\ recent = [c \in Calls |-> FALSE]
  /\ answer = [c \in Calls |-> "none"]

-----------------------------------------------------------------------------
(***************************************************************************)
(* The caller                                                              *)
(***************************************************************************)
\* Mutant: response_buf outlives its exchange.
CallKeepsBuffer(c) ==
  /\ caller[c] = "idle"
  /\ caller' = [caller EXCEPT ![c] = "waiting"]
  /\ task'   = [task   EXCEPT ![c] = "queued"]
  /\ queue'  = Append(queue, c)
  /\ answer' = [answer EXCEPT ![c] = "none"]
  /\ UNCHANGED <<daemon, socket, stale, buf, recent>>

\* Mutant: the exchange gets a thread of its own instead of one of the pool.
CallOnItsOwnThread(c) ==
  /\ caller[c] = "idle"
  /\ caller' = [caller EXCEPT ![c] = "waiting"]
  /\ task'   = [task   EXCEPT ![c] = "connect"]
  /\ buf'    = [buf    EXCEPT ![c] = "empty"]
  /\ answer' = [answer EXCEPT ![c] = "none"]
  /\ UNCHANGED <<daemon, queue, socket, stale, recent>>

\* spawn_blocking: the exchange is queued for a thread, and awaited.
Call(c) ==
  /\ caller[c] = "idle"
  /\ caller' = [caller EXCEPT ![c] = "waiting"]
  /\ task'   = [task   EXCEPT ![c] = "queued"]
  /\ queue'  = Append(queue, c)
  /\ buf'    = [buf    EXCEPT ![c] = "empty"]
  /\ answer' = [answer EXCEPT ![c] = "none"]
  /\ UNCHANGED <<daemon, socket, stale, recent>>

\* The future is dropped.  A blocking task is never cancelled.
Drop(c) ==
  /\ caller[c] = "waiting"
  /\ caller' = [caller EXCEPT ![c] = "gone"]
  /\ UNCHANGED <<daemon, task, queue, socket, stale, buf, recent, answer>>

-----------------------------------------------------------------------------
(***************************************************************************)
(* The exchange, on a thread                                               *)
(***************************************************************************)
\* A thread of the pool takes the next task; tasks wait in turn.
StartTask(c) ==
  /\ queue # <<>>
  /\ c = Head(queue)
  /\ Cardinality(Busy) < Threads
  /\ queue' = Tail(queue)
  /\ task' = [task EXCEPT ![c] = "connect"]
  /\ UNCHANGED <<daemon, caller, socket, stale, buf, recent, answer>>

\* The exchange ends with outcome a, the socket is closed, the thread is free, and
\* the caller, if it is still there, has its answer.
End(c, a) ==
  /\ task'   = [task   EXCEPT ![c] = "none"]
  /\ socket' = [socket EXCEPT ![c] = "none"]
  /\ stale'  = IF socket[c] = "pending" THEN stale + 1 ELSE stale
  /\ recent' = [recent EXCEPT ![c] = FALSE]
  /\ caller' = [caller EXCEPT ![c] = "idle"]
  /\ answer' = [answer EXCEPT ![c] = IF caller[c] = "waiting" THEN a ELSE @]
  /\ UNCHANGED <<daemon, queue, buf>>

\* connect succeeds once the connection fits into the backlog, accepted or not.
Connect(c) ==
  /\ task[c] = "connect"
  /\ daemon = "up"
  /\ Cardinality(Pending) + stale < Backlog
  /\ socket' = [socket EXCEPT ![c] = "pending"]
  /\ task' = [task EXCEPT ![c] = "send"]
  /\ UNCHANGED <<daemon, caller, queue, stale, buf, recent, answer>>

ConnectFails(c) == task[c] = "connect" /\ daemon = "down" /\ End(c, "error")

\* write_all and shutdown(Write), unless the daemon has closed the connection.
Send(c) ==
  /\ task[c] = "send"
  /\ IF socket[c] = "closed"
     THEN End(c, "error")
     ELSE /\ task' = [task EXCEPT ![c] = "read"]
          /\ UNCHANGED <<daemon, caller, queue, socket, stale, buf, recent, answer>>

\* Mutant: whatever came before EOF is taken for the answer.
ReadEofUnparsed(c) ==
  /\ task[c] = "read"
  /\ socket[c] = "closed"
  /\ End(c, IF buf[c] = "empty" THEN "error" ELSE "ok")

\* read_to_end is at EOF: a whole answer parses, a part of one does not.  A whole
\* answer may also be an error the daemon reports, or carry neither data nor error.
ReadEof(c) ==
  /\ task[c] = "read"
  /\ socket[c] = "closed"
  /\ \E a \in {"error"} \cup (IF buf[c] = "whole" THEN {"ok"} ELSE {}) : End(c, a)

\* Mutant: no read timeout is set.
NextPeriod(c) ==
  /\ task[c] = "read"
  /\ socket[c] # "closed"
  /\ recent[c]
  /\ recent' = [recent EXCEPT ![c] = FALSE]
  /\ UNCHANGED <<daemon, caller, task, queue, socket, stale, buf, answer>>

\* A period is over: a read that got nothing in it times out, another goes on.
Period(c) ==
  /\ task[c] = "read"
  /\ socket[c] # "closed"
  /\ IF recent[c]
     THEN /\ recent' = [recent EXCEPT ![c] = FALSE]
          /\ UNCHANGED <<daemon, caller, task, queue, socket, stale, buf, answer>>
     ELSE End(c, "error")

-----------------------------------------------------------------------------
(***************************************************************************)
(* The daemon                                                              *)
(***************************************************************************)
Accept(c) ==
  /\ daemon = "up"
  /\ socket[c] = "pending"
  /\ socket' = [socket EXCEPT ![c] = "accepted"]
  /\ UNCHANGED <<daemon, caller, task, queue, stale, buf, recent, answer>>

\* It accepts a connection, and finds the other end closed.
AcceptStale ==
  /\ daemon = "up"
  /\ stale > 0
  /\ stale' = stale - 1
  /\ UNCHANGED <<daemon, caller, task, queue, socket, buf, recent, answer>>

\* It has read the request and sends some more of its answer, or the last of it.
Emit(c) ==
  /\ socket[c] = "accepted"
  /\ task[c] = "read"
  /\ buf[c] # "whole"
  /\ \E b \in {"part", "whole"} : buf' = [buf EXCEPT ![c] = b]
  /\ recent' = [recent EXCEPT ![c] = TRUE]
  /\ UNCHANGED <<daemon, caller, task, queue, socket, stale, answer>>

\* It closes the connection, whether or not the answer is out.
Close(c) ==
  /\ socket[c] = "accepted"
  /\ socket' = [socket EXCEPT ![c] = "closed"]
  /\ UNCHANGED <<daemon, caller, task, queue, stale, buf, recent, answer>>

\* It dies, and the kernel closes its connections.
Die ==
  /\ daemon = "up"
  /\ daemon' = "down"
  /\ socket' = [c \in Calls |-> IF socket[c] = "none" THEN "none" ELSE "closed"]
  /\ stale' = 0
  /\ UNCHANGED <<caller, task, queue, buf, recent, answer>>

Restart ==
  /\ daemon = "down"
  /\ daemon' = "up"
  /\ UNCHANGED <<caller, task, queue, socket, stale, buf, recent, answer>>

-----------------------------------------------------------------------------
Exchange(c) ==
  \/ StartTask(c) \/ Connect(c) \/ ConnectFails(c) \/ Send(c) \/ ReadEof(c) \/ Period(c)

Next ==
  \/ \E c \in Calls : \/ Call(c) \/ Drop(c) \/ Exchange(c)
                      \/ Accept(c) \/ Emit(c) \/ Close(c)
  \/ AcceptStale \/ Die \/ Restart

Spec == Init /\ [][Next]_vars

\* Threads run, and time passes.  Nothing is assumed of the daemon.
ClientSpec == Spec /\ \A c \in Calls : WF_vars(Exchange(c))

\* Besides, the daemon accepts connections, the kernel lets those that wait for its
\* backlog in one after the other, and it does not trickle: it may die over and over
\* and fall silent, but if it goes on sending it comes to an end.
SteadySpec ==
  /\ ClientSpec
  /\ WF_vars(AcceptStale)
  /\ \A c \in Calls : WF_vars(Accept(c)) /\ SF_vars(Connect(c))
  /\ \A c \in Calls : []<><<Emit(c)>>_vars => []<><<Close(c) \/ Die>>_vars

-----------------------------------------------------------------------------
(***************************************************************************)
(* Properties                                                              *)
(***************************************************************************)
\* A caller that goes on to use a document has got one whole: a daemon that dies or
\* hangs up while it answers yields an error, never half a quote.
AnswersAreWhole == \A c \in Calls : answer[c] = "ok" => buf[c] = "whole"

\* Seen from its callers the client is AttestationService: the queue for a thread, the
\* backlog, time-outs and a daemon that dies make no call answer twice, with half a
\* document, or out of the buffer of an earlier exchange, and an exchange whose caller
\* has gone answers nobody.
Service == INSTANCE AttestationService WITH
  standing <- caller,
  document <- [c \in Calls |-> buf[c] = "whole"],
  outcome  <- answer

ImplementsAttestationService == Service!Spec

\* Every call gets its turn and its answer and gives its thread back, behind any
\* number of exchanges that nobody waits for any more, and though the daemon may
\* fall silent on all of them.
CallsEnd == \A c \in Calls : task[c] # "none" ~> task[c] = "none"

\* attestation.rs, TDXS_SOCKET_TIMEOUT: "small enough that a wedged daemon cannot
\* occupy a `spawn_blocking` thread indefinitely".
ThreadsComeFree == \A c \in Calls : c \in Busy ~> c \notin Busy
=============================================================================
