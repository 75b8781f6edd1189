------------------------- MODULE AttestationService -------------------------
(***************************************************************************)
(* What issue_attestation and metadata promise their callers, with no      *)
(* threads, no sockets and no clock: a call is answered at most once, and  *)
(* only while somebody waits for it; it is answered with a document only   *)
(* if the daemon has sent one, whole, to this very call, and with an error *)
(* at any time.  What becomes of a call that nobody waits for any more is  *)
(* of no consequence to the calls that come after it.                      *)
(***************************************************************************)
CONSTANT Calls

VARIABLES
  standing,   \* each call: "idle", "waiting", or "gone": nobody waits for it
  document,   \* the daemon has sent the whole of a document to it
  outcome     \* what its caller has got: "none" so far, "ok" or "error"

serviceVars == <<standing, document, outcome>>

Init ==
  /\ standing = [c \in Calls |-> "idle"]
  /\ document = [c \in Calls |-> FALSE]
  /\ outcome  = [c \in Calls |-> "none"]

Ask(c) ==
  /\ standing[c] = "idle"
  /\ standing' = [standing EXCEPT ![c] = "waiting"]
  /\ document' = [document EXCEPT ![c] = FALSE]
  /\ outcome'  = [outcome  EXCEPT ![c] = "none"]

Abandon(c) ==
  /\ standing[c] = "waiting"
  /\ standing' = [standing EXCEPT ![c] = "gone"]
  /\ UNCHANGED <<document, outcome>>

\* The daemon answers, whether or not anybody still waits.
Document(c) ==
  /\ standing[c] # "idle"
  /\ ~ document[c]
  /\ document' = [document EXCEPT ![c] = TRUE]
  /\ UNCHANGED <<standing, outcome>>

Answer(c) ==
  /\ standing[c] = "waiting"
  /\ standing' = [standing EXCEPT ![c] = "idle"]
  /\ \E a \in {"ok", "error"} :
       /\ a = "ok" => document[c]
       /\ outcome' = [outcome EXCEPT ![c] = a]
  /\ UNCHANGED document

\* A call that nobody waits for ends without a word.
Lapse(c) ==
  /\ standing[c] = "gone"
  /\ standing' = [standing EXCEPT ![c] = "idle"]
  /\ UNCHANGED <<document, outcome>>

Next ==
  \E c \in Calls : Ask(c) \/ Abandon(c) \/ Document(c) \/ Answer(c) \/ Lapse(c)

Spec == Init /\ [][Next]_serviceVars
=============================================================================
