\* Two processes, one of them bootstrapping at a time, a request, a reset.
SPECIFICATION SystemSpec
CONSTANTS
  p1 = p1
  p2 = p2
  k1 = k1
  k2 = k2
  k3 = k3
  Procs = {p1, p2}
  Keys = {k1, k2, k3}
  ClientKeys = {}
  Commands = {"serve", "check"}
  Issuers = {"tdx"}
  Supported = {"tdx"}
  Absent = Absent
  Empty = Empty
  Garbled = Garbled
  None = None
  MaxResets = 1
  Requests = {r1}
  Payloads <- Proposals
  ChainId = "taiko"
  Verifier = "verifier"
  Labels = {a}
  MaxHeight = 1
  MaxBatch = 1
  MaxResults = 2
  Malformed = Malformed
SYMMETRY Alike
INVARIANTS
  NeverMismatched
  ResetsAreNotTampering
  OneProverUntilReset
PROPERTIES
  ResultsAreRegistered
  CommittedIsFinal
  ImplementsAttestedProver
