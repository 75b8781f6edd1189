\* The chain reorgs between any two steps of a request.
SPECIFICATION Spec
CONSTANTS
  r1 = r1
  r2 = r2
  k1 = k1
  k2 = k2
  c1 = c1
  a = a
  b = b
  Requests = {r1}
  Payloads <- Linked
  ChainId = "taiko"
  Verifier = "verifier"
  Keys = {k1}
  ClientKeys = {}
  Labels = {a, b}
  MaxHeight = 2
  MaxBatch = 2
  MaxResults = 3
  Malformed = Malformed
  Unreadable = Unreadable
  None = None
SYMMETRY Alike
INVARIANTS
  AggregatesAreCovered
  OneFork
