\* The key file changes between any two steps of a request.
SPECIFICATION Spec
CONSTANTS
  r1 = r1
  r2 = r2
  k1 = k1
  k2 = k2
  c1 = c1
  a = a
  b = b
  Requests = {r1}
  Payloads <- Mixed
  ChainId = "taiko"
  Verifier = "verifier"
  Keys = {k1, k2}
  ClientKeys = {c1}
  Labels = {a}
  MaxHeight = 1
  MaxBatch = 2
  MaxResults = 3
  Malformed = Malformed
  Unreadable = Unreadable
  None = None
SYMMETRY Alike
INVARIANTS
  TypeOK
  ResultsVerify
PROPERTIES
  ImplementsService
