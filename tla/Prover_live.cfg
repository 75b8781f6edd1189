\* Two requests at a time.
SPECIFICATION FairSpec
CONSTANTS
  r1 = r1
  r2 = r2
  k1 = k1
  k2 = k2
  c1 = c1
  a = a
  b = b
  Requests = {r1, r2}
  Payloads <- Early
  ChainId = "taiko"
  Verifier = "verifier"
  Keys = {k1}
  ClientKeys = {}
  Labels = {a}
  MaxHeight = 1
  MaxBatch = 2
  MaxResults = 2
  Malformed = Malformed
  Unreadable = Unreadable
  None = None
PROPERTIES
  AnsweredOrAtTheNode
  RequestsWindDown
