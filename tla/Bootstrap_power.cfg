\* One bootstrap at a time, on a VM that may be reset.
SPECIFICATION PowerSpec
CONSTANTS
  p1 = p1
  p2 = p2
  k1 = k1
  k2 = k2
  k3 = k3
  Procs = {p1, p2}
  Keys = {k1, k2, k3}
  Commands = {"bootstrap", "serve", "check"}
  Issuers = {"tdx"}
  Supported = {"tdx"}
  Absent = Absent
  Empty = Empty
  Garbled = Garbled
  None = None
  MaxResets = 1
SYMMETRY Alike
INVARIANTS
  NoHalfWrittenRecord
