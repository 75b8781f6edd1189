\* Three processes that all bootstrap as they please.
SPECIFICATION FreeSpec
CONSTANTS
  p1 = p1
  p2 = p2
  p3 = p3
  k1 = k1
  k2 = k2
  k3 = k3
  k4 = k4
  k5 = k5
  k6 = k6
  Procs = {p1, p2, p3}
  Keys = {k1, k2, k3, k4}
  Commands = {"bootstrap", "serve", "check"}
  Issuers = {"tdx", "aws"}
  Supported = {"tdx"}
  Absent = Absent
  Empty = Empty
  Garbled = Garbled
  None = None
SYMMETRY Alike
PROPERTIES
  LatecomersReuse
