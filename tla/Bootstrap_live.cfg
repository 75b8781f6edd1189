\* A unit that serves, an operator who checks, and up to three faults.
SPECIFICATION LiveSpec
CONSTANTS
  p1 = p1
  p2 = p2
  k1 = k1
  k2 = k2
  k3 = k3
  Procs = {p1, p2}
  Unit = p1
  MaxFaults = 3
  Keys = {k1, k2, k3}
  Commands = {"serve", "check"}
  Issuers = {"tdx", "aws"}
  Supported = {"tdx"}
  Absent = Absent
  Empty = Empty
  Garbled = Garbled
  None = None
PROPERTIES
  Recovers
  OnlyFaultsSetBack
