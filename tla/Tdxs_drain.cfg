\* More calls than threads, a daemon that dies, answers in part or falls silent.
SPECIFICATION SteadySpec
CONSTANTS
  c1 = c1
  c2 = c2
  c3 = c3
  Calls = {c1, c2, c3}
  Threads = 2
  Backlog = 1
INVARIANTS
  TypeOK
  AnswersAreWhole
PROPERTIES
  ImplementsAttestationService
  CallsEnd
