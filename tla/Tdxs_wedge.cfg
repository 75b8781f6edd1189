\* A daemon of which nothing is assumed.
SPECIFICATION ClientSpec
CONSTANTS
  c1 = c1
  c2 = c2
  c3 = c3
  Calls = {c1, c2}
  Threads = 2
  Backlog = 1
PROPERTIES
  ThreadsComeFree
