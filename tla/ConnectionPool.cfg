SPECIFICATION Spec
CONSTANTS
  Requests = {p1, p2, p3}
  Sockets = {s1, s2}
  Connections = 1
  Threads = 2
  Again = 2
INVARIANTS
  TypeOK
  NothingHeldAtRest
PROPERTIES
  RequestsEnd
  LoopComesBack
