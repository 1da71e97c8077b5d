\* The identifiers of sockets may be used up: then the system may stop.
CHECK_DEADLOCK FALSE
SPECIFICATION Spec
CONSTANTS
  Workers = {w1, w2}
  Mortal = {w1, w2}
  Tills = {t1}
  Admins = {a1}
  Sessions = {s1, s2}
  Counters = {c1}
  Keys = {k1, k2}
  Tasks = {h1}
  NoCounter = NoCounter
SYMMETRY Symmetry
INVARIANTS TypeOK ClientsAreServed
PROPERTIES DropsHaveAReason
