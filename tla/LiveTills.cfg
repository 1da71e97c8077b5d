\* The identifiers of sockets may be used up: then the system may stop.
CHECK_DEADLOCK FALSE
SPECIFICATION FairSpec
CONSTANTS
  Workers = {w1}
  Mortal = {w1}
  Tills = {t1, t2}
  Admins = {}
  Sessions = {s1, s2}
  Counters = {c1}
  Keys = {k1, k2}
  Tasks = {h1}
  NoCounter = NoCounter
PROPERTIES PresentTillsAreDropped HandlersEnd
