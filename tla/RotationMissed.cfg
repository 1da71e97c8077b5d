\* The identifiers of sockets may be used up: then the system may stop.
CHECK_DEADLOCK FALSE
SPECIFICATION FairSpec
CONSTANTS
  Workers = {w1, w2}
  Mortal = {}
  Tills = {t1}
  Admins = {}
  Sessions = {s1}
  Counters = {c1}
  Keys = {k1, k2}
  Tasks = {h1}
  NoCounter = NoCounter
PROPERTIES RotationDisconnects
