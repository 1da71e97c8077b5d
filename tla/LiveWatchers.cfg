\* The identifiers of sockets may be used up: then the system may stop.
CHECK_DEADLOCK FALSE
SPECIFICATION FairSpec
CONSTANTS
  Workers = {w1}
  Mortal = {w1}
  Tills = {}
  Admins = {a1, a2}
  Sessions = {s1}
  Counters = {c1}
  Keys = {k1}
  Tasks = {h1}
  NoCounter = NoCounter
PROPERTIES WatchersSeeThePayment HandlersEnd
