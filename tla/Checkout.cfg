SPECIFICATION Spec
CONSTANTS
  Counters = {c1}
  Sessions = {s1, s2}
  Keys = {k1, k2, k3}
  Requests = {p1, p2}
  Carts = {empty, full}
  EmptyCart = empty
  Modes = {off}
  DefaultMode = off
  Cameras = {cam}
  NoCamera = NoCamera
  NoCounter = NoCounter
SYMMETRY Symmetry
INVARIANTS TypeOK ExactlyOneActiveKey NoOrphans SelectionWasReported AtMostOneOpenSession
PROPERTIES KeepsThePromise ClosedAttractsNoWriters
