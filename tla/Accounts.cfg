SPECIFICATION Spec
CONSTANTS
  Users = {u, v, w}
  Keys = {k}
  Items = {i}
  Requests = {p1, p2}
  None = None
SYMMETRY Symmetry
INVARIANTS
  TypeOK
  OnlyEntitledAdminister
  OnlyEntitledWriteCatalogue
  NothingOutlivesItsOwner
CHECK_DEADLOCK FALSE
