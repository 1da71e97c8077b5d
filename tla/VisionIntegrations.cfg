SPECIFICATION Spec
CONSTANTS
  Integrations = {i, j}
  Requests = {p1, p2}
  Endpoints = {e, f}
  Models = {m, n}
  None = None
  NoRow = NoRow
  Keep = Keep
SYMMETRY Symmetry
INVARIANTS
  TypeOK
  KeysStayHome
  ShownModelIsLoaded
PROPERTIES
  CalmActivationPrevails
