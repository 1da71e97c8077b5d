SPECIFICATION Spec
CONSTANTS
  Users = {u, v}
  Imported = {u}
  Emails = {e, f}
  Words = {w, x}
  Requests = {p1, p2}
  None = None
  Keep = Keep
SYMMETRY Symmetry
INVARIANTS
  TypeOK
  EmailsUnique
  PasswordsAreIntended
  LoginsAreGenuine
CHECK_DEADLOCK FALSE
