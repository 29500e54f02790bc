CONSTANTS
  a = a
  b = b
  NoViewer = NoViewer
  None = None
  Account = {a, b}
  Raceable = {"read-admin", "list-admin", "write-admin", "list-contacts"}
  MaxFlights = 2
SYMMETRY MCSymmetry
SPECIFICATION Spec
INVARIANTS TypeOK Isolation
