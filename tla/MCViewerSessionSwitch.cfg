CONSTANTS
  a = a
  b = b
  NoViewer = NoViewer
  None = None
  Account = {a, b}
  Raceable = {"read-admin", "read-viewer", "list-admin", "write-admin", "list-contacts", "decrypt"}
  MaxFlights = 2
SYMMETRY MCSymmetry
SPECIFICATION Spec
INVARIANT Isolation
