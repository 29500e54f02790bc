CONSTANTS
  a = a
  b = b
  NoAccount = NoAccount
  Pending = Pending
  Rejected = Rejected
  Account = {a, b}
  Configuration = {"named", "anonymous", "broken"}
  Valid = {"named", "anonymous"}
  Automatic = {"named"}
  ViewerOf <- MCViewerOf
  MaxGeneration = 2
  Entitlements <- MCEntitlements
  MaxCalls = 1
SPECIFICATION Spec
INVARIANTS TypeOK OneRuns RunsAsConfigured ErrorIsLatest
PROPERTY EntitledSign
CHECK_DEADLOCK FALSE
