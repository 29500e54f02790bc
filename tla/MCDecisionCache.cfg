CONSTANTS
  a = a
  b = b
  e = e
  NoAuthor = NoAuthor
  NoPolicy = NoPolicy
  None = None
  Pubkey = {a, b}
  Event = {e}
  Profile = {"feed"}
  DefaultPolicy = "default"
  Policies = {"published"}
  MaxCached = 2
  MaxTargets = 1
  MaxLists = 1
  Window = 1
  MaxTime = 2
  Admins <- MCAdmins
  Trusts <- MCTrusts
  Reports <- MCReports
  MuteLists <- MCMuteLists
  Overrides <- MCOverrides
SPECIFICATION Spec
INVARIANTS TypeOK SnapshotCurrent CacheOnlyRemembers
PROPERTY ReportsInvalidateNarrowly
