CONSTANTS
  a = a
  t1 = t1
  t2 = t2
  NoAccount = NoAccount
  NoTarget = NoTarget
  Pending = Pending
  Rejected = Rejected
  Account = {a}
  Configuration = {"anonymous", "broken"}
  Valid = {"anonymous"}
  Automatic = {}
  ViewerOf <- MCViewerOf
  MaxGeneration = 2
  Target = {t1, t2}
  MaxSubmissions = 2
SYMMETRY MCSymmetry
SPECIFICATION Spec
INVARIANTS
  TypeOK FollowsWhileAttached DrawnAsAnswered FindsProvider DisclosedOnRequest BusyWhileFlying
CHECK_DEADLOCK FALSE
