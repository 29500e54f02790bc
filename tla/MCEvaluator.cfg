SPECIFICATION Spec
CONSTANTS
  alice = alice  bob = bob  carol = carol  post = post  scam = scam  other = other
  Actor = {alice, bob, carol}
  NoActor = NoActor
  CustomRole = {}
  Event = {post}
  Address = {}
  Source = {}
  NoSource = NoSource
  Category = {scam, other}
  NotGiven = NotGiven
  Profiles <- Surfaces
  Subjects <- Posts
  Signers <- AllSigners
  Seeds <- Seed
  Follows <- FollowSets
  Mentions <- MentionSets
  Deniable <- Denials
  Blockable <- Blocks
  Requests <- Softer
  Times <- Clock
  MaxSignals = 2
INVARIANT TypeOK
PROPERTIES SignalsNeverSoften SilencingNeverHardens ProtectedStands OverrideOnlySoftens
