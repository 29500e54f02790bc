CONSTANTS
  r = r
  m = m
  c = c
  e = e
  NoActor = NoActor
  NoSource = NoSource
  Actor <- MCActor
  Event <- MCEvent
  Address = {}
  Source = {"list"}
  CustomRole = {"labeller"}
  ConfiguredRoot = r
  AdminIngestAllowed = TRUE
  RolesDocuments <- MCRolesDocuments
  Rosters <- MCRosters
  Documents <- MCDocuments
  Labels <- MCLabels
  Snapshots <- MCSnapshots
SPECIFICATION Spec
INVARIANTS TypeOK NewestKept DenialsFollowAuthority ListenersCurrent
PROPERTIES GoalpostsFixed Refinement
