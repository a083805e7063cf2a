SPECIFICATION FairSpec
CONSTANTS
  skill = skill
  claude = claude
  cursor = cursor
  id1 = id1
  id2 = id2
  github = github
  dirA = dirA
  dirB = dirB
  Unknown = Unknown
  NoEntry = NoEntry
  NoClient = NoClient
  NoName = NoName
  NoId = NoId
  NoRequest = NoRequest
  Free = Free
  Orphan = Orphan
  Stuck = Stuck
  Procs = {p1, p2}
  Names = {skill}
  Clients = {claude, cursor}
  Canonical = claude
  Ids = {id1, id2}
  Sources = {github, Unknown}
  Paths = {dirA, dirB}
  DirsFor <- MCDirsFor
  InitManifests <- MCInitManifests
  Requests <- MCRequests
  InitForms = {"ok", "newer"}
  MaxActivity = 2
PROPERTIES
  CallsEndUnlocked
CHECK_DEADLOCK FALSE
