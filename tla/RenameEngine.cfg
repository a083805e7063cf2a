SPECIFICATION Spec
SYMMETRY Symmetry
CONSTANTS
  a = a
  b = b
  d = d
  f = f
  g = g
  audit1 = audit1
  audit2 = audit2
  coll1 = coll1
  coll2 = coll2
  coll3 = coll3
  coll4 = coll4
  skill = skill
  command = command
  skill2 = skill2
  command2 = command2
  Nothing = Nothing
  NoEntry = NoEntry
  NoCollision = NoCollision
  NoRequest = NoRequest
  Calls = {c1, c2}
  Names = {a, b, d, f, g}
  SkillNames = {a, b, d}
  Artifacts = {skill, command, skill2, command2}
  Skills = {skill, skill2}
  Suggestions <- MCSuggestions
  InitStates <- MCInitStates
  InitForms = {"ok", "malformed", "newer"}
  MaxCalls = 3
  MaxOutside = 1
INVARIANTS
  LedgerNeverAhead
  LedgerMatchesDisk
PROPERTIES
  NothingOverwritten
CHECK_DEADLOCK FALSE
