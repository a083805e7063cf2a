SPECIFICATION Spec
CONSTANTS
  benign = benign
  hostile = hostile
  phrase = phrase
  payload = payload
  v1 = v1
  v2 = v2
  strict = strict
  lax = lax
  Procs = {p1, p2}
  Keys <- MCKeys
  Rulesets = {v1, v2}
  RulesetOf <- MCRulesetOf
  MaxRecords = 2
  Free = Free
  Orphan = Orphan
  NoRequest = NoRequest
  MaxActivity = 4
  Audits = {a1, a2}
  Skills = {skill}
  Contents = {benign, hostile}
  Findings = {phrase, payload}
  Absent = Absent
  NoEntry = NoEntry
  Bars <- MCBars
  Report <- MCReport
  Failing <- MCFailing
SYMMETRY Symmetry
INVARIANTS SuppressedWasAccepted RugPullReported
PROPERTIES StoreIsRegister
CHECK_DEADLOCK FALSE
