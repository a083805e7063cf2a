SPECIFICATION Spec
CONSTANTS
  search = search
  skill_suggest = skill_suggest
  share_skill = share_skill
  version_tracking = version_tracking
  team_workspaces = team_workspaces
  Calls = {c1, c2}
  Features = {version_tracking, team_workspaces}
  FeatureTier <- MCFeatureTier
  KeyFeatures <- MCKeyFeatures
  Modes = {"key", "api", "device"}
  Accounts = {"unknown", "team"}
  MaxAccountChanges = 1
  Tools = {search, skill_suggest, share_skill}
  NoTool = NoTool
  Gate <- MCGate
  Quota <- MCQuota
  Unlimited <- MCUnlimited
  MaxRequests = 3
  MaxPeriods = 1
SYMMETRY Symmetry
INVARIANTS PaidRunWasTold TierRemembered NewestWithoutOverlap OverrunBounded ConsentIsConsistent
CHECK_DEADLOCK FALSE
