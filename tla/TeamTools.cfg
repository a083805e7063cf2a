SPECIFICATION MCSpec
CONSTANTS
  ann = ann
  ben = ben
  s1 = s1
  s2 = s2
  v1 = v1
  v2 = v2
  None = None
  User <- mcUser
  Skill = {s1, s2}
  OwnSkill = {s1}
  Version = {v1}
  w1 = w1
  w2 = w2
  Space = {w1, w2}
  Batches <- mcBatches
  MaxCalls = 3
  MaxMoves = 1
INVARIANTS AnswersAreTrue PendingStaysHidden
PROPERTY OnlyAuthorityWidens
CHECK_DEADLOCK FALSE
