SPECIFICATION Spec
SYMMETRY Symmetry
CONSTANTS
  e1 = e1
  e2 = e2
  e3 = e3
  mdA = mdA
  mdB = mdB
  skillMd = skillMd
  Missing = Missing
  NoCall = NoCall
  Calls = {c1, c2}
  Files = {mdA, mdB}
  Edits = {e1, e2, e3}
  FileOf <- MCFileOf
  BaseName <- MCBaseName
  MaxCalls = 3
  MaxOutside = 1
INVARIANTS
  StackMatchesFiles
  OwnContentUnlessCrossed
PROPERTIES
  UserTextSurvives
CHECK_DEADLOCK FALSE
