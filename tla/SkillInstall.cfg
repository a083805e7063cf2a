SPECIFICATION Spec
CONSTANTS
  claude = claude
  cursor = cursor
  ship = ship
  liner = liner
  NoName = NoName
  Sites <- MCSites
  Names <- MCNames
  Canonical = claude
  c1 = c1
  c2 = c2
  Calls <- MCCalls
  Requests <- MCRequests
  Removals <- MCRemovals
  KeepCount = 1
  Starts <- MCStarts
  MaxCalls = 2
  MaxChanges = 2
SYMMETRY Symmetry
INVARIANTS
  OverwrittenEditIsKept
  CancelProtectsEdits
  PreventativeModeHolds
CHECK_DEADLOCK FALSE
