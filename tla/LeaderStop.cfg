SPECIFICATION Spec
CONSTANTS
  i1 = i1
  i2 = i2
  i3 = i3
  s1 = s1
  s2 = s2
  s3 = s3
  NoSession = NoSession
  Nobody = Nobody
  Instances = {i1, i2}
  Sessions = {s1, s2, s3}
  MaxHolds = 2
  MaxTicks = 0
  Crashable = {i1}
  Stoppable = {i1, i2}
  Droppable = {}
  QueryMayFail = TRUE
SYMMETRY Symmetry
INVARIANTS LeadersExclusive ShutdownIsFinal
CHECK_DEADLOCK FALSE
