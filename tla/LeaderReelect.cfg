SPECIFICATION Spec
CONSTANTS
  i1 = i1
  i2 = i2
  i3 = i3
  s1 = s1
  s2 = s2
  s3 = s3
  NoSession = NoSession
  Nobody = Nobody
  Instances = {i1, i2}
  Sessions = {s1, s2, s3}
  MaxHolds = 2
  MaxTicks = 2
  Crashable = {}
  Stoppable = {}
  Droppable = {i1}
  QueryMayFail = FALSE
SYMMETRY Symmetry
INVARIANTS LeaderSchedules
CHECK_DEADLOCK FALSE
