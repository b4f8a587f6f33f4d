SPECIFICATION PlansSpec
CONSTANTS
  Material = {v1}
  Video = {v1}
  Request = {q1, q2}
  Run = {b1, b2}
  None = None
  ClaimTimeout = 1
  MaxRun = 1
  MaxRows = 2
  MaxFaults = 1
SYMMETRY PlansSymmetry
CHECK_DEADLOCK FALSE
INVARIANTS
  PlansTypeOK
  OneTaskEach
  NoTwins
  TaskKeepsContent
PROPERTIES
  KeptOnRerun
