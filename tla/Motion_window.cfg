SPECIFICATION Spec
CONSTANTS
  Guards <- AllGuards
  Near <- MCNear
  Far <- MCFar
  Quiet = 12
  Wrap = 16
  Samples = 3
  Pause = 2
INVARIANTS TypeOK SteadyMotionHeard
PROPERTIES SecondInTime
