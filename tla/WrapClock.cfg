\* Wraps, outages and late polls shorter than a ring.
SPECIFICATION Spec
CONSTANTS
  Ring = 6
  Poll = 2
  SpinMax = 1
  Late = 1
  OutageLate = 1
  Horizon = 24
  MaxOutages = 2
INVARIANTS
  TimelineLocked
  TimelineCurrent
PROPERTIES
  StampOnWrap
\* Time stops at the horizon.
CHECK_DEADLOCK FALSE
