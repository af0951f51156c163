\* The keep-alive stage against AppleHDA, the jack, sleep and lost commands.
SPECIFICATION Spec
CONSTANTS
  Sigs = {s1, s2}
  kAfgSenseTicks = 2
  kAfgBeltTicks = 4
  kAfgIciFailLimit = 3
INVARIANTS
  TypeOK
  StaticIsBounded
  NoIdleFight
