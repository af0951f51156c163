\* A sleep undone after setPowerState(0).
SPECIFICATION Spec
CONSTANTS
  MaxTries = 2
  TickDivide = 1
  kProgrammedWaitRounds = 1
  MaxEpisodes = 1
  kEngineResumeMaxTries = 2
  MaxClients = 1
  MaxPause = 2
  gStrictBorrow = FALSE
  UserClient = TRUE
  RemapMayFail = FALSE
  AbortAfterPowerDown = TRUE
  LateDemand = FALSE
INVARIANTS
  CaptureMatchesStream
\* A failed load ends the driver.
CHECK_DEADLOCK FALSE
