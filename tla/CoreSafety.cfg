\* Capture, recovery and power under every interleaving, and the effort budget.
SPECIFICATION Spec
CONSTANTS
  MaxTries = 2
  TickDivide = 2
  kProgrammedWaitRounds = 1
  MaxEpisodes = 2
  kEngineResumeMaxTries = 2
  MaxClients = 2
  MaxPause = 2
  gStrictBorrow = FALSE
  UserClient = TRUE
  RemapMayFail = TRUE
  AbortAfterPowerDown = FALSE
  LateDemand = FALSE
INVARIANTS
  TypeOK
  NoHeadlessCapture
  CaptureMatchesStream
  ReadyMeansLoaded
  PoweredDownIsQuiet
  DemandNotStranded
PROPERTIES
  ExecutorParkedForSleep
  WithinBudget
\* A failed load ends the driver.
CHECK_DEADLOCK FALSE
