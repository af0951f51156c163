\* The default configuration: strict borrowing, the kernel engine the only client; sleeps
\* undone at any point, and engine starts while the device is powered down. With the
\* scheduling's fairness: recovery converges once disturbances or faults stop.
SPECIFICATION FairSpec
CONSTANTS
  MaxTries = 2
  TickDivide = 1
  kProgrammedWaitRounds = 1
  MaxEpisodes = 1
  kEngineResumeMaxTries = 2
  MaxClients = 2
  MaxPause = 3
  gStrictBorrow = TRUE
  UserClient = FALSE
  RemapMayFail = FALSE
  AbortAfterPowerDown = TRUE
  LateDemand = TRUE
INVARIANTS
  StatusDeferredInProgress
  RunningEngineHasCapture
PROPERTIES
  ResumeLatchSpent
  LoadDeferralIsPatient
  RecoveryTerminates
  DemandServed
  SessionRestored
\* A failed load ends the driver.
CHECK_DEADLOCK FALSE
