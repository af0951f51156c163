\* Two engines, late notifications, a burst of one, windows and backoffs that meet.
SPECIFICATION FairRateSpec
CONSTANTS
  Engines = {e1, e2}
  kSettleSecs = 3
  kBackoffSecs = 10
  kBurstWindow = 10
  kBurstLimit = 1
  RebuildSecs = 2
  Lag = 1
INVARIANTS
  ListensToAll
  FightBounded
PROPERTIES
  RebuildProtected
  HeldRateCorrected
