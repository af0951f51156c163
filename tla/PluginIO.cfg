\* Two clients of the HAL in sessions of two and a quarter rings, a DSP that comes and goes, a
\* driver that is unloaded and a host process that crashes.
SPECIFICATION Spec
CONSTANTS
  Clients = {c1, c2}
  Nobody = Nobody
  Ring = 4
  Latency = 1
  MaxPoll = 3
  Horizon = 9
  DspMayFail = TRUE
  KextMayDie = TRUE
SYMMETRY Interchangeable
INVARIANTS
  CaptureWhileCounted
  StampsFollowRing
PROPERTIES
  StampsMonotonic
  CaptureIsShared
