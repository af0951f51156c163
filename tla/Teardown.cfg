SPECIFICATION FairStopSpec
INVARIANTS
  NoUseAfterFree
PROPERTIES
  StopEnds
