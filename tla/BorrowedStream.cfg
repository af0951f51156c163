\* Every exit of initDSP, over several calls, with AppleHDA in between.
SPECIFICATION Spec
CONSTANTS
  Tunes = {t1, t2}
  sIdx = sIdx
  other = other
INVARIANTS
  LeftAsFound
  StatusTellsOutcome
