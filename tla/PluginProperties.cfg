SPECIFICATION Spec
CONSTANTS
  Threads = {t1, t2}
  Nobody = nobody
  Names = {n1, n2}
  DefaultName = defaultName
  NoName = noName
  Directions = {input, output}
  MaxVolume = 2
  MaxRefs = 2
  MaxSets = 3
SYMMETRY Interchangeable
INVARIANTS
  SwitchesAgree
  ListsAreSnapshots
  ChangesArePublished
