SPECIFICATION Spec
CONSTANTS
  Clients = {c1, c2}
  Ring = 4
  Blocks = {1, 2, 3}
  Horizon = 9
INVARIANTS
  SingleClientSmooth
PROPERTIES
  NoDoubleStep
SYMMETRY Interchangeable
