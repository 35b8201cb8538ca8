SPECIFICATION Spec
CONSTANTS
  r1 = r1
  r2 = r2
  Tasks = {r1, r2}
  MaxSlots = 2
  MaxLives = 2
  MaxBehind = 1
  Served = {1}
SYMMETRY Symmetry
INVARIANTS
  TypeOK
  OneNewSlot
  SlotsAgree
  NoNeedlessDiscovery
