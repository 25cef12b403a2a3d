SPECIFICATION Spec
CONSTANTS
  g1 = g1
  g2 = g2
  g3 = g3
  b1 = b1
  SlotCount = 2
  Guard <- MCGuard
  Handle <- MCHandle
  RefRange = 8
INVARIANTS
  TypeOK
  CountsHolders
PROPERTIES
  ImplementsPool
CHECK_DEADLOCK TRUE
