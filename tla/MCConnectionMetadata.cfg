SPECIFICATION Spec
CONSTANTS
  c1 = c1
  c2 = c2
  k1 = k1
  k2 = k2
  k3 = k3
  Client_id <- MCClient
  Key <- MCKey
  LocalHandle = {1}
  RemoteHandle = {1, 2}
  MaxMappings = 3
SYMMETRY MCSymmetry
INVARIANTS
  TypeOK
  IndexLeadsToNewest
