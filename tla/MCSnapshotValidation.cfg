CONSTANTS
  n1 = n1  n2 = n2  n3 = n3
  Ids <- ThreeIds
  MaxRecords = 3
CHECK_DEADLOCK FALSE
SPECIFICATION ValidationSpec
SYMMETRY Symmetric
INVARIANTS
  AcceptedIsStorable
