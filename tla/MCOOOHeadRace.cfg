SPECIFICATION Spec
CONSTANTS
  Series = {s1, s2}
  Times = {1, 2}
  Readers = {}
  oooCapMax = 1
  blockSize = 2
  MaxRef = 3
INVARIANTS
  InsertedStored
