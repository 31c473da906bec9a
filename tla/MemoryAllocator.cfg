SPECIFICATION Spec
CONSTANTS
  HeapBlocks = 8
  BlockSize = 2
  Size = {0, 1, 2, 3, 4, 5, 6, 16}
  SizeLimit = 32
INVARIANTS
  TypeOK
  FreeListJoined
  BlocksConserved
  HoldsRequest
PROPERTY
  AllocatesWhenPossible
