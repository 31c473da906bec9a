SPECIFICATION Spec
CONSTANTS
  Char = {a, b}
  BufferSize = 3
  MaxWritten = 7
INVARIANTS
  TypeOK
  OutputInOrder
  RequestsOnlyWhenFull
