SPECIFICATION FairSpec
CONSTANTS
  Getter = {g1, g2, g3}
  Char = {a, e}
  Empty = e
  BufferSize = 2
  MaxArrivals = 4
INVARIANTS
  TypeOK
  InputInOrder
  CharsAreAnnounced
PROPERTY
  WaitingReaderRuns
CHECK_DEADLOCK FALSE
