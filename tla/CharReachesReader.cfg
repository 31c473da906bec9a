SPECIFICATION FairSpec
CONSTANTS
  Getter = {g1, g2, g3}
  Char = {a, e}
  Empty = e
  BufferSize = 2
  MaxArrivals = 4
PROPERTY
  CharReachesReader
CHECK_DEADLOCK FALSE
