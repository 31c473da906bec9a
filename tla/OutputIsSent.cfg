SPECIFICATION FairSpec
CONSTANTS
  Char = {a, b}
  BufferSize = 3
  MaxWritten = 4
PROPERTY
  OutputIsSent
