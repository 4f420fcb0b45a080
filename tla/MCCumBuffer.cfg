CONSTANTS
  Junk = Junk
  Byte = {1, 2, 3, 4, 5, 6, 7}
  Chunk <- MCChunk
  Length = {0, 1, 2, 3, 4}
  NewLength = {3, 4}
  MaxLen = 6
SPECIFICATION Spec
INVARIANT TypeOK
PROPERTY IsFifo
