\* Small sizes, none a divisor of another.
SPECIFICATION Spec
CONSTANTS
  HeaderSize = 5
  PageHeaderSize = 2
  ChunkSize = 3
  ChunksPerPage = 2
  MaxLen = 3
  MaxPages = 5
INVARIANTS
  TypeOK
  LinksMeetChunks
  IdsAccepted
  FreeRefused
