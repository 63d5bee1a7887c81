\* Two lists, pages of two chunks, structures of up to three chunks.
SPECIFICATION Spec
CONSTANTS
  NumLists = 2
  ChunksPerPage = 2
  MaxLen = 3
  MaxFile = 8
  Values = {v1}
  NoVal = NoVal
INVARIANTS
  TypeOK
  FreeHeadReady
  FreeListComplete
  NoOrphan
  IInv
PROPERTIES
  PageOnlyWhenFull
