\* One list, two values: the store against ChunkHeap, and every call returns.
SPECIFICATION FairSpec
CONSTANTS
  NumLists = 1
  ChunksPerPage = 2
  MaxLen = 3
  MaxFile = 6
  Values = {v1, v2}
  NoVal = NoVal
PROPERTIES
  ImplementsHeap
  CallReturns
