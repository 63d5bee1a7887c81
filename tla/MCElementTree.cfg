\* Two sizes of elements, one value: the tree, the scans and the chunks.
SPECIFICATION FairSpec
CONSTANTS
  small = small
  large = large
  wide = wide
  f = f
  g = g
  v1 = v1
  v2 = v2
  Schemas = {small, large}
  Fields <- MCFields
  Size <- MCSize
  Values = {v1}
  Updates <- NoUpdates
  ChunksPerPage = 2
  MaxChunks = 6
INVARIANTS
  TypeOK
  LinksAgree
  ScanComplete
  SchemaCounts
  ChunksAccounted
  PathsAgree
  IteratorLive
PROPERTIES
  DeletesExact
  DeleteReturns
