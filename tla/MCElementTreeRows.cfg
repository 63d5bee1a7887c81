\* One schema of two fields, two values: what updates and deletions do to rows.
SPECIFICATION Spec
CONSTANTS
  small = small
  large = large
  wide = wide
  f = f
  g = g
  v1 = v1
  v2 = v2
  Schemas = {wide}
  Fields <- MCFields
  Size <- MCSize
  Values = {v1, v2}
  Updates <- MCUpdates
  ChunksPerPage = 2
  MaxChunks = 4
PROPERTIES
  ImplementsForest
