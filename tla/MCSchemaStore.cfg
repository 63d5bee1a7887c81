\* One field in an element's chunk, so that b takes two.
SPECIFICATION Spec
CONSTANTS
  a = a
  b = b
  c = c
  Definitions <- MCDefinitions
  Words = {a, b, c}
  Values = {a}
  Numbers = {0}
  Updates <- SetB
  FieldsPerChunk = 1
  Boxes = {1, 2, 3}
  Elements = {1, 2, 3}
  Strings = {1, 2, 3, 4, 5, 6}
INVARIANTS
  TypeOK
  OneOwner
  ElementsReadable
  ListComplete
PROPERTIES
  ImplementsCatalog
