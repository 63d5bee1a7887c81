\* Every verb, with conditions of equalities and lists that fit the schema or not.
SPECIFICATION PathSpec
CONSTANTS
  Schema <- MCSchema
  Texts <- MCTexts
  IdStep = 2
  MaxRows = 2
  Half = 8
INVARIANTS
  WireIsTree
PROPERTIES
  AnswerRight
  DoneAsTyped
