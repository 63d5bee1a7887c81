\* field: {$ne: value}: violated.
SPECIFICATION PathSpec
CONSTANTS
  Schema <- MCSchema
  Texts <- NeTexts
  IdStep = 2
  MaxRows = 2
  Half = 8
PROPERTIES
  AnswerRight
