\* Sessions of up to three lines, right and wrong ones.
SPECIFICATION Spec
CONSTANTS
  Lines <- MCLines
  MaxLines = 3
  MaxFields = 2
  MaxEnds = 1
INVARIANTS
  NothingKept
  SessionAsTyped
PROPERTIES
  GoodLineSent
