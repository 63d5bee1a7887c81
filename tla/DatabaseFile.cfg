\* Pages of two chunks, structures of up to three, two faults.
SPECIFICATION Spec
CONSTANTS
  ChunksPerPage = 2
  MaxLen = 3
  MaxFile = 6
  Values = {1}
  MaxFaults = 2
  Kinds = {"crash", "fail"}
INVARIANTS
  HeaderCurrent
  HeldIntact
  NeverOffered
  CrashLoss
