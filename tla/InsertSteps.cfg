\* One call at a time, two crashes.
SPECIFICATION Spec
CONSTANTS
  Threads = {t1}
  ChunksPerPage = 2
  MaxChunks = 8
  MaxCrashes = 2
INVARIANTS
  
  
  OneRoot
