SPECIFICATION Spec
CONSTANTS
  a = a
  b = b
  c = c
  Procs <- ThreeProcs
  Initialisers <- OnlyA
  Lossy = {"gets", "acquire"}
  Tries = 3
  Nobody = Nobody
INVARIANTS
    MutualExclusion
PROPERTIES
    IsMutex
CHECK_DEADLOCK FALSE
