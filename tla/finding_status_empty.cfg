SPECIFICATION Spec
CONSTANTS
  EntryCount = 3
  CountMod = 8
  Jobs = 2
  OpcodesOf <- NpuOpcodes
  RuntimeJobs = {}
  Doorbells = {2}
  CopyTail = FALSE
  MaxResets = 0
  MaxDisables = 0
  MaxDirect = 0
  Stalling = {}
  MaxErrors = 0
  FbRows = 32
  BoxSizes = {81}
INVARIANT
  EmptyAfterFirst
