SPECIFICATION Spec
CONSTANTS
  EntryCount = 2
  CountMod = 8
  Jobs = 1
  OpcodesOf <- OneNpu
  RuntimeJobs = {}
  Doorbells = {1}
  CopyTail = FALSE
  MaxResets = 1
  MaxDisables = 1
  MaxDirect = 0
  Stalling = {}
  MaxErrors = 1
  FbRows = 4
  BoxSizes = {2}
INVARIANTS
  Handshake
  DispatchAccounting
  ErrorFlagged
