SPECIFICATION Spec
CONSTANTS
  EntryCount = 2
  CountMod = 8
  Jobs = 1
  OpcodesOf <- OneNpu
  RuntimeJobs = {}
  Doorbells = {1}
  CopyTail = FALSE
  MaxResets = 0
  MaxDisables = 0
  MaxDirect = 0
  Stalling = {}
  MaxErrors = 0
  FbRows = 32
  BoxSizes = {81}
INVARIANT
  ExecStatusReports
