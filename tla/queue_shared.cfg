SPECIFICATION FairSpec
CONSTANTS
  EntryCount = 3
  CountMod = 8
  Jobs = 1
  OpcodesOf <- OneOfEither
  RuntimeJobs = {}
  Doorbells = {1, 2}
  CopyTail = FALSE
  MaxResets = 0
  MaxDisables = 0
  MaxDirect = 2
  Stalling = {}
  MaxErrors = 0
  FbRows = 2
  BoxSizes = {1}
INVARIANT
  NpuAccounting
PROPERTY
  DirectReturns
