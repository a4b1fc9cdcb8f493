SPECIFICATION FairSpec
CONSTANTS
  EntryCount = 3
  CountMod = 8
  Jobs = 4
  OpcodesOf <- MixedOpcodes
  RuntimeJobs = {}
  Doorbells = {1, 2}
  CopyTail = TRUE
  MaxResets = 0
  MaxDisables = 0
  MaxDirect = 0
  Stalling = {"AR", "R", "AW", "W", "B"}
  MaxErrors = 0
  FbRows = 4
  BoxSizes = {2}
INVARIANTS
  TypeOK
  StatusTruthful
  NpuAccounting
  BurstOwner
  ExecNeverBusy
  StoredResultIsOwn
PROPERTIES
  ImplementsQueue
  DoorbellServed
  AcceptedJobStored
