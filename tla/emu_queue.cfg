SPECIFICATION Spec
CONSTANTS
  Cols = 4
  Rows = 4
  NBufs = 2
  CmdqBytes = 112
  Descs <- MCDescs
  Inputs <- MCInputs
  Models <- MCModels
  Runtimes <- MCRuntimes
  Triangles <- MCTriangles
  Doorbells = {0, 3}
  MaxJobs = 3
  MaxCalls = 4
INVARIANTS
  EmuTypeOK
  SampleIsOwn
  PictureRight
  CountersTruthful
PROPERTIES
  ImplementsQueue
  ConfigKept
  QueuedResultIsOwn
  QueuedPictureStored
  DoorbellDrains
CHECK_DEADLOCK FALSE
