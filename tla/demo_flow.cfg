SPECIFICATION Spec
CONSTANTS
  Script <- MCScript
  Models <- MCModels
  RuntimeModels = {128, 129}
  Inputs = {"a", "b"}
  WeightSets = {"w0", "w8"}
  Triangles <- MCTriangles
  Cols = 5
  Rows = 5
  None = None
  MaxPolls = 2
  MaxRuns = 3
INVARIANTS
  DemoTypeOK
  AnswerIsOwn
  PictureIsOwn
  WakeUpComes
  LeavesClean
PROPERTIES
  RunEnds
CHECK_DEADLOCK FALSE
