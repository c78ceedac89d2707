\* The build programs and the parts of nob.h they run on.
\* The builds end when the last start is used up.
SPECIFICATION Spec
CHECK_DEADLOCK FALSE
CONSTANTS
  Pids = {1, 2, 3}
  MaxProcs = 2
  CopyTrees <- MCCopyTrees
  CopyTargets <- MCCopyTargets
  BufSize = 2
  MaxCopyFaults = 1
  SourcePaths = {"nob.c", "more.c"}
  MaxTime = 4
  MaxEdits = 2
  MaxStarts = 3
  Trees <- MCTrees
  StubTrees <- MCStubTrees
  Edited <- MCEdited
  MaxVersion = 1
  MaxBuilds = 2
  MaxFaults = 1
INVARIANTS
  NothingForgotten
  FailureTold
  CopyFaithful
  ProgramSurvives
  SettlesDown
  NamesKept
  ImageCurrent
PROPERTIES
  CallReturns
  WorksFresh
