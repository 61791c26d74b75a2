CONSTANTS
  NFrames = 6
  NDirs = 6
  NProcs = 3
  KernelPage = 2
  FrameSize = 16
  MaxFramesPerProc = 3
  NSteps = 2
  Programs <- ShellAndClock
  Sizes <- OnlySmall
SPECIFICATION Spec
INVARIANTS
  DirectoriesReleased
CHECK_DEADLOCK FALSE
