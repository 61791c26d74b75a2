CONSTANTS
  NFrames = 6
  NDirs = 3
  NProcs = 3
  KernelPage = 2
  FrameSize = 16
  MaxFramesPerProc = 3
  NSteps = 2
  Programs <- ShellAndClock
  Sizes <- SmallAndHuge
SPECIFICATION FairSpec
INVARIANTS
  TypeOK
  FreeCountExact
  ActiveCountExact
  FrameMappedOnce
  DirectoriesDistinct
  RunningBlockOwnsCpu
  ResumesWhereInterrupted
  ImageIntact
  DirectoryAvailable
  StacklessOnlyAtTheEnd
  KernelLostOnlyBySelfDestruction
  ShellSurvives
PROPERTIES
  WaitingProcessesUndisturbed
  RoundRobinService
  NoStarvation
CHECK_DEADLOCK FALSE
