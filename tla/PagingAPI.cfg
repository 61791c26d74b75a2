CONSTANTS
  NFrames = 4
  NDirs = 2
  KernelPage = 2
  FrameSize = 16
SPECIFICATION PagingSpec
INVARIANTS
  FreeCountExact
  MappedFramesAllocated
  FrameMappedOnce
  KernelEntryIffUsed
