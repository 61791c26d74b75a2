------------------------------ MODULE KernelMC ------------------------------
(***************************************************************************)
(* Small instances of Kernel.  The real constants are 32 frames, 32        *)
(* directories and 16 processes.  The instances keep two frames per        *)
(* process, one of them the kernel's, so the last process the table has    *)
(* room for is the one that gets no stack; their pools of directories are  *)
(* either as large as the memory or as small as PoolAssumption allows.     *)
(***************************************************************************)
EXTENDS Kernel

\* Sizes in bytes with a frame of 16: an executable of half a frame, and one
\* that needs more frames than PROCESS_PAGE_FRAME_COUNT_MAX.
SmallAndHuge == {8, 56}

OnlySmall == {8}

ShellAndClock == {"shell", "clock"}
=============================================================================
