CONSTANTS
    MemSize = 262144
    MaxInterrupts = 1
SPECIFICATION Spec
INVARIANT SpacesFresh
PROPERTIES RestartExact DirtyTracked StackAbortKeepsProgram
CHECK_DEADLOCK FALSE
