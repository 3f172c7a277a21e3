SPECIFICATION Spec
CONSTANT MaxFrames = 2
INVARIANT
    OrphanGoroutineSeesClose
PROPERTIES
    ReturnsOnRemoteClose
    StdinGoroutineEnds
    NoWriteAfterReturn
\* A handler that has returned does nothing more.
CHECK_DEADLOCK FALSE
