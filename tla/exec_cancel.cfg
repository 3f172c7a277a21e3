SPECIFICATION Spec
CONSTANT MaxFrames = 2
PROPERTY ReturnsOnCancel
\* A handler that has returned does nothing more.
CHECK_DEADLOCK FALSE
