CONSTANT MaxChunks = 5
SPECIFICATION Spec
INVARIANT CompletedStreamIsLogged
CHECK_DEADLOCK FALSE
