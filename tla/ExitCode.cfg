CONSTANT MaxMessages = 4
SPECIFICATION Spec
INVARIANT ExitCodeTellsShutdown
