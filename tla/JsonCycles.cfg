SPECIFICATION Spec
CONSTANT Pairs <- MCPairs
INVARIANT CyclesTerminate
CHECK_DEADLOCK FALSE
