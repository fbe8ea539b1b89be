SPECIFICATION Spec
CONSTANTS
    numThread = 2
    Tree <- SameTree
INVARIANT VerdictRight
CHECK_DEADLOCK FALSE
