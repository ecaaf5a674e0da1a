CONSTANTS
    Limit = 2
    Total = 3
    MaxSplice = 2

SPECIFICATION Spec

INVARIANT NoOverRead


\* spliceToFile returns, or waits forever on a socket without a deadline.
CHECK_DEADLOCK FALSE
