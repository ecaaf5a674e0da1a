CONSTANTS
    Limit = 2
    Total = 3
    MaxSplice = 2

SPECIFICATION Spec

INVARIANT TypeOK
INVARIANT PipeDrainedBeforeNextChunk
INVARIANT ShortTransferHasError
PROPERTY ErrorSticky
PROPERTY TransferRefined

\* spliceToFile returns, or waits forever on a socket without a deadline.
CHECK_DEADLOCK FALSE
