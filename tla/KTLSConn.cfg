CONSTANTS
    KernelVersions <- MCKernelVersions
    NoVersion = NoVersion
    NegotiatedSuites <- MCNegotiatedSuites
    MaxRecords = 2

SPECIFICATION Spec

INVARIANT TypeOK
INVARIANT OffloadConsistent
INVARIANT UlpBoundOnce
INVARIANT OffloadWithinCaps
INVARIANT TLS13RXNeedsKernel6
PROPERTY OffloadRefined

\* Once the record bounds are used up the connection has nothing left to do.
CHECK_DEADLOCK FALSE
