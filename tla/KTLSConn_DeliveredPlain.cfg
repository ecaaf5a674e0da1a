CONSTANTS
    KernelVersions <- MCKernelVersions
    NoVersion = NoVersion
    NegotiatedSuites <- MCNegotiatedSuites
    MaxRecords = 2

SPECIFICATION Spec

INVARIANT DeliveredPlain


\* Once the record bounds are used up the connection has nothing left to do.
CHECK_DEADLOCK FALSE
