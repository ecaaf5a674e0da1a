CONSTANTS
    Suites <- MCSuites
    MaxRecords <- MCMaxRecords
SPECIFICATION Spec
INVARIANTS
    TypeOK
    SequencedNonceUnique
CHECK_DEADLOCK FALSE
