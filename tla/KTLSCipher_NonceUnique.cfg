CONSTANTS
    Suites <- MCSuites
    MaxRecords <- MCMaxRecords
SPECIFICATION Spec
INVARIANTS
    NonceUnique
CHECK_DEADLOCK FALSE
