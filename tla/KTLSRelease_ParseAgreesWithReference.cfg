CONSTANTS
    Majors <- MCMajors
    Minors <- MCMinors
    Rests <- MCRests

SPECIFICATION Spec

INVARIANT ParseAgreesWithReference

\* init() runs once; the parse is its only step.
CHECK_DEADLOCK FALSE
