\* A command ends, so states without a successor are the normal outcome.
SPECIFICATION Spec
CONSTANTS
    Pieces = 2
    Name <- MCName
    Nested <- MCNested
    ValidName <- MCValidName
    ValidLicense <- MCValidLicense
    Narrow = 4
    Long = 8
    Packages <- MCPackages
    MaxRewrites = 2
INVARIANT
    ReportedIsFormatted
CHECK_DEADLOCK FALSE
