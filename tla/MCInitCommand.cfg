SPECIFICATION CommandSpec
CONSTANTS
    Process = {p, q}
    Base <- MCBase
    MaxAttempts = 1
    Files = 2
    SPDX_IDENTIFIERS <- MCTable
    Asked <- MCAsked
    DefaultLicense <- MCDefaultLicense
    Narrow = 16777216
    Long = 33554432
INVARIANTS OldPackagesUntouched OutcomeIsTrue SpellingIsNearest PackageAsAsked TextsComplete
\* Every command ends.
CHECK_DEADLOCK FALSE
