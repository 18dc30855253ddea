SPECIFICATION RCSpec
CONSTANTS
    Caller = {t1, t2, t3}
    Handle = {h1, h2, h3}
    Libraries = 2
    Word = 16
    MaxLost = 2
INVARIANTS CountsHandles QuietMeansBalanced
\* The bound on Next ends a behaviour in which handles were forgotten.
CHECK_DEADLOCK FALSE
