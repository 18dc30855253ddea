\* One interpreter, so that no other one is there to silence anybody.
SPECIFICATION Spec
CONSTANTS
    Host = {stdout, file}
    Interpreter = {only}
PROPERTIES ActiveResumed
\* The interpreter is used up.
CHECK_DEADLOCK FALSE
