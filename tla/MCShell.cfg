SPECIFICATION ShellSpec
CONSTANTS
    Host = {stdout}
    Interpreter = {outer, inner}
    MaxArgs = 2
    MaxCommands = 2
    Path = {"a", "b", "c"}
    Program <- MCProgram
    Lines <- MCLines
    LaterLines <- MCLaterLines
    Arguments <- MCArguments
INVARIANTS OnlyLogFileOnStdout NothingLeftOpen FirstCommandHonoured WordsAsWritten OutputIsWhole
PROPERTIES LogLeftAsFound
\* The interpreters are used up, or the process is gone.
CHECK_DEADLOCK FALSE
