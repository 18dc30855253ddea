-------------------------------- MODULE Shell --------------------------------
(***************************************************************************)
(* The program no3 (exe/src/main.cc): one command and an exit code, or a   *)
(* shell; with what an interpreter makes of a command's words              *)
(* (core/cli/Interpreter.cc, impl/Run.cc).  The lsp command is             *)
(* LspCommand's, `impl parse' is ImplParse's; init, format and             *)
(* `impl config-check' have modules of their own and return anything here. *)
(*                                                                         *)
(* A line is a sequence of characters: a space, a quote, or a piece, which *)
(* stands for a run of others.  A word is a sequence of characters too.    *)
(*                                                                         *)
(* The program has one interpreter and no other subscriber of the log; the *)
(* model allows it what any program that embeds interpreters may do.       *)
(***************************************************************************)
EXTENDS LspCommand, ImplParse, Version

CONSTANTS
    Program,     \* args[0], a word
    Lines,       \* what may be typed
    LaterLines,  \* of these, what may be typed as a second command or later
    Arguments    \* what the program may be called with: sequences of words

VARIABLES
    interactive,   \* it is a shell
    turn,          \* "prompt", "perform", "lsp", "parse" or "ended"
    line,          \* the line that is executed
    words,         \* the words it was split into
    unsaved,       \* lines of the history that are not in its file
    exit           \* the exit code

mainVars == <<interactive, turn, line, words, unsaved, exit>>

allVars == <<vars, parseVars, mainVars>>

SpaceChar == " "
Quote == "\""

ASSUME ShellAssumption ==
    /\ Program \in Seq(STRING) \ {<<>>} /\ Lines \subseteq Seq(STRING)
    /\ Arguments \subseteq Seq(Seq(STRING))
    /\ \A i \in DOMAIN Program : Program[i] \notin {SpaceChar, Quote}
    /\ LaterLines \subseteq Lines
-----------------------------------------------------------------------------
SplitStepDroppingQuotes(s, c) ==
    IF c = SpaceChar /\ ~s.in_quote
    THEN [s EXCEPT !.args = IF s.arg = <<>> THEN @ ELSE Append(@, s.arg),
                   !.arg = <<>>, !.in_quote = FALSE]
    ELSE IF c = Quote THEN [s EXCEPT !.in_quote = s.arg = <<>>]
    ELSE [s EXCEPT !.arg = Append(@, c)]

SplitStep(s, c) ==
    IF c = SpaceChar /\ ~s.in_quote
    THEN [s EXCEPT !.args = IF s.arg = <<>> THEN @ ELSE Append(@, s.arg), !.arg = <<>>]
    ELSE IF c = Quote THEN [s EXCEPT !.in_quote = ~@]
    ELSE [s EXCEPT !.arg = Append(@, c)]

SplitCommand(command) ==
    LET s == FoldLeft(SplitStep, [args |-> <<>>, arg |-> <<>>, in_quote |-> FALSE], command)
    IN  IF s.arg = <<>> THEN s.args ELSE Append(s.args, s.arg)

\* What a shell executes for a line.
Split == [l \in Lines |-> SplitCommand(Program \o <<SpaceChar>> \o l)]

\* m_commands
Aliases ==
    [build |-> {"build", "b"}, clean |-> {"clean", "c"}, doc |-> {"doc", "d"},
     find |-> {"find", "f"}, format |-> {"format", "m", "fmt"},
     help |-> {"help", "-h", "h", "--help"}, impl |-> {"impl", "w"}, init |-> {"init", "n"},
     install |-> {"install", "i"}, lsp |-> {"lsp", "x"}, license |-> {"license"},
     remove |-> {"remove", "r"}, test |-> {"test", "t"},
     version |-> {"version", "--version"}, update |-> {"update", "u"}]

\* Commands that say they are not implemented.
Unimplemented == {"build", "clean", "doc", "find", "install", "remove", "test", "update"}

IMPL_SUBCOMMANDS ==
    [help |-> {"help", "--help", "-h"}, config |-> {"config-check"}, self |-> {"self-test"},
     parse |-> {"parse"}]

\* A word of several characters is nobody's name, here.
Plain(word) == IF Len(word) = 1 THEN word[1] ELSE "?"

Named(table, name) == { c \in DOMAIN table : name \in table[c] }

\* The commands the words call, none or one, and their arguments.
Called == IF Len(words) < 2 THEN {} ELSE Named(Aliases, Plain(words[2]))

argv == [i \in 1..(Len(words) - 2) |-> Plain(words[i + 2])]

SubCalled == IF argv = <<>> THEN {} ELSE Named(IMPL_SUBCOMMANDS, argv[1])
-----------------------------------------------------------------------------
ShellInit ==
    /\ Init /\ ParseInit
    /\ interactive \in BOOLEAN
    /\ turn = "prompt" /\ line = <<>> /\ words = <<>>
    /\ unsaved = 0 /\ exit = 0

\* The loop reads another line and asks for no result; without a shell the
\* result is the exit code.
BackTo(r) ==
    /\ words' = <<>> /\ line' = <<>>
    /\ IF interactive THEN turn' = "prompt" /\ UNCHANGED exit
       ELSE turn' = "ended" /\ exit' = IF r THEN 0 ELSE 1
    /\ UNCHANGED <<interactive, unsaved>>

\* An empty line is passed over.
EnterLine ==
    /\ interactive /\ turn = "prompt" /\ AnyAlive /\ count < MaxCommands
    /\ \E l \in (IF count = 0 THEN Lines ELSE LaterLines) \ {<<>>, <<"exit">>} :
         line' = l /\ words' = Split[l]
    /\ turn' = "perform" /\ unsaved' = unsaved + 1 /\ count' = count + 1
    /\ UNCHANGED <<logVars, optind, dangling, args, options, pc, open, result, heardBefore,
                   parseVars, interactive, exit>>

\* "exit" is a line of the history, the end of the input is none.
LeaveShell ==
    /\ interactive /\ turn = "prompt" /\ AnyAlive
    /\ turn' = "ended" /\ unsaved' = 0
    /\ UNCHANGED <<vars, parseVars, interactive, line, words, exit>>

RunOnce ==
    /\ ~interactive /\ turn = "prompt" /\ AnyAlive /\ count < MaxCommands
    /\ \E a \in Arguments : a # <<<<"shell">>>> /\ words' = <<Program>> \o a
    /\ turn' = "perform" /\ count' = count + 1
    /\ UNCHANGED <<logVars, optind, dangling, args, options, pc, open, result, heardBefore,
                   parseVars, interactive, line, unsaved, exit>>

AnswersOf(command) ==
    CASE command \in Unimplemented -> {FALSE}
      [] command = "help"    -> {TRUE}
      [] command = "license" -> {argv = <<>>}
      [] command = "version" -> {CommandVersion(argv)}
      [] command = "impl"    -> IF SubCalled = {} THEN {FALSE}
                                ELSE IF SubCalled = {"help"} THEN {TRUE} ELSE BOOLEAN
      [] command \in {"format", "init"} -> BOOLEAN

IsParse == Called = {"impl"} /\ SubCalled = {"parse"}

\* Perform, of a command that is over at once here.
Perform ==
    /\ turn = "perform" /\ Called # {"lsp"} /\ ~IsParse
    /\ result' \in UNION { AnswersOf(c) : c \in Called } \cup (IF Called = {} THEN {FALSE} ELSE {})
    /\ BackTo(result')
    /\ UNCHANGED <<logVars, optind, dangling, args, options, pc, open, count, heardBefore, parseVars>>

PerformLsp ==
    /\ turn = "perform" /\ Called = {"lsp"}
    /\ Call(argv)
    /\ turn' = "lsp"
    /\ UNCHANGED <<count, parseVars, interactive, line, words, unsaved, exit>>

LspStep ==
    /\ turn = "lsp" /\ Command
    /\ IF pc' = "idle" THEN BackTo(result') ELSE UNCHANGED mainVars
    /\ UNCHANGED parseVars

PerformParse ==
    /\ turn = "perform" /\ IsParse
    /\ CommandImplParse(Tail(argv))
    /\ turn' = "parse"
    /\ UNCHANGED <<vars, interactive, line, words, unsaved, exit>>

ParsingStep ==
    /\ turn = "parse" /\ ParseStep
    /\ UNCHANGED <<vars, mainVars>>

ParseOver ==
    /\ turn = "parse" /\ ParseReturns
    /\ BackTo(success) /\ result' = success
    /\ UNCHANGED <<logVars, optind, dangling, args, options, pc, open, count, heardBefore>>

Embedding ==
    /\ turn = "prompt" /\ Elsewhere
    /\ UNCHANGED <<parseVars, mainVars>>

ShellNext ==
    \/ EnterLine \/ LeaveShell \/ RunOnce
    \/ Perform \/ PerformLsp \/ LspStep \/ PerformParse \/ ParsingStep \/ ParseOver
    \/ Embedding

ShellSpec == ShellInit /\ [][ShellNext]_allVars
-----------------------------------------------------------------------------
\* The quotes before place k are in pairs.
Open(l, k) == Cardinality({ i \in 1..(k - 1) : l[i] = Quote }) % 2 = 0

\* There a run of characters ends,
Ends(l, k) == l[k] = SpaceChar /\ Open(l, k)

\* and the place after it is of the next: which run place k is of.
RunOf(l, k) == 1 + Cardinality({ i \in 1..(k - 1) : Ends(l, i) })

\* What a line says: the runs between its unquoted spaces, without the quotes,
\* and without those of which nothing is left.
Written(l) ==
    LET piece(n, k) == IF RunOf(l, k) = n /\ ~Ends(l, k) /\ l[k] # Quote THEN <<l[k]>> ELSE <<>>
        run(n) == FlattenSeq([k \in DOMAIN l |-> piece(n, k)])
    IN  FlattenSeq([n \in 1..RunOf(l, Len(l) + 1) |-> IF run(n) = <<>> THEN <<>> ELSE <<run(n)>>])

WrittenLines == [l \in Lines |-> Written(l)]

\* A shell executes the words its line says, behind the program's name
\* (exe/src/main.cc:9-29, 89), whatever quotes it opens and does not close; the
\* name itself is split too, and a path with a space in it is two words.
WordsAsWritten == turn = "perform" /\ interactive => words = <<Program>> \o WrittenLines[line]
=============================================================================
