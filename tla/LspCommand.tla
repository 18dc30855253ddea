----------------------------- MODULE LspCommand -----------------------------
(***************************************************************************)
(* The lsp command, as an interpreter executes it any number of times in   *)
(* one process: options, connection, log file, server (lsp/Run.cc,         *)
(* lsp/connect).  What the server does while it serves is LspServer's      *)
(* matter; Shell composes these steps with the other commands.             *)
(*                                                                         *)
(* getopt_long keeps its place in `optind', a variable of the C library    *)
(* that nobody resets: a later command starts to read its arguments where  *)
(* an earlier one stopped.                                                 *)
(***************************************************************************)
EXTENDS LogSubscribers, Naturals, FiniteSets, Sequences, SequencesExt

CONSTANTS
    MaxArgs,     \* arguments of a command, its name not counted
    MaxCommands

MaxGarbage == 1  \* words that getopt_long may find in freed memory

ASSUME CommandAssumption == MaxArgs \in Nat /\ MaxCommands \in Nat

\* The words a command line is made of.  "80" may be the argument of "-p"; it
\* stands for every word that is no option.
Word == {"--help", "-s", "--stdio", "-p", "--port=80", "--log=f", "-z", "80"}

VARIABLES
    optind,      \* the C library's; 1 is the first argument
    dangling,    \* getopt_long points into arguments that have been freed
    args,        \* the arguments of the command that runs
    options,     \* what its parser has made of them
    pc,          \* what the command does next
    open,        \* what it holds open: "listener", "client", "log"
    result,      \* what it returned
    count,       \* commands executed
    heardBefore  \* history: who heard the log when the command began

cmdVars == <<optind, dangling, args, options, pc, open, result, count, heardBefore>>

vars == <<logVars, cmdVars>>

\* The system calls of AcceptTcpClientConnection, in their order.
TcpCall == <<"socket", "setsockopt", "bind", "listen", "accept", "close">>

NoOptions ==
    [help |-> FALSE, stdio |-> 0, port |-> 0, mode |-> "stdio", connect |-> "",
     log |-> "", bad |-> FALSE, words |-> 0, awaits |-> FALSE, short |-> FALSE]

Init ==
    /\ LogInit
    /\ optind = 1 /\ dangling = FALSE
    /\ args = <<>> /\ options = NoOptions
    /\ pc = "idle" /\ open = {}
    /\ result = FALSE /\ count = 0
    /\ heardBefore = {}

Go(from, to) == pc = from /\ pc' = to

Return(r) ==
    /\ pc' = "idle" /\ result' = r
    /\ args' = <<>> /\ options' = NoOptions
    /\ UNCHANGED <<count, heardBefore>>
-----------------------------------------------------------------------------
WithPort(o, w) ==
    [o EXCEPT !.awaits = FALSE, !.short = FALSE, !.mode = "port", !.connect = w,
              !.port = @ + 1, !.bad = @ \/ o.port > 0]

TakeLast(o, w) ==
    IF o.awaits THEN WithPort(o, w)
    ELSE CASE w = "-p"         -> [o EXCEPT !.awaits = TRUE, !.short = FALSE]
           [] w = "--port=80"  -> WithPort(o, "80")
           [] w = "-s"         -> [o EXCEPT !.stdio = 1, !.port = 0, !.mode = "stdio", !.short = TRUE]
           [] w = "--stdio"    -> [o EXCEPT !.stdio = 1, !.port = 0, !.mode = "stdio", !.short = FALSE]
           [] w = "--log=f"    -> [o EXCEPT !.log = "f", !.short = FALSE]
           [] w = "--help"     -> [o EXCEPT !.help = TRUE, !.short = FALSE]
           [] w = "-z"         -> [o EXCEPT !.bad = TRUE, !.short = TRUE]
           [] OTHER            -> [o EXCEPT !.words = @ + 1]

\* getopt_long finds the word w after it found what o says, and DoParse acts
\* on it; a word that is neither an option nor its argument is set aside.
Take(o, w) ==
    IF o.awaits THEN WithPort(o, w)
    ELSE CASE w = "-p"         -> [o EXCEPT !.awaits = TRUE, !.short = FALSE]
           [] w = "--port=80"  -> WithPort(o, "80")
           [] w \in {"-s", "--stdio"} ->
                [o EXCEPT !.stdio = @ + 1, !.mode = "stdio", !.short = w = "-s",
                          !.bad = @ \/ o.stdio > 0]
           [] w = "--log=f"    ->
                [o EXCEPT !.log = "f", !.short = FALSE, !.bad = @ \/ o.log # ""]
           [] w = "--help"     -> [o EXCEPT !.help = TRUE, !.short = FALSE]
           [] w = "-z"         -> [o EXCEPT !.bad = TRUE, !.short = TRUE]
           [] OTHER            -> [o EXCEPT !.words = @ + 1]

\* The parser's members after DoParse: an option without its argument and
\* words set aside are too many arguments, the log file has a default.
Parsed(words) ==
    LET o == FoldLeft(Take, [NoOptions EXCEPT !.short = dangling], words)
    IN  [o EXCEPT !.bad = @ \/ o.awaits \/ o.words > 0,
                  !.log = IF @ = "" THEN "nitrate-lsp.log" ELSE @]

\* Check
Valid(o) == ~o.bad /\ o.stdio + o.port <= 1

\* What getopt_long reads before the arguments at hand.
Garbage == IF dangling THEN SeqOf(Word \ {"80"}, MaxGarbage) ELSE {<<>>}

\* Interpreter::Execute: the command is called with the arguments a.
Call(a) ==
    /\ AnyAlive
    /\ Go("idle", "parse")
    /\ args' = a
    /\ heardBefore' = Hears
    /\ UNCHANGED <<logVars, optind, dangling, options, open, result>>

\* LspCommandArgumentParser, from where getopt_long stopped the last time.
Parse ==
    /\ pc = "parse" /\ optind <= Len(args) + 1
    /\ \E garbage \in Garbage :
         LET o == Parsed(garbage \o SubSeq(args, optind, Len(args))) IN
           /\ optind' = Len(args) + 1 - o.words
           /\ dangling' = o.short
           /\ IF o.help \/ ~Valid(o) THEN Return(o.help)
              ELSE /\ pc' = "connect" /\ options' = o
                   /\ UNCHANGED <<args, result, count, heardBefore>>
    /\ UNCHANGED <<logVars, open>>

\* Reading freed arguments, or past the last one, takes the process down.
ParseCrash ==
    /\ dangling \/ optind > Len(args) + 1
    /\ Go("parse", "dead")
    /\ UNCHANGED <<logVars, optind, dangling, args, options, open, result, count, heardBefore>>
-----------------------------------------------------------------------------
\* OpenConnection
ConnectStdio ==
    /\ options.mode = "stdio"
    /\ Go("connect", "log")
    /\ UNCHANGED <<logVars, optind, dangling, args, options, open, result, count, heardBefore>>

ConnectPort ==
    /\ options.mode = "port" /\ options.connect = "80"
    /\ Go("connect", TcpCall[1])
    /\ UNCHANGED <<logVars, optind, dangling, args, options, open, result, count, heardBefore>>

InvalidPort ==
    /\ pc = "connect"
    /\ options.mode = "port" /\ options.connect # "80"
    /\ Return(FALSE)
    /\ UNCHANGED <<logVars, optind, dangling, open>>

\* AcceptTcpClientConnection
TcpSucceeds(k) ==
    /\ Go(TcpCall[k], IF k < Len(TcpCall) THEN TcpCall[k + 1] ELSE "log")
    /\ open' = IF TcpCall[k] = "close" THEN open \ {"listener"}
               ELSE open \cup (IF TcpCall[k] = "socket" THEN {"listener"} ELSE {})
                         \cup (IF TcpCall[k] = "accept" THEN {"client"} ELSE {})
    /\ UNCHANGED <<logVars, optind, dangling, args, options, result, count, heardBefore>>

TcpFailsLeavingClient(k) ==
    /\ pc = TcpCall[k]
    /\ open' = open \ {"listener"}
    /\ Return(FALSE)
    /\ UNCHANGED <<logVars, optind, dangling>>

\* Each call closes what was opened before it; a failing close has closed.
TcpFails(k) ==
    /\ pc = TcpCall[k]
    /\ open' = open \ (IF TcpCall[k] = "close" THEN {"listener", "client"} ELSE {"listener"})
    /\ Return(FALSE)
    /\ UNCHANGED <<logVars, optind, dangling>>

OpenLog ==
    /\ Go("log", "start")
    /\ open' = open \cup {"log"}
    /\ UNCHANGED <<logVars, optind, dangling, args, options, result, count, heardBefore>>

\* The destructor of the connection closes the client's descriptor.
OpenLogFails ==
    /\ pc = "log"
    /\ open' = open \ {"client"}
    /\ Return(FALSE)
    /\ UNCHANGED <<logVars, optind, dangling>>

\* StartServer up to Server::Start ...
Start ==
    /\ Go("start", "serve")
    /\ IF options.mode = "stdio" THEN Silence ELSE LogToFile
    /\ UNCHANGED <<optind, dangling, args, options, open, result, count, heardBefore>>

\* ... and from its return on.
ServerReturns ==
    /\ pc = "serve"
    /\ IF options.mode = "stdio" THEN Unsilence ELSE StopLogToFile
    /\ open' = open \ {"log", "client"}
    /\ \E status \in BOOLEAN : Return(status)
    /\ UNCHANGED <<optind, dangling>>
-----------------------------------------------------------------------------
\* The command holds its program's thread, which does nothing else meanwhile.
Elsewhere ==
    /\ pc = "idle"
    /\ HostStep \/ \E i \in Interpreter : Construct(i) \/ Destruct(i) \/ MoveAssign(i)
    /\ UNCHANGED cmdVars

Command ==
    \/ Parse \/ ParseCrash
    \/ ConnectStdio \/ ConnectPort \/ InvalidPort
    \/ \E k \in DOMAIN TcpCall : TcpSucceeds(k) \/ TcpFails(k)
    \/ OpenLog \/ OpenLogFails
    \/ Start \/ ServerReturns

-----------------------------------------------------------------------------
\* The command leaves the log as it found it, whatever it was told and
\* whatever failed (lsp/Run.cc:245-271): who heard it before hears it after,
\* and who was suspended still is.
LogLeftAsFound ==
    [][pc # "idle" /\ pc' = "idle" => Hears' = heardBefore]_vars

\* "Suspend all log subscribers to ensure nothing interferes with the LSP
\* server stdout and stderr streams" (lsp/Run.cc:253): on standard output
\* the log file alone hears; on a port it hears beside the others.
OnlyLogFileOnStdout ==
    pc = "serve" =>
      Hears = {FileLogger} \cup (IF options.mode = "stdio" THEN {} ELSE heardBefore)

\* Whichever step fails, the command closes what it opened; while it serves,
\* nobody else can connect (lsp/connect/Tcp.cc).
NothingLeftOpen ==
    /\ pc = "idle" => open = {}
    /\ pc = "serve" =>
         open = {"log"} \cup (IF options.mode = "port" THEN {"client"} ELSE {})

Given(words) == \E k \in DOMAIN args : args[k] \in words

\* What the words say: nothing is to be refused, the connection and the log
\* file are those asked for.
Honoured ==
    /\ ~Given({"--help", "-z"})
    /\ Cardinality({k \in DOMAIN args : args[k] \in {"-s", "--stdio", "-p", "--port=80"}}) <= 1
    /\ options.mode = "port" <=> Given({"-p", "--port=80"})
    /\ options.log = "f" <=> Given({"--log=f"})

\* The first lsp command of a process serves as it was told.
FirstCommandHonoured == pc = "serve" /\ count = 1 => Honoured
=============================================================================
