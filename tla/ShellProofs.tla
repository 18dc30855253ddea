----------------------------- MODULE ShellProofs -----------------------------
(***************************************************************************)
(* The program no3, for any lines typed, any arguments, any number of      *)
(* commands, files and interpreters: what the lsp command and `impl parse' *)
(* leave behind, whichever of their steps fails.                           *)
(*                                                                         *)
(* What a command holds open, and who hears the log, is a matter of how    *)
(* far it has come.  Before it serves it has touched nobody's              *)
(* subscription; while it serves on standard output it knows in `resumed'  *)
(* who heard the log before, and these are suspended, all of them.         *)
(*                                                                         *)
(* What the words of a first lsp command say is told by what getopt_long   *)
(* has found after each of them (Told): FoldLeft is unfolded with the      *)
(* lemmas of Recursion, and the invariant FirstInv carries it through the  *)
(* steps of the command.                                                   *)
(*                                                                         *)
(* What a line of a shell is split into is told by what SplitCommand has   *)
(* kept after each of its characters (Kept): the runs that have ended, and *)
(* what there is of the one that has not.                                  *)
(***************************************************************************)
EXTENDS Shell, Recursion, FiniteSetTheorems, SequenceTheorems

Calling == {"socket", "setsockopt", "bind", "listen", "accept", "close"}

(* What the lsp command holds open, by what it does next.                  *)
OpenInv ==
  /\ pc \in {"idle", "parse", "connect", "dead", "log", "start", "serve"} \cup Calling
  /\ pc \in {"idle", "parse", "connect", "dead", "socket"} => open = {}
  /\ pc \in {"setsockopt", "bind", "listen", "accept"} => open = {"listener"}
  /\ pc = "close" => open = {"listener", "client"}
  /\ pc \in Calling => options.mode = "port"
  /\ pc \in {"log", "start", "serve"} =>
       /\ options.mode \in {"stdio", "port"}
       /\ open = (IF options.mode = "port" THEN {"client"} ELSE {})
                   \cup (IF pc = "log" THEN {} ELSE {"log"})

LogInv ==
  /\ suspended \subseteq subscribed
  /\ FileLogger \notin suspended \cup heardBefore
  /\ FileLogger \in subscribed <=> pc = "serve"
  /\ pc \notin {"idle", "serve"} => Hears = heardBefore
  /\ pc = "serve" =>
       IF options.mode = "stdio"
       THEN Hears = {FileLogger} /\ resumed = heardBefore /\ resumed \subseteq suspended
       ELSE Hears = heardBefore \cup {FileLogger}

(* The tree of the last source that is through is in the output.           *)
LastWritten ==
  through > 0 /\ output # StandardOutput =>
    \/ denied
    \/ through > 1 /\ given[through] = output
    \/ content[output] = Tree(before[given[through]])

ParseInv ==
  /\ step \in {"idle", "read", "open", "write", "over"} /\ through \in Nat
  /\ step = "idle" => content = before /\ given = <<>> /\ through = 0
  /\ step # "over" => ~success
  /\ step = "over" /\ success /\ given # <<>> => through = Len(given)
  /\ DOMAIN content \subseteq DOMAIN before \cup {output}
  /\ \A p \in DOMAIN before \ {output} : p \in DOMAIN content /\ content[p] = before[p]
  /\ step # "write" => (through = 0 => content = before) /\ LastWritten
  /\ step \in {"open", "write"} =>
       \/ through > 0 /\ given[through + 1] = output
       \/ tree = before[given[through + 1]]
  /\ step = "write" /\ output # StandardOutput => output \in DOMAIN content

ShellInv == OpenInv /\ LogInv /\ ParseInv

-------------------------------------------------------------------------------
(* The lsp command                                                         *)

LEMMA CommandKeepsOpen ==
  ASSUME OpenInv, Command PROVE OpenInv'
<1> USE DEF OpenInv, Calling, Go, Return
<1>1. CASE Parse
  BY <1>1 DEF Parse
<1>2. CASE ParseCrash
  BY <1>2 DEF ParseCrash
<1>3. CASE ConnectStdio
  BY <1>3 DEF ConnectStdio
<1>4. CASE ConnectPort
  BY <1>4 DEF ConnectPort, TcpCall
<1>5. CASE InvalidPort
  BY <1>5 DEF InvalidPort
<1>6. ASSUME NEW k \in DOMAIN TcpCall, TcpSucceeds(k)
      PROVE  OpenInv'
  <2>1. /\ pc = TcpCall[k] /\ UNCHANGED options
        /\ pc' = IF k < 6 THEN TcpCall[k + 1] ELSE "log"
        /\ open' = IF TcpCall[k] = "close" THEN open \ {"listener"}
                   ELSE open \cup (IF TcpCall[k] = "socket" THEN {"listener"} ELSE {})
                             \cup (IF TcpCall[k] = "accept" THEN {"client"} ELSE {})
    BY <1>6 DEF TcpSucceeds, TcpCall
  <2>2. k = 1 \/ k = 2 \/ k = 3 \/ k = 4 \/ k = 5 \/ k = 6
    BY DEF TcpCall
  <2>3. CASE k = 1
    BY <2>1, <2>3 DEF TcpCall
  <2>4. CASE k = 2
    BY <2>1, <2>4 DEF TcpCall
  <2>5. CASE k = 3
    BY <2>1, <2>5 DEF TcpCall
  <2>6. CASE k = 4
    BY <2>1, <2>6 DEF TcpCall
  <2>7. CASE k = 5
    BY <2>1, <2>7 DEF TcpCall
  <2>8. CASE k = 6
    BY <2>1, <2>8 DEF TcpCall
  <2> QED
    BY <2>2, <2>3, <2>4, <2>5, <2>6, <2>7, <2>8
<1>7. ASSUME NEW k \in DOMAIN TcpCall, TcpFails(k)
      PROVE  OpenInv'
  <2>1. pc = TcpCall[k] /\ pc \in Calling
    BY <1>7 DEF TcpFails, TcpCall
  <2> QED
    BY <1>7, <2>1 DEF TcpFails
<1>8. CASE OpenLog
  BY <1>8 DEF OpenLog
<1>9. CASE OpenLogFails
  BY <1>9 DEF OpenLogFails
<1>10. CASE Start
  BY <1>10 DEF Start
<1>11. CASE ServerReturns
  BY <1>11 DEF ServerReturns
<1> QED
  BY <1>1, <1>2, <1>3, <1>4, <1>5, <1>6, <1>7, <1>8, <1>9, <1>10, <1>11 DEF Command

(* Who hears the log, step by step of the command.                         *)
LEMMA CommandKeepsLog ==
  ASSUME OpenInv, LogInv, Command
  PROVE  LogInv' /\ (pc # "idle" /\ (pc' = "idle" => Hears' = heardBefore))
<1> USE DEF LogInv, Hears
<1>1. CASE Start
  <2>1. pc = "start" /\ pc' = "serve" /\ UNCHANGED <<options, heardBefore>>
        /\ IF options.mode = "stdio" THEN Silence ELSE LogToFile
    BY <1>1 DEF Start, Go
  <2>2. CASE options.mode = "stdio"
    BY <2>1, <2>2 DEF Silence
  <2>3. CASE options.mode # "stdio"
    BY <2>1, <2>3 DEF LogToFile
  <2> QED
    BY <2>2, <2>3
<1>2. CASE ServerReturns
  <2>1. pc = "serve" /\ pc' = "idle" /\ UNCHANGED heardBefore
        /\ IF options.mode = "stdio" THEN Unsilence ELSE StopLogToFile
    BY <1>2 DEF ServerReturns, Return
  <2>2. CASE options.mode = "stdio"
    BY <2>1, <2>2 DEF Unsilence
  <2>3. CASE options.mode # "stdio"
    BY <2>1, <2>3 DEF StopLogToFile
  <2> QED
    BY <2>2, <2>3
<1>3. CASE ~Start /\ ~ServerReturns
  <2>1. UNCHANGED <<subscribed, suspended, heardBefore>> /\ pc \notin {"idle", "serve"} /\ pc' # "serve"
    <3> USE DEF Go, Return, logVars
    <3>1. ASSUME NEW k \in DOMAIN TcpCall, TcpSucceeds(k) \/ TcpFails(k)
          PROVE  /\ UNCHANGED <<subscribed, suspended, heardBefore>>
                 /\ pc \notin {"idle", "serve"} /\ pc' # "serve"
      <4>1. pc = TcpCall[k] /\ UNCHANGED <<logVars, heardBefore>>
            /\ pc' \in {"idle", "log"} \cup (IF k < 6 THEN {TcpCall[k + 1]} ELSE {})
        BY <3>1 DEF TcpSucceeds, TcpFails, TcpCall
      <4>2. \A i \in 1..6 : TcpCall[i] \notin {"idle", "serve"}
        BY DEF TcpCall
      <4>3. k \in 1..6 /\ (k < 6 => k + 1 \in 1..6)
        BY DEF TcpCall
      <4> QED
        BY <4>1, <4>2, <4>3
    <3>2. CASE Parse \/ ParseCrash
      BY <3>2 DEF Parse, ParseCrash
    <3>3. CASE ConnectStdio \/ ConnectPort \/ InvalidPort
      BY <3>3 DEF ConnectStdio, ConnectPort, InvalidPort, TcpCall
    <3>4. CASE OpenLog \/ OpenLogFails
      BY <3>4 DEF OpenLog, OpenLogFails
    <3> QED
      BY <1>3, <3>1, <3>2, <3>3, <3>4 DEF Command
  <2> QED
    BY <2>1
<1> QED
  BY <1>1, <1>2, <1>3

(* What a program does with its interpreters and its own subscribers       *)
(* while no command runs.                                                  *)
LEMMA ElsewhereKeeps ==
  ASSUME OpenInv, LogInv, Elsewhere
  PROVE  OpenInv' /\ LogInv' /\ UNCHANGED cmdVars
<1>1. pc = "idle" /\ UNCHANGED cmdVars
  BY DEF Elsewhere
<1>2. OpenInv'
  BY <1>1 DEF OpenInv, cmdVars, Calling
<1>3. /\ suspended \subseteq subscribed
      /\ FileLogger \notin suspended \cup heardBefore /\ FileLogger \notin subscribed
      /\ pc' = "idle" /\ heardBefore' = heardBefore
  BY <1>1 DEF LogInv, cmdVars
<1>4. suspended' \subseteq subscribed' /\ FileLogger \notin subscribed'
  <2>1. \A s \in Host \cup Interpreter : s # FileLogger
    BY SubscriberAssumption
  <2>2. CASE HostStep
    BY <1>3, <2>1, <2>2 DEF HostStep
  <2>3. ASSUME NEW i \in Interpreter, Construct(i) \/ Destruct(i) \/ MoveAssign(i)
        PROVE  suspended' \subseteq subscribed' /\ FileLogger \notin subscribed'
    BY <1>3, <2>1, <2>3 DEF Construct, Destruct, MoveAssign
  <2> QED
    BY <2>2, <2>3 DEF Elsewhere
<1>5. LogInv'
  BY <1>3, <1>4 DEF LogInv
<1> QED
  BY <1>1, <1>2, <1>5

LEMMA CallKeeps ==
  ASSUME OpenInv, LogInv, NEW a, Call(a)
  PROVE  OpenInv' /\ LogInv'
<1>1. /\ pc = "idle" /\ pc' = "parse" /\ heardBefore' = Hears
      /\ UNCHANGED <<subscribed, suspended, open, options>>
  BY DEF Call, Go, logVars
<1>2. OpenInv'
  BY <1>1 DEF OpenInv, Calling
<1>3. LogInv'
  BY <1>1 DEF LogInv, Hears
<1> QED
  BY <1>2, <1>3

LEMMA OthersKeep ==
  ASSUME OpenInv, LogInv, UNCHANGED <<logVars, pc, open, options, heardBefore>>
  PROVE  OpenInv' /\ LogInv'
BY DEF OpenInv, Calling, LogInv, Hears, logVars

-------------------------------------------------------------------------------
(* `impl parse'                                                            *)

LEMMA AnsweredKeeps ==
  ASSUME ParseInv, NEW r \in BOOLEAN, Answered(r), step # "write",
         ~r \/ given = <<>>
  PROVE  ParseInv'
BY DEF ParseInv, Answered, Over, LastWritten, Tree

LEMMA CommandKeepsFiles ==
  ASSUME ParseInv, NEW ws, CommandImplParse(ws)
  PROVE  ParseInv'
<1>1. CASE Answered(FALSE) \/ Answered(TRUE)
  BY <1>1, AnsweredKeeps DEF CommandImplParse, ParseInv
<1>2. CASE StartParsing(ws)
  BY <1>2 DEF CommandImplParse, StartParsing, ParseInv, LastWritten
<1> QED
  BY <1>1, <1>2 DEF CommandImplParse

LEMMA ParsingKeepsFiles == ASSUME ParseInv, ParseStep PROVE ParseInv'
<1> USE DEF ParseInv
<1>1. CASE ReadSourceFails \/ OpenOutputFails
  BY <1>1, AnsweredKeeps DEF ReadSourceFails, OpenOutputFails
<1>2. CASE ReadSource
  <2>1. /\ step = "read" /\ step' = "open" /\ tree' = content[given[through + 1]]
        /\ given[through + 1] \in DOMAIN content
        /\ UNCHANGED <<content, before, given, output, format, through, denied, success>>
    BY <1>2 DEF ReadSource
  <2>2. LastWritten'
    BY <2>1 DEF LastWritten, Tree
  <2>3. \/ through > 0 /\ given[through + 1] = output
        \/ tree' = before[given[through + 1]]
    <3>1. CASE through = 0
      BY <2>1, <3>1
    <3>2. CASE through > 0
      BY <2>1, <3>2
    <3> QED
      BY <3>1, <3>2
  <2> QED
    BY <2>1, <2>2, <2>3
<1>3. CASE OpenOutput
  <2>1. /\ step = "open" /\ step' = "write" /\ content' = Truncated
        /\ UNCHANGED <<before, given, output, format, through, tree, denied, success>>
    BY <1>3 DEF OpenOutput
  <2>2. CASE output = StandardOutput
    BY <2>1, <2>2 DEF Truncated
  <2>3. CASE output # StandardOutput
    BY <2>1, <2>3 DEF Truncated
  <2> QED
    BY <2>2, <2>3
<1>4. CASE WriteTree
  <2>1. /\ step = "write" /\ through' = through + 1 /\ through' \in Nat /\ through' # 0
        /\ UNCHANGED <<before, given, output, format, tree>>
        /\ \/ step' = "over" /\ success' /\ through' = Len(given)
           \/ step' = "read" /\ success' = success
    BY <1>4 DEF WriteTree, Over
  <2>2. /\ DOMAIN content' = DOMAIN content
        /\ \A p \in DOMAIN content \ {output} : content'[p] = content[p]
    BY <1>4 DEF WriteTree
  <2>3. output # StandardOutput => denied' \/ content'[output] = Tree(tree)
    BY <1>4 DEF WriteTree
  <2>4. LastWritten'
    <3>1. ASSUME output # StandardOutput, ~denied', ~(through' > 1 /\ given[through'] = output)
          PROVE  content'[output] = <<"tree", format, before[given[through']]>>
      <4>1. content'[output] = Tree(tree)
        BY <2>3, <3>1
      <4>2. tree = before[given[through + 1]]
        BY <2>1, <3>1
      <4> QED
        BY <2>1, <4>1, <4>2 DEF Tree
    <3>2. LastWritten' <=>
            (through' > 0 /\ output # StandardOutput =>
               \/ denied'
               \/ through' > 1 /\ given[through'] = output
               \/ content'[output] = <<"tree", format, before[given[through']]>>)
      BY <2>1 DEF LastWritten, Tree
    <3> QED
      BY <3>1, <3>2
  <2> QED
    BY <2>1, <2>2, <2>4
<1> QED
  BY <1>1, <1>2, <1>3, <1>4 DEF ParseStep

LEMMA ReturningForgetsFiles == ASSUME ParseReturns PROVE ParseInv'
BY DEF ParseReturns, ParseInv, LastWritten

-------------------------------------------------------------------------------
LEMMA InitShellInv == ShellInit => ShellInv
<1> SUFFICES ASSUME ShellInit PROVE ShellInv
  OBVIOUS
<1>1. OpenInv
  BY DEF ShellInit, Init, OpenInv, Calling
<1>2. LogInv
  BY DEF ShellInit, Init, LogInit, LogInv
<1>3. ParseInv
  BY DEF ShellInit, ParseInit, ParseInv, LastWritten
<1> QED
  BY <1>1, <1>2, <1>3 DEF ShellInv

LEMMA StepShellInv ==
  ASSUME ShellInv, [ShellNext]_allVars
  PROVE  ShellInv' /\ (pc # "idle" /\ pc' = "idle" => Hears' = heardBefore)
<1> USE DEF ShellInv
<1>1. ASSUME UNCHANGED <<logVars, pc, open, options, heardBefore>>
      PROVE  OpenInv' /\ LogInv' /\ pc' = pc
  BY <1>1, OthersKeep
<1>2. ASSUME UNCHANGED parseVars
      PROVE  ParseInv'
  BY <1>2 DEF parseVars, ParseInv, LastWritten, Tree
<1>3. CASE EnterLine \/ RunOnce \/ LeaveShell \/ Perform
  <2>1. UNCHANGED <<logVars, pc, open, options, heardBefore>> /\ UNCHANGED parseVars
    BY <1>3 DEF EnterLine, RunOnce, LeaveShell, Perform, vars, cmdVars
  <2> QED
    BY <1>1, <1>2, <2>1
<1>4. CASE PerformLsp
  <2>1. Call(argv) /\ UNCHANGED parseVars
    BY <1>4 DEF PerformLsp
  <2>2. pc = "idle"
    BY <2>1 DEF Call, Go
  <2> QED
    BY <1>2, <2>1, <2>2, CallKeeps
<1>5. CASE LspStep
  BY <1>2, <1>5, CommandKeepsOpen, CommandKeepsLog DEF LspStep
<1>6. CASE PerformParse
  <2>1. CommandImplParse(Tail(argv)) /\ UNCHANGED vars
    BY <1>6 DEF PerformParse
  <2>2. UNCHANGED <<logVars, pc, open, options, heardBefore>>
    BY <2>1 DEF vars, cmdVars
  <2> QED
    BY <1>1, <2>1, <2>2, CommandKeepsFiles
<1>7. CASE ParsingStep
  <2>1. UNCHANGED <<logVars, pc, open, options, heardBefore>>
    BY <1>7 DEF ParsingStep, vars, cmdVars
  <2> QED
    BY <1>1, <1>7, <2>1, ParsingKeepsFiles DEF ParsingStep
<1>8. CASE ParseOver
  BY <1>1, <1>8, ReturningForgetsFiles DEF ParseOver
<1>9. CASE Embedding
  <2>1. pc' = "idle" /\ pc = "idle"
    BY <1>9 DEF Embedding, Elsewhere, cmdVars
  <2> QED
    BY <1>2, <1>9, <2>1, ElsewhereKeeps DEF Embedding
<1>10. CASE UNCHANGED allVars
  BY <1>1, <1>2, <1>10 DEF allVars, vars, cmdVars
<1> QED
  BY <1>3, <1>4, <1>5, <1>6, <1>7, <1>8, <1>9, <1>10 DEF ShellNext

(* The inductive invariant holds for ever.                                 *)
THEOREM ShellInvariance == ShellSpec => []ShellInv
<1>1. ShellInv /\ [ShellNext]_allVars => ShellInv'
  BY StepShellInv
<1> QED
  BY <1>1, InitShellInv, PTL DEF ShellSpec

(* OpenConnection and StartServer: whichever call fails, the lsp command   *)
(* closes what it opened, and while it serves nobody else can connect.     *)
THEOREM CommandsCloseWhatTheyOpened == ShellSpec => []NothingLeftOpen
<1>1. ShellInv => NothingLeftOpen
  BY DEF ShellInv, OpenInv, NothingLeftOpen
<1> QED
  BY <1>1, ShellInvariance, PTL

(* StartServer: nothing but the log file hears the log while the command   *)
(* serves on standard output, whoever subscribed or was suspended before.  *)
THEOREM StdoutIsTheClients == ShellSpec => []OnlyLogFileOnStdout
<1>1. ShellInv => OnlyLogFileOnStdout
  BY DEF ShellInv, LogInv, OnlyLogFileOnStdout
<1> QED
  BY <1>1, ShellInvariance, PTL

(* StartServer, back from Server::Start or never there: who heard the log  *)
(* when the command began hears it when it ends.                           *)
THEOREM LogIsLeftAsFound == ShellSpec => LogLeftAsFound
<1>1. ShellInv /\ [ShellNext]_allVars => [pc # "idle" /\ pc' = "idle" => Hears' = heardBefore]_vars
  BY StepShellInv
<1> QED
  BY <1>1, ShellInvariance, PTL DEF ShellSpec, LogLeftAsFound

(* ParseFile, for any sources in any order and any output, one of them     *)
(* perhaps: no other file changes, and the output holds the whole tree of  *)
(* the last source that is through.                                        *)
THEOREM OutputsAreWhole == ShellSpec => []OutputIsWhole
<1>1. ShellInv => OutputIsWhole
  BY DEF ShellInv, ParseInv, LastWritten, OutputIsWhole
<1> QED
  BY <1>1, ShellInvariance, PTL

-------------------------------------------------------------------------------
(* What the first lsp command of a process makes of its words: the words   *)
(* first, then the steps of the shell.                                     *)

(* What getopt_long has found in words out of W.                           *)
Found(W) == [help : BOOLEAN, stdio : Nat, port : Nat, mode : {"stdio", "port"}, connect : W,
            log : {"", "f"}, bad : BOOLEAN, words : Nat, awaits : BOOLEAN, short : BOOLEAN]

Same(o, t) == t.help = o.help /\ t.log = o.log /\ t.stdio = o.stdio

(* Take, of the argument w of -p.                                          *)
Ported(o, w, t) ==
  /\ Same(o, t) /\ ~t.awaits /\ t.mode = "port" /\ t.connect = w /\ t.port = o.port + 1
  /\ t.bad = (o.bad \/ o.port > 0)

LEMMA WithPortIs ==
  ASSUME NEW W, NEW o \in Found(W), NEW w \in W
  PROVE  WithPort(o, w) \in Found(W) /\ Ported(o, w, WithPort(o, w))
<1> DEFINE b == o.bad \/ o.port > 0
           p == o.port + 1
           t == WithPort(o, w)
<1>1. t = [o EXCEPT !.awaits = FALSE, !.short = FALSE, !.mode = "port", !.connect = w,
              !.port = p, !.bad = b]
  BY DEF WithPort
<1>a. o.port \in Nat /\ o.bad \in BOOLEAN
  BY DEF Found
<1>b. p \in Nat
  BY <1>a
<1>c. b \in BOOLEAN
  BY Zenon
<1>2. b \in BOOLEAN /\ p \in Nat
  BY <1>b, <1>c
<1> HIDE DEF b, p, t
<1>3. t = [help |-> o.help, stdio |-> o.stdio, port |-> p, mode |-> "port", connect |-> w,
          log |-> o.log, bad |-> b, words |-> o.words, awaits |-> FALSE, short |-> FALSE]
  BY <1>1 DEF Found
<1>4. t \in Found(W)
  BY <1>2, <1>3 DEF Found
<1>5. Same(o, t) /\ ~t.awaits /\ t.mode = "port" /\ t.connect = w /\ t.port = p /\ t.bad = b
  BY <1>3 DEF Same
<1> QED
  BY <1>4, <1>5 DEF Ported, t, b, p

Stdios == {"-s", "--stdio"}

(* Take, of any word w, as far as it matters here.                         *)
Took(o, w, t) ==
  IF o.awaits THEN Ported(o, w, t)
  ELSE IF w = "--port=80" THEN Ported(o, "80", t)
  ELSE /\ t.port = o.port /\ t.connect = o.connect
       /\ t.stdio = o.stdio + (IF w \in Stdios THEN 1 ELSE 0)
       /\ t.mode = IF w \in Stdios THEN "stdio" ELSE o.mode
       /\ (t.awaits <=> w = "-p")
       /\ (t.help <=> o.help \/ w = "--help")
       /\ t.log = IF w = "--log=f" THEN "f" ELSE o.log
       /\ w = "-z" \/ o.bad => t.bad

LEMMA TakeIs ==
  ASSUME NEW W, "80" \in W, NEW o \in Found(W), NEW w \in W
  PROVE  Take(o, w) \in Found(W) /\ Took(o, w, Take(o, w))
<1> DEFINE t == Take(o, w)
<1>0. /\ o.help \in BOOLEAN /\ o.bad \in BOOLEAN /\ o.awaits \in BOOLEAN /\ o.short \in BOOLEAN
      /\ o.stdio \in Nat /\ o.port \in Nat /\ o.words \in Nat
  BY DEF Found
<1>1. CASE o.awaits
  <2>1. t = WithPort(o, w)
    BY <1>1 DEF Take
  <2> QED
    BY <1>1, <2>1, WithPortIs DEF Took
<1>2. CASE ~o.awaits /\ w = "--port=80"
  <2>1. t = WithPort(o, "80")
    BY <1>2 DEF Take
  <2>2. WithPort(o, "80") \in Found(W) /\ Ported(o, "80", WithPort(o, "80"))
    BY WithPortIs
  <2> HIDE DEF t
  <2> QED
    BY <1>2, <2>1, <2>2 DEF Took, t
<1>3. CASE ~o.awaits /\ w = "-p"
  <2>1. t = [o EXCEPT !.awaits = TRUE, !.short = FALSE]
    BY <1>3 DEF Take
  <2> HIDE DEF t
  <2>3. t \in Found(W)
    BY <2>1 DEF Found
  <2>4. /\ t.port = o.port /\ t.connect = o.connect /\ t.stdio = o.stdio /\ t.mode = o.mode
        /\ t.awaits = TRUE /\ t.help = o.help /\ t.log = o.log /\ t.bad = o.bad
    BY <2>1 DEF Found
  <2> QED
    BY <1>0, <1>3, <2>3, <2>4 DEF Took, Stdios, t
<1>4. CASE ~o.awaits /\ w \in Stdios
  <2> DEFINE b == o.bad \/ o.stdio > 0
             n == o.stdio + 1
             s == w = "-s"
  <2>1. t = [o EXCEPT !.stdio = n, !.mode = "stdio", !.short = s, !.bad = b]
    BY <1>4 DEF Take, Stdios
  <2>2. b \in BOOLEAN /\ n \in Nat /\ s \in BOOLEAN /\ (o.bad => b)
    BY <1>0
  <2> HIDE DEF b, n, s, t
  <2>3. t \in Found(W)
    BY <2>1, <2>2 DEF Found
  <2>4. /\ t.port = o.port /\ t.connect = o.connect /\ t.stdio = n /\ t.mode = "stdio"
        /\ t.awaits = o.awaits /\ t.help = o.help /\ t.log = o.log /\ t.bad = b
    BY <2>1 DEF Found
  <2> QED
    BY <1>0, <1>4, <2>2, <2>3, <2>4 DEF Took, Stdios, t, n
<1>5. CASE ~o.awaits /\ w = "--log=f"
  <2> DEFINE b == o.bad \/ o.log # ""
  <2>1. t = [o EXCEPT !.log = "f", !.short = FALSE, !.bad = b]
    BY <1>5 DEF Take, Stdios
  <2>2. b \in BOOLEAN /\ (o.bad => b)
    BY <1>0
  <2> HIDE DEF b, t
  <2>3. t \in Found(W)
    BY <2>1, <2>2 DEF Found
  <2>4. /\ t.port = o.port /\ t.connect = o.connect /\ t.stdio = o.stdio /\ t.mode = o.mode
        /\ t.awaits = o.awaits /\ t.help = o.help /\ t.log = "f" /\ t.bad = b
    BY <2>1 DEF Found
  <2> QED
    BY <1>0, <1>5, <2>2, <2>3, <2>4 DEF Took, Stdios, t
<1>6. CASE ~o.awaits /\ w = "--help"
  <2>1. t = [o EXCEPT !.help = TRUE, !.short = FALSE]
    BY <1>6 DEF Take, Stdios
  <2> HIDE DEF t
  <2>3. t \in Found(W)
    BY <2>1 DEF Found
  <2>4. /\ t.port = o.port /\ t.connect = o.connect /\ t.stdio = o.stdio /\ t.mode = o.mode
        /\ t.awaits = o.awaits /\ t.help = TRUE /\ t.log = o.log /\ t.bad = o.bad
    BY <2>1 DEF Found
  <2> QED
    BY <1>0, <1>6, <2>3, <2>4 DEF Took, Stdios, t
<1>7. CASE ~o.awaits /\ w = "-z"
  <2>1. t = [o EXCEPT !.bad = TRUE, !.short = TRUE]
    BY <1>7 DEF Take, Stdios
  <2> HIDE DEF t
  <2>3. t \in Found(W)
    BY <2>1 DEF Found
  <2>4. /\ t.port = o.port /\ t.connect = o.connect /\ t.stdio = o.stdio /\ t.mode = o.mode
        /\ t.awaits = o.awaits /\ t.help = o.help /\ t.log = o.log /\ t.bad = TRUE
    BY <2>1 DEF Found
  <2> QED
    BY <1>0, <1>7, <2>3, <2>4 DEF Took, Stdios, t
<1>8. CASE ~o.awaits /\ w \notin {"-p", "--port=80", "--log=f", "--help", "-z"} \cup Stdios
  <2> DEFINE n == o.words + 1
  <2>1. t = [o EXCEPT !.words = n]
    BY <1>8 DEF Take, Stdios
  <2>2. n \in Nat
    BY <1>0
  <2> HIDE DEF n, t
  <2>3. t \in Found(W)
    BY <2>1, <2>2 DEF Found
  <2>4. /\ t.port = o.port /\ t.connect = o.connect /\ t.stdio = o.stdio /\ t.mode = o.mode
        /\ t.awaits = o.awaits /\ t.help = o.help /\ t.log = o.log /\ t.bad = o.bad
    BY <2>1 DEF Found
  <2> QED
    BY <1>0, <1>8, <2>2, <2>3, <2>4 DEF Took, Stdios, t
<1> QED
  BY <1>1, <1>2, <1>3, <1>4, <1>5, <1>6, <1>7, <1>8

(* What a word may be for the prover, which knows of no literal that it is *)
(* a STRING.                                                               *)
Strings == STRING \cup {"", "80", " ", "?"}

(* What FoldLeft chooses for Take.                                         *)
IsFold(ws, o, f) ==
  f = [s \in SUBSET (DOMAIN ws) |-> IF s = {} THEN o ELSE Take(f[s \ {Max(s)}], ws[Max(s)])]

(* What getopt_long has found, word after word.                            *)
InTurn(ws, o, g) ==
  /\ g \in [0..Len(ws) -> Found(Strings)] /\ g[0] = o
  /\ \A k \in 1..Len(ws) : g[k] = Take(g[k - 1], ws[k])
  /\ FoldLeft(Take, o, ws) = g[Len(ws)]

LEMMA TakesInTurn ==
  ASSUME NEW ws \in Seq(Strings), NEW o \in Found(Strings)
  PROVE  \E g : InTurn(ws, o, g)
<1> DEFINE n == Len(ws)
           V == Found(Strings)
           G == [p \in V \X (1..n) |-> Take(p[1], ws[p[2]])]
           f == CHOOSE h : IsFold(ws, o, h)
           g == [k \in 0..n |-> f[1..k]]
<1>1. n \in Nat /\ DOMAIN ws = 1..n /\ \A k \in 1..n : ws[k] \in Strings
  OBVIOUS
<1>2. ASSUME NEW v \in V, NEW w \in Strings PROVE Take(v, w) \in V
  <2>1. "80" \in Strings
    BY DEF Strings
  <2> QED
    BY <2>1, TakeIs
<1> HIDE DEF n, V
<1>3. G \in [V \X (1..n) -> V] /\ \A v \in V : \A k \in 1..n : G[<<v, k>>] = Take(v, ws[k])
  BY <1>1, <1>2
<1>4. o \in V
  BY DEF V
<1> HIDE DEF G
<1>5. PICK c : Folds(n, V, o, G, c)
  <2>1. n \in Nat
    BY <1>1
  <2>2. G \in [V \X (1..n) -> V]
    BY <1>3
  <2> QED
    BY <1>4, <2>1, <2>2, FoldExists
<1>6. IsFold(ws, o, c)
  <2>1. \A s \in SUBSET (1..n) : c[s] = IF s = {} THEN o ELSE Take(c[s \ {Max(s)}], ws[Max(s)])
    <3> SUFFICES ASSUME NEW s \in SUBSET (1..n), s # {}
                 PROVE  c[s] = Take(c[s \ {Max(s)}], ws[Max(s)])
      BY <1>5 DEF Folds
    <3> DEFINE x == Max(s)
               r == s \ {x}
    <3>1. x \in 1..n /\ c[s] = G[<<c[r], x>>]
      BY <1>5 DEF Folds
    <3>2. r \in SUBSET (1..n)
      OBVIOUS
    <3> HIDE DEF x, r
    <3>3. c[r] \in V
      BY <1>5, <3>2 DEF Folds
    <3>4. c[s] = Take(c[r], ws[x])
      BY <1>3, <3>1, <3>3
    <3> QED
      BY <3>4 DEF x, r
  <2> QED
    BY <1>1, <1>5, <2>1 DEF IsFold, Folds
<1>7. IsFold(ws, o, f)
  BY <1>6
<1>8. FoldLeft(Take, o, ws) = f[1..n]
  BY <1>1 DEF FoldLeft, MapThenFoldSet, IsFold
<1> HIDE DEF f
<1>9. FoldsWith(f, n, V, o, G)
  <2>1. ASSUME NEW s \in SUBSET (1..n), s # {}, f[s \ {Max(s)}] \in V
        PROVE  f[s] = G[<<f[s \ {Max(s)}], Max(s)>>]
    <3>1. f[s] = Take(f[s \ {Max(s)}], ws[Max(s)])
      BY <1>1, <1>7, <2>1 DEF IsFold
    <3>2. Max(s) \in 1..n
      BY <1>5, <2>1 DEF Folds
    <3> QED
      BY <1>3, <2>1, <3>1, <3>2
  <2>2. f[{}] = o
    BY <1>1, <1>7 DEF IsFold
  <2> QED
    BY <2>1, <2>2 DEF FoldsWith
<1>10. /\ f[1..0] = o
       /\ \A k \in 0..n : f[1..k] \in V
       /\ \A k \in 1..n : f[1..k] = G[<<f[1..(k - 1)], k>>]
  <2>1. n \in Nat
    BY <1>1
  <2>2. G \in [V \X (1..n) -> V]
    BY <1>3
  <2>3. FoldedInTurn(f, n, V, o, G)
    BY <1>4, <1>9, <2>1, <2>2, FoldsInTurn
  <2> QED
    BY <2>3 DEF FoldedInTurn
<1>11. \A k \in 1..n : f[1..k] = Take(f[1..(k - 1)], ws[k])
  <2> SUFFICES ASSUME NEW k \in 1..n PROVE f[1..k] = Take(f[1..(k - 1)], ws[k])
    OBVIOUS
  <2> DEFINE j == k - 1
  <2>1. j \in 0..n
    BY <1>1
  <2> HIDE DEF j
  <2>2. f[1..j] \in V
    BY <1>10, <2>1
  <2> QED
    BY <1>3, <1>10, <2>2 DEF j
<1>12. \A k \in 0..n : g[k] = f[1..k]
  OBVIOUS
<1>13. 0 \in 0..n /\ n \in 0..n /\ \A k \in 1..n : k \in 0..n /\ k - 1 \in 0..n
  BY <1>1
<1>14. g \in [0..n -> V]
  BY <1>10
<1> HIDE DEF g
<1>15. g[0] = o /\ FoldLeft(Take, o, ws) = g[n]
  BY <1>8, <1>10, <1>12, <1>13
<1>16. \A k \in 1..n : g[k] = Take(g[k - 1], ws[k])
  BY <1>11, <1>12, <1>13
<1> QED
  BY <1>14, <1>15, <1>16 DEF InTurn, n, V

(* The words that say how to connect, and those that say it is a port.     *)
Ways == {"-s", "--stdio", "-p", "--port=80"}

Ports == {"-p", "--port=80"}

Some(ws, k, M) == \E i \in 1..k : ws[i] \in M

Once(ws, k, M) == \A i, j \in 1..k : ws[i] \in M /\ ws[j] \in M => i = j

(* How many ways to connect have been asked for.                           *)
Asked(o) == o.stdio + o.port + (IF o.awaits THEN 1 ELSE 0)

(* Nothing to refuse so far, and no port but the one that connects.        *)
Sound(o) == ~o.bad /\ (o.port = 0 \/ o.connect = "80")

(* The last word decides the mode: a port without --stdio is a port.       *)
Moded(o) == o.port >= 1 /\ o.stdio = 0 => o.mode = "port"

(* What has been found in the first k words tells which words these are.   *)
(* It is told only while there is nothing to refuse: a word that is        *)
(* refused stays refused.                                                  *)
Told(ws, k, o) ==
  Sound(o) =>
    /\ ~o.help => ~Some(ws, k, {"--help"})
    /\ ~Some(ws, k, {"-z"})
    /\ Asked(o) = 0 => ~Some(ws, k, Ways)
    /\ Asked(o) <= 1 => Once(ws, k, Ways)
    /\ Some(ws, k, Ports) <=> o.port >= 1 \/ o.awaits
    /\ o.mode = "port" => o.port >= 1
    /\ o.log = "f" <=> Some(ws, k, {"--log=f"})

(* One word more.                                                          *)
LEMMA SomeGrows ==
  ASSUME NEW ws, NEW k \in Nat \ {0}
  PROVE  \A M : /\ Some(ws, k, M) <=> Some(ws, k - 1, M) \/ ws[k] \in M
                /\ ws[k] \notin M => (Once(ws, k, M) <=> Once(ws, k - 1, M))
                /\ ~Some(ws, k - 1, M) => Once(ws, k, M)
<1>1. 1..k = (1..(k - 1)) \cup {k}
  OBVIOUS
<1>2. \A M : Some(ws, k, M) <=> Some(ws, k - 1, M) \/ ws[k] \in M
  BY <1>1 DEF Some
<1>3. ASSUME NEW M, ws[k] \notin M PROVE Once(ws, k, M) <=> Once(ws, k - 1, M)
  BY <1>1, <1>3 DEF Once
<1>4. ASSUME NEW M, ~Some(ws, k - 1, M) PROVE Once(ws, k, M)
  BY <1>1, <1>4 DEF Once, Some
<1> QED
  BY <1>2, <1>3, <1>4

LEMMA TookModes ==
  ASSUME NEW o \in Found(Strings), NEW t \in Found(Strings), NEW w, Took(o, w, t), Moded(o)
  PROVE  Moded(t)
<1>1. o.stdio \in Nat /\ o.port \in Nat
  BY DEF Found
<1>2. CASE o.awaits
  BY <1>2 DEF Took, Ported, Moded
<1>3. CASE ~o.awaits /\ w = "--port=80"
  BY <1>3 DEF Took, Ported, Moded
<1>4. CASE ~o.awaits /\ w # "--port=80"
  BY <1>1, <1>4 DEF Took, Moded
<1> QED
  BY <1>2, <1>3, <1>4

(* Take keeps the books.                                                   *)
LEMMA TookTells ==
  ASSUME NEW ws, NEW k \in Nat \ {0}, NEW o \in Found(Strings), NEW t \in Found(Strings),
         Took(o, ws[k], t), Told(ws, k - 1, o)
  PROVE  Told(ws, k, t)
<1> DEFINE w == ws[k]
<1> SUFFICES ASSUME Sound(t) PROVE Told(ws, k, t)
  BY DEF Told
<1>0. /\ o.help \in BOOLEAN /\ o.bad \in BOOLEAN /\ o.awaits \in BOOLEAN
      /\ o.stdio \in Nat /\ o.port \in Nat
      /\ t.help \in BOOLEAN /\ t.bad \in BOOLEAN /\ t.awaits \in BOOLEAN
      /\ t.stdio \in Nat /\ t.port \in Nat
  BY DEF Found
<1>1. \A M : /\ Some(ws, k, M) <=> Some(ws, k - 1, M) \/ w \in M
             /\ w \notin M => (Once(ws, k, M) <=> Once(ws, k - 1, M))
             /\ ~Some(ws, k - 1, M) => Once(ws, k, M)
  BY SomeGrows
<1> DEFINE j == k - 1
<1>2. CASE o.awaits
  <2>1. Ported(o, w, t)
    BY <1>2 DEF Took
  <2>a. t.connect = w /\ t.port = o.port + 1 /\ (o.bad \/ o.port > 0 => t.bad)
    BY <1>0, <2>1 DEF Ported
  <2>b. ~t.bad /\ (t.port = 0 \/ t.connect = "80")
    BY DEF Sound
  <2>c. w = "80" /\ o.port = 0
    BY <1>0, <2>a, <2>b
  <2>d. ~o.bad
    BY <2>a, <2>b
  <2>2. w = "80" /\ o.port = 0 /\ Sound(o)
    BY <2>c, <2>d DEF Sound
  <2>3. w \notin {"--help", "-z", "--log=f"} \cup Ways
    BY <2>2 DEF Ways
  <2>4. /\ \A M \in {{"--help"}, {"-z"}, {"--log=f"}, Ways, Ports} : Some(ws, k, M) <=> Some(ws, k - 1, M)
        /\ Once(ws, k, Ways) <=> Once(ws, k - 1, Ways)
    BY <1>1, <2>3 DEF Ways, Ports
  <2>5. /\ t.help = o.help /\ t.log = o.log /\ t.stdio = o.stdio /\ ~t.awaits
        /\ t.mode = "port" /\ t.port = 1
    BY <2>1, <2>2 DEF Ported, Same
  <2>6. Asked(t) = Asked(o)
    BY <1>0, <1>2, <2>2, <2>5 DEF Asked
  <2>7. /\ ~o.help => ~Some(ws, k - 1, {"--help"})
        /\ ~Some(ws, k - 1, {"-z"})
        /\ Asked(o) = 0 => ~Some(ws, k - 1, Ways)
        /\ Asked(o) <= 1 => Once(ws, k - 1, Ways)
        /\ Some(ws, k - 1, Ports)
        /\ o.log = "f" <=> Some(ws, k - 1, {"--log=f"})
    BY <1>2, <2>2 DEF Told
  <2> QED
    BY <2>4, <2>5, <2>6, <2>7 DEF Told
<1>3. CASE ~o.awaits /\ w = "--port=80"
  <2>1. Ported(o, "80", t)
    BY <1>3 DEF Took
  <2>a. t.connect = "80" /\ t.port = o.port + 1 /\ (o.bad \/ o.port > 0 => t.bad)
    BY <1>0, <2>1 DEF Ported
  <2>b. ~t.bad
    BY DEF Sound
  <2>c. o.port = 0
    BY <1>0, <2>a, <2>b
  <2>d. ~o.bad
    BY <2>a, <2>b
  <2>2. o.port = 0 /\ Sound(o)
    BY <2>c, <2>d DEF Sound
  <2>4. /\ \A M \in {{"--help"}, {"-z"}, {"--log=f"}} : Some(ws, k, M) <=> Some(ws, k - 1, M)
        /\ Some(ws, k, Ways) /\ Some(ws, k, Ports)
        /\ ~Some(ws, k - 1, Ways) => Once(ws, k, Ways)
    BY <1>1, <1>3 DEF Ways, Ports
  <2>5. /\ t.help = o.help /\ t.log = o.log /\ t.stdio = o.stdio /\ ~t.awaits
        /\ t.mode = "port" /\ t.port = 1
    BY <2>1, <2>2 DEF Ported, Same
  <2>6. Asked(t) = Asked(o) + 1 /\ Asked(o) \in Nat
    BY <1>0, <1>3, <2>2, <2>5 DEF Asked
  <2>7. /\ ~o.help => ~Some(ws, k - 1, {"--help"})
        /\ ~Some(ws, k - 1, {"-z"})
        /\ Asked(o) = 0 => ~Some(ws, k - 1, Ways)
        /\ o.log = "f" <=> Some(ws, k - 1, {"--log=f"})
    BY <2>2 DEF Told
  <2>8. /\ Asked(t) # 0
        /\ Asked(t) <= 1 => Asked(o) = 0
    BY <2>6
  <2> QED
    BY <2>4, <2>5, <2>7, <2>8 DEF Told
<1>4. CASE ~o.awaits /\ w # "--port=80"
  <2>1. /\ t.port = o.port /\ t.connect = o.connect
        /\ t.stdio = o.stdio + (IF w \in Stdios THEN 1 ELSE 0)
        /\ t.mode = IF w \in Stdios THEN "stdio" ELSE o.mode
        /\ (t.awaits <=> w = "-p")
        /\ (t.help <=> o.help \/ w = "--help")
        /\ t.log = IF w = "--log=f" THEN "f" ELSE o.log
        /\ w = "-z" \/ o.bad => t.bad
    BY <1>4 DEF Took
  <2>2. Sound(o) /\ w # "-z"
    BY <1>0, <2>1 DEF Sound
  <2> QED
    BY <1>0, <1>1, <1>4, <2>1, <2>2 DEF Told, Asked, Ways, Ports, Stdios
<1> QED
  BY <1>2, <1>3, <1>4

(* What the options of a parser that refuses nothing say of its words.     *)
Said(ws, o) ==
  /\ ~Some(ws, Len(ws), {"--help"}) /\ ~Some(ws, Len(ws), {"-z"})
  /\ Once(ws, Len(ws), Ways)
  /\ o.mode = "port" <=> Some(ws, Len(ws), Ports)
  /\ o.log = "f" <=> Some(ws, Len(ws), {"--log=f"})

LEMMA BaseIs ==
  ASSUME NEW d \in BOOLEAN, NEW ws
  PROVE  LET o == [NoOptions EXCEPT !.short = d]
         IN  o \in Found(Strings) /\ Told(ws, 0, o) /\ Moded(o)
<1> DEFINE o == [NoOptions EXCEPT !.short = d]
<1>a. NoOptions \in Found(Strings)
  BY DEF Found, Strings, NoOptions
<1>b. /\ NoOptions.help = FALSE /\ NoOptions.stdio = 0 /\ NoOptions.port = 0
      /\ NoOptions.mode = "stdio" /\ NoOptions.log = "" /\ NoOptions.awaits = FALSE
  BY DEF NoOptions
<1>1. o = [NoOptions EXCEPT !.short = d]
  OBVIOUS
<1> HIDE DEF o
<1>2. o \in Found(Strings)
  BY <1>a, <1>1 DEF Found
<1>3. /\ o.help = FALSE /\ o.stdio = 0 /\ o.port = 0 /\ o.mode = "stdio" /\ o.log = ""
      /\ o.awaits = FALSE
  BY <1>a, <1>b, <1>1 DEF Found
<1>4. \A M : ~Some(ws, 0, M) /\ Once(ws, 0, M)
  BY DEF Some, Once
<1>c. ~o.help /\ ~o.awaits /\ ~(o.port >= 1) /\ o.mode # "port" /\ o.log # "f"
  <2>1. ~o.help /\ ~o.awaits
    BY <1>3
  <2>2. ~(o.port >= 1)
    <3>1. o.port \in Nat /\ o.port = 0
      BY <1>2, <1>3 DEF Found
    <3> QED
      BY <3>1
  <2>3. o.mode # "port" /\ o.log # "f"
    BY <1>3
  <2> QED
    BY <2>1, <2>2, <2>3
<1>5. Told(ws, 0, o)
  BY <1>4, <1>c DEF Told
<1>d. Moded(o)
  BY <1>c DEF Moded
<1> QED
  BY <1>2, <1>5, <1>d DEF o

(* All the words, one after the other.                                     *)
LEMMA FoldTells ==
  ASSUME NEW ws \in Seq(Strings), NEW d \in BOOLEAN
  PROVE  LET o == FoldLeft(Take, [NoOptions EXCEPT !.short = d], ws)
         IN  o \in Found(Strings) /\ Told(ws, Len(ws), o) /\ Moded(o)
<1> DEFINE b == [NoOptions EXCEPT !.short = d]
           n == Len(ws)
<1>1. b \in Found(Strings) /\ Told(ws, 0, b) /\ Moded(b)
  BY BaseIs
<1>2. n \in Nat /\ \A k \in 1..n : ws[k] \in Strings
  OBVIOUS
<1>3. "80" \in Strings
  BY DEF Strings
<1> HIDE DEF b
<1>4. PICK g : InTurn(ws, b, g)
  BY <1>1, TakesInTurn
<1>5. /\ g \in [0..n -> Found(Strings)] /\ g[0] = b
      /\ \A k \in 1..n : g[k] = Take(g[k - 1], ws[k])
      /\ FoldLeft(Take, b, ws) = g[n]
  BY <1>4 DEF InTurn
<1> HIDE DEF n
<1> DEFINE T == {k \in Nat : k <= n => Told(ws, k, g[k]) /\ Moded(g[k])}
<1>6. 0 \in T
  BY <1>1, <1>5
<1>7. ASSUME NEW k \in Nat, k \in T PROVE k + 1 \in T
  <2> SUFFICES ASSUME k + 1 <= n PROVE Told(ws, k + 1, g[k + 1]) /\ Moded(g[k + 1])
    OBVIOUS
  <2> DEFINE m == k + 1
  <2>1. m \in 1..n /\ m - 1 = k /\ m \in Nat \ {0} /\ k \in 0..n /\ m \in 0..n
    BY <1>2
  <2>2. Told(ws, k, g[k]) /\ Moded(g[k])
    BY <1>2, <1>7
  <2> HIDE DEF m
  <2>3. g[k] \in Found(Strings) /\ g[m] \in Found(Strings) /\ ws[m] \in Strings
    BY <1>2, <1>5, <2>1
  <2>4. g[m] = Take(g[k], ws[m])
    BY <1>5, <2>1
  <2>5. Took(g[k], ws[m], g[m])
    BY <1>3, <2>3, <2>4, TakeIs
  <2>6. Told(ws, m, g[m])
    BY <2>1, <2>2, <2>3, <2>5, TookTells
  <2>7. Moded(g[m])
    BY <2>2, <2>3, <2>5, TookModes
  <2> QED
    BY <2>6, <2>7 DEF m
<1> HIDE DEF T
<1>8. \A k \in Nat : k \in T
  BY <1>6, <1>7, InductionOnNat
<1>9. Told(ws, n, g[n]) /\ Moded(g[n]) /\ g[n] \in Found(Strings)
  BY <1>2, <1>5, <1>8 DEF T
<1> QED
  BY <1>5, <1>9 DEF b, n

(* The parser of a command that starts to read at its first argument and   *)
(* then connects.                                                          *)
LEMMA ParsedTells ==
  ASSUME NEW ws \in Seq(Strings), dangling = FALSE, ~Parsed(ws).help, Valid(Parsed(ws)),
         Parsed(ws).mode = "stdio" \/ Parsed(ws).connect = "80"
  PROVE  Said(ws, Parsed(ws))
<1> DEFINE f == FoldLeft(Take, [NoOptions EXCEPT !.short = dangling], ws)
           p == Parsed(ws)
           b == f.bad \/ f.awaits \/ f.words > 0
           l == IF f.log = "" THEN "nitrate-lsp.log" ELSE f.log
<1>1. f \in Found(Strings) /\ Told(ws, Len(ws), f) /\ Moded(f)
  BY FoldTells
<1>2. p = [f EXCEPT !.bad = b, !.log = l]
  BY DEF Parsed
<1> HIDE DEF f, p
<1>a. /\ f.help \in BOOLEAN /\ f.bad \in BOOLEAN /\ f.awaits \in BOOLEAN
      /\ f.stdio \in Nat /\ f.port \in Nat /\ f.words \in Nat /\ f.mode \in {"stdio", "port"}
      /\ f.log \in {"", "f"}
  BY <1>1 DEF Found
<1>b. b \in BOOLEAN /\ (f.bad \/ f.awaits => b)
  BY Zenon
<1> HIDE DEF b, l
<1>3. /\ p.help = f.help /\ p.mode = f.mode /\ p.connect = f.connect /\ p.stdio = f.stdio
      /\ p.port = f.port /\ p.bad = b /\ p.log = l
  BY <1>1, <1>2 DEF Found
<1>4. /\ ~p.help /\ ~p.bad /\ p.stdio + p.port <= 1 /\ (p.mode = "stdio" \/ p.connect = "80")
  BY DEF Valid, p
<1>5. ~f.help /\ ~f.bad /\ ~f.awaits
  BY <1>3, <1>4, <1>b
<1>6. f.mode = "stdio" \/ f.connect = "80"
  BY <1>3, <1>4
<1>c. f.stdio \in Nat /\ f.port \in Nat /\ f.stdio + f.port <= 1
  BY <1>3, <1>4, <1>a
<1>7. Sound(f)
  <2>1. f.port = 0 \/ f.mode = "port"
    <3>1. f.port >= 1 => f.stdio = 0
      BY <1>c
    <3>2. f.port = 0 \/ f.port >= 1
      BY <1>c
    <3> QED
      BY <1>1, <3>1, <3>2 DEF Moded
  <2> QED
    BY <1>5, <1>6, <2>1 DEF Sound
<1>8. Asked(f) <= 1
  BY <1>5, <1>c DEF Asked
<1>9. l = "f" <=> f.log = "f"
  BY DEF l
<1>d. f.mode = "port" <=> f.port >= 1
  <2>1. f.port >= 1 => f.stdio = 0
    BY <1>c
  <2>2. f.mode = "port" => f.port >= 1
    BY <1>1, <1>7 DEF Told
  <2> QED
    BY <1>1, <2>1, <2>2 DEF Moded
<1> HIDE DEF p
<1>10. Said(ws, p)
  <2>1. /\ ~Some(ws, Len(ws), {"--help"}) /\ ~Some(ws, Len(ws), {"-z"})
        /\ Once(ws, Len(ws), Ways)
        /\ Some(ws, Len(ws), Ports) <=> f.port >= 1
        /\ f.log = "f" <=> Some(ws, Len(ws), {"--log=f"})
    BY <1>1, <1>5, <1>7, <1>8 DEF Told
  <2> QED
    BY <1>3, <1>9, <1>d, <2>1 DEF Said
<1> QED
  BY <1>10 DEF p

(* A word is a sequence of characters; what SplitCommand keeps as it goes. *)
Typed == Seq(Strings)

Halves == [args : Seq(Typed), arg : Typed, in_quote : BOOLEAN]

LEMMA SplitStepIs ==
  ASSUME NEW s \in Halves, NEW c \in Strings
  PROVE  SplitStep(s, c) \in Halves
<1>1. s.args \in Seq(Typed) /\ s.arg \in Typed /\ s.in_quote \in BOOLEAN
  BY DEF Halves
<1>2. <<>> \in Typed /\ Append(s.arg, c) \in Typed
  BY <1>1 DEF Typed
<1>3. Append(s.args, s.arg) \in Seq(Typed)
  BY <1>1
<1> DEFINE a == IF s.arg = <<>> THEN s.args ELSE Append(s.args, s.arg)
<1>4. a \in Seq(Typed)
  BY <1>1, <1>3
<1> DEFINE b == Append(s.arg, c)
           q == ~s.in_quote
<1>5. b \in Typed /\ q \in BOOLEAN
  BY <1>1, <1>2
<1> HIDE DEF a, b, q, Typed
<1>6. CASE c = SpaceChar /\ ~s.in_quote
  <2>1. SplitStep(s, c) = [s EXCEPT !.args = a, !.arg = <<>>]
    BY <1>6 DEF SplitStep, a
  <2> QED
    BY <1>2, <1>4, <2>1 DEF Halves
<1>7. CASE ~(c = SpaceChar /\ ~s.in_quote) /\ c = Quote
  <2>1. SplitStep(s, c) = [s EXCEPT !.in_quote = q]
    BY <1>7 DEF SplitStep, q
  <2> QED
    BY <1>5, <2>1 DEF Halves
<1>8. CASE ~(c = SpaceChar /\ ~s.in_quote) /\ c # Quote
  <2>1. SplitStep(s, c) = [s EXCEPT !.arg = b]
    BY <1>8 DEF SplitStep, b
  <2> QED
    BY <1>5, <2>1 DEF Halves
<1> QED
  BY <1>6, <1>7, <1>8

(* What FoldLeft chooses for SplitStep.                                    *)
IsSplit(ws, o, f) ==
  f = [s \in SUBSET (DOMAIN ws) |-> IF s = {} THEN o ELSE SplitStep(f[s \ {Max(s)}], ws[Max(s)])]

(* What is kept, character after character.                                *)
Splits(ws, o, h) ==
  /\ h \in [0..Len(ws) -> Halves] /\ h[0] = o
  /\ \A k \in 1..Len(ws) : h[k] = SplitStep(h[k - 1], ws[k])
  /\ FoldLeft(SplitStep, o, ws) = h[Len(ws)]

LEMMA SplitsInTurn ==
  ASSUME NEW ws \in Seq(Strings), NEW o \in Halves
  PROVE  \E h : Splits(ws, o, h)
<1> DEFINE n == Len(ws)
           V == Halves
           G == [p \in V \X (1..n) |-> SplitStep(p[1], ws[p[2]])]
           f == CHOOSE h : IsSplit(ws, o, h)
<1>1. n \in Nat /\ DOMAIN ws = 1..n /\ \A k \in 1..n : ws[k] \in Strings
  OBVIOUS
<1>2. \A v \in V : \A w \in Strings : SplitStep(v, w) \in V
  BY SplitStepIs
<1>4. o \in V
  OBVIOUS
<1> HIDE DEF n, V
<1>3. G \in [V \X (1..n) -> V] /\ \A v \in V : \A k \in 1..n : G[<<v, k>>] = SplitStep(v, ws[k])
  BY <1>1, <1>2
<1> HIDE DEF G
<1>a. n \in Nat
  BY <1>1
<1>b. G \in [V \X (1..n) -> V]
  BY <1>3
<1>5. PICK c : Folds(n, V, o, G, c)
  BY <1>4, <1>a, <1>b, FoldExists
<1>6. IsSplit(ws, o, c)
  <2>1. \A s \in SUBSET (1..n) : c[s] = IF s = {} THEN o ELSE SplitStep(c[s \ {Max(s)}], ws[Max(s)])
    <3> SUFFICES ASSUME NEW s \in SUBSET (1..n), s # {}
                 PROVE  c[s] = SplitStep(c[s \ {Max(s)}], ws[Max(s)])
      BY <1>5 DEF Folds
    <3> DEFINE x == Max(s)
               r == s \ {x}
    <3>1. x \in 1..n /\ c[s] = G[<<c[r], x>>]
      BY <1>5 DEF Folds
    <3>2. r \in SUBSET (1..n)
      OBVIOUS
    <3> HIDE DEF x, r
    <3>3. c[r] \in V
      BY <1>5, <3>2 DEF Folds
    <3>4. c[s] = SplitStep(c[r], ws[x])
      BY <1>3, <3>1, <3>3
    <3> QED
      BY <3>4 DEF x, r
  <2> QED
    BY <1>1, <1>5, <2>1 DEF IsSplit, Folds
<1>7. IsSplit(ws, o, f)
  BY <1>6
<1>8. FoldLeft(SplitStep, o, ws) = f[1..n]
  BY <1>1 DEF FoldLeft, MapThenFoldSet, IsSplit
<1> HIDE DEF f
<1>9. FoldsWith(f, n, V, o, G)
  <2>1. ASSUME NEW s \in SUBSET (1..n), s # {}, f[s \ {Max(s)}] \in V
        PROVE  f[s] = G[<<f[s \ {Max(s)}], Max(s)>>]
    <3>1. f[s] = SplitStep(f[s \ {Max(s)}], ws[Max(s)])
      BY <1>1, <1>7, <2>1 DEF IsSplit
    <3>2. Max(s) \in 1..n
      BY <1>5, <2>1 DEF Folds
    <3> QED
      BY <1>3, <2>1, <3>1, <3>2
  <2>2. f[{}] = o
    BY <1>1, <1>7 DEF IsSplit
  <2> QED
    BY <2>1, <2>2 DEF FoldsWith
<1>10. /\ f[1..0] = o
       /\ \A k \in 0..n : f[1..k] \in V
       /\ \A k \in 1..n : f[1..k] = G[<<f[1..(k - 1)], k>>]
  <2>1. FoldedInTurn(f, n, V, o, G)
    BY <1>4, <1>9, <1>a, <1>b, FoldsInTurn
  <2> QED
    BY <2>1 DEF FoldedInTurn
<1>11. \A k \in 1..n : f[1..k] = SplitStep(f[1..(k - 1)], ws[k])
  <2> SUFFICES ASSUME NEW k \in 1..n PROVE f[1..k] = SplitStep(f[1..(k - 1)], ws[k])
    OBVIOUS
  <2> DEFINE j == k - 1
  <2>1. j \in 0..n
    BY <1>1
  <2> HIDE DEF j
  <2>2. f[1..j] \in V
    BY <1>10, <2>1
  <2> QED
    BY <1>3, <1>10, <2>2 DEF j
<1> DEFINE g == [k \in 0..n |-> f[1..k]]
<1>12. \A k \in 0..n : g[k] = f[1..k]
  OBVIOUS
<1>13. 0 \in 0..n /\ n \in 0..n /\ \A k \in 1..n : k \in 0..n /\ k - 1 \in 0..n
  BY <1>1
<1>14. g \in [0..n -> V]
  BY <1>10
<1> HIDE DEF g
<1>15. g[0] = o /\ FoldLeft(SplitStep, o, ws) = g[n]
  BY <1>8, <1>10, <1>12, <1>13
<1>16. \A k \in 1..n : g[k] = SplitStep(g[k - 1], ws[k])
  BY <1>11, <1>12, <1>13
<1> QED
  BY <1>14, <1>15, <1>16 DEF Splits, n, V

LEMMA SplitsIntoHalves ==
  ASSUME NEW ws \in Seq(Strings), NEW o \in Halves
  PROVE  FoldLeft(SplitStep, o, ws) \in Halves
<1>1. PICK h : Splits(ws, o, h)
  BY SplitsInTurn
<1>2. Len(ws) \in 0..Len(ws)
  OBVIOUS
<1> QED
  BY <1>1, <1>2 DEF Splits

(* SplitCommand makes words of any line.                                   *)
LEMMA SplitCommandIs ==
  ASSUME NEW command \in Seq(Strings)
  PROVE  SplitCommand(command) \in Seq(Typed)
<1> DEFINE o == [args |-> <<>>, arg |-> <<>>, in_quote |-> FALSE]
           s == FoldLeft(SplitStep, o, command)
<1>1. <<>> \in Seq(Typed) /\ <<>> \in Typed
  BY DEF Typed
<1>2. o \in Halves
  <2> HIDE DEF Typed
  <2> QED
    BY <1>1 DEF Halves
<1> HIDE DEF o
<1>3. s \in Halves
  BY <1>2, SplitsIntoHalves
<1> HIDE DEF s
<1>4. s.args \in Seq(Typed) /\ s.arg \in Typed
  BY <1>3 DEF Halves
<1>5. Append(s.args, s.arg) \in Seq(Typed)
  <2> HIDE DEF Typed
  <2> QED
    BY <1>4
<1> QED
  BY <1>4, <1>5 DEF SplitCommand, s, o

(* Until a first lsp command has been parsed, getopt_long has not moved;   *)
(* from then on the options say what the arguments do.                     *)
FirstInv ==
  /\ count \in Nat /\ words \in Seq(Typed) /\ args \in Seq(Strings)
  /\ turn = "lsp" <=> pc # "idle"
  /\ count = 0 => turn \in {"prompt", "ended"}
  /\ count = 0 \/ (count = 1 /\ (turn = "perform" \/ pc = "parse")) => optind = 1 /\ dangling = FALSE
  /\ count = 1 /\ pc = "connect" /\ (options.mode = "stdio" \/ options.connect = "80") => Honoured
  /\ count = 1 /\ pc \notin {"idle", "parse", "connect", "dead"} => Honoured

(* Said, in the words of Honoured.                                         *)
Gave(as, M) == \E k \in DOMAIN as : as[k] \in M

LEMMA SaidMeans ==
  ASSUME NEW as \in Seq(Strings), NEW o, Said(as, o)
  PROVE  /\ ~Gave(as, {"--help", "-z"})
         /\ Cardinality({k \in DOMAIN as : as[k] \in {"-s", "--stdio", "-p", "--port=80"}}) <= 1
         /\ o.mode = "port" <=> Gave(as, {"-p", "--port=80"})
         /\ o.log = "f" <=> Gave(as, {"--log=f"})
<1> DEFINE S == {k \in DOMAIN as : as[k] \in Ways}
<1>1. Len(as) \in Nat /\ DOMAIN as = 1..Len(as)
  BY LenProperties
<1>2. \A M : Gave(as, M) <=> Some(as, Len(as), M)
  BY <1>1 DEF Gave, Some
<1>3. \A i, j \in S : i = j
  BY <1>1 DEF Said, Once
<1> HIDE DEF S
<1>4. Cardinality(S) <= 1
  <2>1. CASE S = {}
    BY <2>1, FS_EmptySet
  <2>2. CASE S # {}
    <3>1. PICK i : i \in S
      BY <2>2
    <3>2. S = {i}
      BY <1>3, <3>1
    <3>3. Cardinality({i}) = 1
      BY FS_Singleton
    <3> QED
      BY <3>2, <3>3
  <2> QED
    BY <2>1, <2>2
<1>5. {k \in DOMAIN as : as[k] \in {"-s", "--stdio", "-p", "--port=80"}} = S
  BY DEF Ways, S
<1>6. ~Gave(as, {"--help", "-z"})
  <2>1. ~Some(as, Len(as), {"--help"}) /\ ~Some(as, Len(as), {"-z"})
    BY DEF Said
  <2>2. ~Some(as, Len(as), {"--help", "-z"})
    BY <2>1 DEF Some
  <2> QED
    BY <1>2, <2>2
<1>7. /\ o.mode = "port" <=> Gave(as, {"-p", "--port=80"})
      /\ o.log = "f" <=> Gave(as, {"--log=f"})
  BY <1>2 DEF Said, Ports
<1> QED
  BY <1>4, <1>5, <1>6, <1>7

LEMMA SaidIsHonoured ==
  ASSUME NEW as \in Seq(Strings), NEW o, Said(as, o), args' = as, options' = o
  PROVE  Honoured'
<1>1. /\ ~Gave(as, {"--help", "-z"})
      /\ Cardinality({k \in DOMAIN as : as[k] \in {"-s", "--stdio", "-p", "--port=80"}}) <= 1
      /\ o.mode = "port" <=> Gave(as, {"-p", "--port=80"})
      /\ o.log = "f" <=> Gave(as, {"--log=f"})
  BY SaidMeans
<1> QED
  BY <1>1 DEF Honoured, Given, Gave

LEMMA WordsAreWords ==
  ASSUME NEW l \in Lines PROVE Split[l] \in Seq(Typed)
<1> DEFINE c == Program \o <<SpaceChar>> \o l
<1>1. Program \in Seq(Strings) /\ l \in Seq(Strings) /\ <<SpaceChar>> \in Seq(Strings)
  <2>1. STRING \subseteq Strings
    BY Zenon DEF Strings
  <2>2. SpaceChar \in Strings
    BY Zenon DEF Strings, SpaceChar
  <2>3. Program \in Seq(STRING) /\ l \in Seq(STRING)
    BY ShellAssumption
  <2>4. ASSUME NEW A, NEW B, A \subseteq B, NEW s \in Seq(A) PROVE s \in Seq(B)
    BY <2>4
  <2>5. Program \in Seq(Strings) /\ l \in Seq(Strings)
    BY <2>1, <2>3, <2>4
  <2> QED
    BY <2>2, <2>5
<1>2. c \in Seq(Strings)
  <2> HIDE DEF Strings
  <2> QED
    BY <1>1
<1> HIDE DEF c
<1>3. SplitCommand(c) \in Seq(Typed)
  BY <1>2, SplitCommandIs
<1> QED
  BY <1>3 DEF Split, c

LEMMA CallIs ==
  ASSUME NEW a \in Arguments PROVE <<Program>> \o a \in Seq(Typed)
<1>1. STRING \subseteq Strings
  BY Zenon DEF Strings
<1>2. ASSUME NEW A, NEW B, A \subseteq B PROVE Seq(A) \subseteq Seq(B)
  BY <1>2
<1>3. Seq(STRING) \subseteq Seq(Strings)
  BY <1>1, <1>2
<1>4. Seq(Seq(STRING)) \subseteq Seq(Seq(Strings))
  BY <1>2, <1>3
<1>5. Program \in Seq(Strings) /\ a \in Seq(Seq(Strings))
  BY <1>3, <1>4, ShellAssumption
<1> QED
  BY <1>5 DEF Typed

LEMMA FirstIs == ASSUME NEW w \in Seq(Strings), Len(w) = 1 PROVE w[1] \in Strings
  OBVIOUS

LEMMA ArgvIs ==
  ASSUME words \in Seq(Typed), Len(words) >= 2
  PROVE  argv \in Seq(Strings)
<1> DEFINE n == Len(words) - 2
<1>1. n \in Nat
  OBVIOUS
<1>2. ASSUME NEW i \in 1..n PROVE Plain(words[i + 2]) \in Strings
  <2> DEFINE w == words[i + 2]
  <2>1. w \in Seq(Strings)
    BY DEF Typed
  <2> HIDE DEF w
  <2>2. Len(w) = 1 => w[1] \in Strings
    BY <2>1, FirstIs
  <2>4. "?" \in Strings
    BY DEF Strings
  <2>3. Plain(w) \in Strings
    BY <2>2, <2>4 DEF Plain
  <2> QED
    BY <2>3 DEF w
<1>3. argv = [i \in 1..n |-> Plain(words[i + 2])]
  BY DEF argv
<1> HIDE DEF n
<1> QED
  BY <1>1, <1>2, <1>3

LEMMA FirstParse ==
  ASSUME FirstInv, Parse, count = 1
  PROVE  /\ pc' \in {"idle", "connect"}
         /\ pc' = "connect" => args' = args
         /\ pc' = "connect" /\ (options'.mode = "stdio" \/ options'.connect = "80") => Honoured'
<1> DEFINE all == SubSeq(args, optind, Len(args))
<1>1. args \in Seq(Strings) /\ optind = 1 /\ dangling = FALSE
  BY DEF FirstInv, Parse
<1>2. all = args
  BY <1>1
<1>3. <<>> \o args = args
  BY <1>1
<1>4. Garbage = {<<>>}
  BY <1>1 DEF Garbage
<1> HIDE DEF all
<1>5. PICK garbage \in Garbage :
         LET o == Parsed(garbage \o all) IN
            IF o.help \/ ~Valid(o) THEN Return(o.help)
              ELSE /\ pc' = "connect" /\ options' = o
                   /\ UNCHANGED <<args, result, count, heardBefore>>
  BY DEF Parse, all
<1> DEFINE o == Parsed(args)
<1>6. IF o.help \/ ~Valid(o) THEN Return(o.help)
      ELSE /\ pc' = "connect" /\ options' = o
           /\ UNCHANGED <<args, result, count, heardBefore>>
  BY <1>2, <1>3, <1>4, <1>5
<1> HIDE DEF o
<1>7. CASE o.help \/ ~Valid(o)
  BY <1>6, <1>7 DEF Return
<1>8. CASE ~(o.help \/ ~Valid(o))
  <2>1. pc' = "connect" /\ options' = o /\ args' = args
    BY <1>6, <1>8
  <2>2. ASSUME o.mode = "stdio" \/ o.connect = "80" PROVE Honoured'
    <3>a. ~Parsed(args).help /\ Valid(Parsed(args))
      BY <1>8 DEF o
    <3>b. Parsed(args).mode = "stdio" \/ Parsed(args).connect = "80"
      BY <2>2 DEF o
    <3>1. Said(args, o)
      BY <1>1, <3>a, <3>b, ParsedTells DEF o
    <3> QED
      BY <1>1, <2>1, <3>1, SaidIsHonoured
  <2> QED
    BY <2>1, <2>2
<1> QED
  BY <1>7, <1>8

LEMMA HonouredStays ==
  ASSUME Honoured, UNCHANGED <<args, options>> PROVE Honoured'
BY DEF Honoured, Given

(* What the steps of the lsp command do to the first one.                  *)
LEMMA FirstCommand ==
  ASSUME FirstInv, Command
  PROVE  /\ UNCHANGED count /\ args' \in Seq(Strings) /\ pc # "idle" /\ pc' # "parse"
         /\ count = 1 /\ pc' = "connect" /\ (options'.mode = "stdio" \/ options'.connect = "80")
              => Honoured'
         /\ count = 1 /\ pc' \notin {"idle", "parse", "connect", "dead"} => Honoured'
<1> USE DEF Go, Return
<1>0. args \in Seq(Strings) /\ <<>> \in Seq(Strings)
  BY DEF FirstInv
<1>1. CASE Parse
  <2>1. pc = "parse" /\ UNCHANGED count /\ pc' \in {"idle", "connect"} /\ args' \in {<<>>, args}
    BY <1>1 DEF Parse
  <2>2. count = 1 /\ pc' = "connect" /\ (options'.mode = "stdio" \/ options'.connect = "80")
          => Honoured'
    BY <1>1, FirstParse
  <2> QED
    BY <1>0, <2>1, <2>2
<1>2. CASE ParseCrash
  BY <1>0, <1>2 DEF ParseCrash
<1>3. CASE ConnectStdio
  <2>1. pc = "connect" /\ options.mode = "stdio" /\ pc' = "log" /\ UNCHANGED <<args, options, count>>
    BY <1>3 DEF ConnectStdio
  <2>2. count = 1 => Honoured
    BY <2>1 DEF FirstInv
  <2> QED
    BY <1>0, <2>1, <2>2, HonouredStays
<1>4. CASE ConnectPort
  <2>1. pc = "connect" /\ options.connect = "80" /\ pc' = "socket" /\ UNCHANGED <<args, options, count>>
    BY <1>4 DEF ConnectPort, TcpCall
  <2>2. count = 1 => Honoured
    BY <2>1 DEF FirstInv
  <2> QED
    BY <1>0, <2>1, <2>2, HonouredStays
<1>5. CASE InvalidPort
  BY <1>0, <1>5 DEF InvalidPort
<1>6. ASSUME pc \notin {"idle", "parse", "connect", "dead"},
             pc' \notin {"idle", "parse", "connect", "dead"}, UNCHANGED <<args, options, count>>
      PROVE  /\ UNCHANGED count /\ args' \in Seq(Strings) /\ pc # "idle" /\ pc' # "parse"
             /\ count = 1 => Honoured'
  <2>1. count = 1 => Honoured
    BY <1>6 DEF FirstInv
  <2> QED
    BY <1>0, <1>6, <2>1, HonouredStays
<1>7. ASSUME NEW k \in DOMAIN TcpCall, TcpSucceeds(k)
      PROVE  /\ pc \notin {"idle", "parse", "connect", "dead"}
             /\ pc' \notin {"idle", "parse", "connect", "dead"} /\ UNCHANGED <<args, options, count>>
  <2>1. /\ k \in 1..6 /\ pc = TcpCall[k] /\ UNCHANGED <<args, options, count>>
        /\ pc' = IF k < 6 THEN TcpCall[k + 1] ELSE "log"
    BY <1>7 DEF TcpSucceeds, TcpCall
  <2>2. \A i \in 1..6 : TcpCall[i] \notin {"idle", "parse", "connect", "dead"}
    BY DEF TcpCall
  <2>3. k < 6 => k + 1 \in 1..6
    BY <2>1
  <2> QED
    BY <2>1, <2>2, <2>3
<1>8. ASSUME NEW k \in DOMAIN TcpCall, TcpFails(k)
      PROVE  pc \notin {"idle"} /\ pc' = "idle" /\ UNCHANGED count /\ args' = <<>>
  <2>1. \A i \in DOMAIN TcpCall : TcpCall[i] # "idle"
    BY DEF TcpCall
  <2> QED
    BY <1>8, <2>1 DEF TcpFails
<1>9. CASE OpenLog \/ Start
  BY <1>6, <1>9 DEF OpenLog, Start
<1>10. CASE OpenLogFails \/ ServerReturns
  BY <1>0, <1>10 DEF OpenLogFails, ServerReturns
<1>11. CASE \E k \in DOMAIN TcpCall : TcpSucceeds(k) \/ TcpFails(k)
  <2>1. PICK k \in DOMAIN TcpCall : TcpSucceeds(k) \/ TcpFails(k)
    BY <1>11
  <2>2. CASE TcpSucceeds(k)
    BY <1>6, <1>7, <2>2
  <2>3. CASE TcpFails(k)
    BY <1>0, <1>8, <2>3
  <2> QED
    BY <2>1, <2>2, <2>3
<1> QED
  BY <1>1, <1>2, <1>3, <1>4, <1>5, <1>9, <1>10, <1>11 DEF Command

LEMMA FirstInitially == ShellInit => FirstInv
BY DEF ShellInit, Init, FirstInv

LEMMA FirstStep == ASSUME FirstInv, [ShellNext]_allVars PROVE FirstInv'
<1>0. <<>> \in Seq(Typed)
  OBVIOUS
<1>1. CASE EnterLine
  <2>1. words' \in Seq(Typed)
    <3>1. PICK l \in Lines : words' = Split[l]
      BY <1>1, ShellAssumption DEF EnterLine
    <3> QED
      BY <3>1, WordsAreWords
  <2>2. /\ turn = "prompt" /\ turn' = "perform" /\ count' = count + 1
        /\ UNCHANGED <<optind, dangling, args, options, pc>>
    BY <1>1 DEF EnterLine
  <2> QED
    BY <2>1, <2>2 DEF FirstInv
<1>2. CASE RunOnce
  <2>1. words' \in Seq(Typed)
    BY <1>2, CallIs DEF RunOnce
  <2>2. /\ turn = "prompt" /\ turn' = "perform" /\ count' = count + 1
        /\ UNCHANGED <<optind, dangling, args, options, pc>>
    BY <1>2 DEF RunOnce
  <2> QED
    BY <2>1, <2>2 DEF FirstInv
<1>3. ASSUME turn \notin {"lsp"}, turn' \in {"prompt", "ended", "parse"}, turn' = "parse" => turn = "perform",
             words' \in {<<>>, words}, UNCHANGED <<optind, dangling, args, options, pc, count>>
      PROVE  FirstInv'
  <2>1. /\ count' \in Nat /\ words' \in Seq(Typed) /\ args' \in Seq(Strings)
        /\ turn' = "lsp" <=> pc' # "idle"
        /\ count' = 0 => turn' \in {"prompt", "ended"}
        /\ count' = 0 \/ (count' = 1 /\ (turn' = "perform" \/ pc' = "parse")) => optind' = 1 /\ dangling' = FALSE
        /\ pc' = "idle"
    BY <1>0, <1>3 DEF FirstInv
  <2> QED
    BY <2>1 DEF FirstInv
<1>4. CASE LeaveShell
  BY <1>3, <1>4 DEF LeaveShell, vars, cmdVars
<1>5. CASE Perform
  <2>1. turn = "perform" /\ turn' \in {"prompt", "ended"} /\ words' = <<>>
        /\ UNCHANGED <<optind, dangling, args, options, pc, count>>
    BY <1>5 DEF Perform, BackTo
  <2> QED
    BY <1>3, <2>1
<1>6. CASE PerformLsp
  <2>1. /\ turn = "perform" /\ turn' = "lsp" /\ pc = "idle" /\ pc' = "parse" /\ args' = argv
        /\ UNCHANGED <<optind, dangling, options, count, words>>
    BY <1>6 DEF PerformLsp, Call, Go
  <2>2. Len(words) >= 2
    <3>1. Called # {} /\ Len(words) \in Nat
      BY <1>6 DEF PerformLsp, FirstInv
    <3> QED
      BY <3>1 DEF Called
  <2>3. argv \in Seq(Strings)
    BY <2>2, ArgvIs DEF FirstInv
  <2> QED
    BY <2>1, <2>3 DEF FirstInv
<1>7. CASE LspStep
  <2>1. turn = "lsp" /\ Command /\ IF pc' = "idle" THEN BackTo(result') ELSE UNCHANGED mainVars
    BY <1>7 DEF LspStep
  <2>2. /\ UNCHANGED count /\ args' \in Seq(Strings) /\ pc # "idle" /\ pc' # "parse"
        /\ count = 1 /\ pc' = "connect" /\ (options'.mode = "stdio" \/ options'.connect = "80")
              => Honoured'
        /\ count = 1 /\ pc' \notin {"idle", "parse", "connect", "dead"} => Honoured'
    BY <2>1, FirstCommand
  <2>3. CASE pc' = "idle"
    <3>1. words' = <<>> /\ turn' \in {"prompt", "ended"}
      BY <2>1, <2>3 DEF BackTo
    <3>2. count \in Nat \ {0}
      BY <2>1 DEF FirstInv
    <3> QED
      BY <1>0, <2>2, <2>3, <3>1, <3>2 DEF FirstInv
  <2>4. CASE pc' # "idle"
    <3>1. UNCHANGED <<words, turn>>
      BY <2>1, <2>4 DEF mainVars
    <3>2. count \in Nat \ {0} /\ words \in Seq(Typed)
      BY <2>1 DEF FirstInv
    <3> QED
      BY <2>1, <2>2, <2>4, <3>1, <3>2 DEF FirstInv
  <2> QED
    BY <2>3, <2>4
<1>8. CASE PerformParse
  BY <1>3, <1>8 DEF PerformParse, vars, cmdVars
<1>9. ASSUME UNCHANGED <<optind, dangling, args, options, pc, count, turn, words>>
      PROVE  FirstInv'
  BY <1>9 DEF FirstInv, Honoured, Given
<1>10. CASE ParsingStep
  BY <1>9, <1>10 DEF ParsingStep, vars, cmdVars, mainVars
<1>11. CASE ParseOver
  <2>1. turn = "parse" /\ turn' \in {"prompt", "ended"} /\ words' = <<>>
        /\ UNCHANGED <<optind, dangling, args, options, pc, count>>
    BY <1>11 DEF ParseOver, BackTo
  <2> QED
    BY <1>3, <2>1
<1>12. CASE Embedding
  BY <1>9, <1>12 DEF Embedding, Elsewhere, cmdVars, mainVars
<1>13. CASE UNCHANGED allVars
  BY <1>9, <1>13 DEF allVars, vars, cmdVars, mainVars
<1> QED
  BY <1>1, <1>2, <1>4, <1>5, <1>6, <1>7, <1>8, <1>10, <1>11, <1>12, <1>13 DEF ShellNext

(* LspCommandArgumentParser, for any words in any order and number: the    *)
(* first command of a process that serves was asked to in one way at most  *)
(* and to do nothing else, and serves this way, with the log file it was   *)
(* given. Of later commands this is not so: getopt_long keeps its place.   *)
THEOREM FirstCommandIsHonoured == ShellSpec => []FirstCommandHonoured
<1>1. FirstInv /\ [ShellNext]_allVars => FirstInv'
  BY FirstStep
<1>2. FirstInv => FirstCommandHonoured
  BY DEF FirstInv, FirstCommandHonoured, Honoured
<1> QED
  BY <1>1, <1>2, FirstInitially, PTL DEF ShellSpec

-------------------------------------------------------------------------------
(* SplitCommand, and what a line says. A piece of a run is a place's      *)
(* character, or nothing.                                                  *)
Piece(l, n, k) == IF RunOf(l, k) = n /\ ~Ends(l, k) /\ l[k] # Quote THEN <<l[k]>> ELSE <<>>

(* A run, and the runs that something is left of, up to place j.           *)
Run(l, n, j) == FlattenSeq([k \in 1..j |-> Piece(l, n, k)])

Part(w) == IF w = <<>> THEN <<>> ELSE <<w>>

Runs(l, m, j) == FlattenSeq([n \in 1..m |-> Part(Run(l, n, j))])

(* A text of one part more.                                                *)
LEMMA OnePartMore ==
  ASSUME NEW S, NEW j \in Nat, NEW p \in [1..(j + 1) -> Seq(S)]
  PROVE  FlattenSeq(p) = FlattenSeq([k \in 1..j |-> p[k]]) \o p[j + 1]
<1> DEFINE V == Seq(S)
           q == [k \in 1..j |-> p[k]]
<1>1. Texts(V)
  BY SequencesAreTexts
<1> HIDE DEF V
<1>2. q \in Seq(V) /\ p[j + 1] \in V
  BY DEF V
<1>3. p = Append(q, p[j + 1])
  BY DEF V
<1> HIDE DEF q
<1>4. FlattenSeq(Append(q, p[j + 1])) = Cat(FlattenSeq(q), p[j + 1])
  BY <1>1, <1>2, FlattenAppend
<1> QED
  BY <1>3, <1>4 DEF Cat, q

(* A text of parts is a text.                                              *)
LEMMA PiecesFlatten ==
  ASSUME NEW S, NEW j \in Nat, NEW p \in [1..j -> Seq(S)]
  PROVE  FlattenSeq(p) \in Seq(S)
<1> DEFINE V == Seq(S)
<1>1. Texts(V)
  BY SequencesAreTexts
<1> HIDE DEF V
<1>2. p \in Seq(V)
  BY DEF V
<1>3. FlattenSeq(p) \in V
  BY <1>1, <1>2, FlattenTyped
<1> QED
  BY <1>3 DEF V

(* Pieces, runs and sequences of runs are texts and grow place by place,   *)
(* those of runs also run by run.                                          *)
LEMMA PieceIs ==
  ASSUME NEW l \in Seq(Strings), NEW n, NEW k \in 1..Len(l)
  PROVE  Piece(l, n, k) \in Typed
<1>1. l[k] \in Strings
  OBVIOUS
<1> QED
  BY <1>1 DEF Piece, Typed

LEMMA RunIs ==
  ASSUME NEW l \in Seq(Strings), NEW n, NEW j \in 0..Len(l)
  PROVE  Run(l, n, j) \in Typed
<1>1. [k \in 1..j |-> Piece(l, n, k)] \in [1..j -> Typed]
  BY PieceIs
<1>2. j \in Nat
  OBVIOUS
<1> QED
  BY <1>1, <1>2, PiecesFlatten DEF Run, Typed

LEMMA RunGrows ==
  ASSUME NEW l \in Seq(Strings), NEW n, NEW j \in 0..(Len(l) - 1)
  PROVE  Run(l, n, j + 1) = Run(l, n, j) \o Piece(l, n, j + 1)
<1> DEFINE p == [k \in 1..(j + 1) |-> Piece(l, n, k)]
<1>1. p \in [1..(j + 1) -> Typed] /\ p[j + 1] = Piece(l, n, j + 1)
  BY PieceIs
<1>2. j \in Nat
  OBVIOUS
<1>3. [k \in 1..j |-> p[k]] = [k \in 1..j |-> Piece(l, n, k)]
  OBVIOUS
<1> HIDE DEF p
<1>4. FlattenSeq(p) = FlattenSeq([k \in 1..j |-> p[k]]) \o p[j + 1]
  BY <1>1, <1>2, OnePartMore DEF Typed
<1> QED
  BY <1>1, <1>3, <1>4 DEF Run, p

LEMMA RunStays ==
  ASSUME NEW l \in Seq(Strings), NEW n, NEW j \in 0..(Len(l) - 1), Piece(l, n, j + 1) = <<>>
  PROVE  Run(l, n, j + 1) = Run(l, n, j)
<1>1. Run(l, n, j) \in Typed
  BY RunIs
<1>2. Run(l, n, j) \o <<>> = Run(l, n, j)
  BY <1>1 DEF Typed
<1> QED
  BY <1>2, RunGrows

LEMMA PartIs == ASSUME NEW w \in Typed PROVE Part(w) \in Seq(Typed)
<1> HIDE DEF Typed
<1> QED
  BY DEF Part

LEMMA RunsIs ==
  ASSUME NEW l \in Seq(Strings), NEW m \in Nat, NEW j \in 0..Len(l)
  PROVE  Runs(l, m, j) \in Seq(Typed)
<1>1. [n \in 1..m |-> Part(Run(l, n, j))] \in [1..m -> Seq(Typed)]
  BY RunIs, PartIs
<1> QED
  BY <1>1, PiecesFlatten DEF Runs

LEMMA OneRunMore ==
  ASSUME NEW l \in Seq(Strings), NEW m \in Nat, NEW j \in 0..Len(l)
  PROVE  Runs(l, m + 1, j) = Runs(l, m, j) \o Part(Run(l, m + 1, j))
<1> DEFINE p == [n \in 1..(m + 1) |-> Part(Run(l, n, j))]
<1>1. p \in [1..(m + 1) -> Seq(Typed)]
  BY RunIs, PartIs
<1>2. p[m + 1] = Part(Run(l, m + 1, j)) /\ [k \in 1..m |-> p[k]] = [n \in 1..m |-> Part(Run(l, n, j))]
  OBVIOUS
<1> HIDE DEF p
<1>3. FlattenSeq(p) = FlattenSeq([k \in 1..m |-> p[k]]) \o p[m + 1]
  BY <1>1, OnePartMore
<1> QED
  BY <1>2, <1>3 DEF Runs, p

LEMMA RunsStay ==
  ASSUME NEW l, NEW m \in Nat, NEW j, NEW k, \A n \in 1..m : Run(l, n, k) = Run(l, n, j)
  PROVE  Runs(l, m, k) = Runs(l, m, j)
<1>1. [n \in 1..m |-> Part(Run(l, n, k))] = [n \in 1..m |-> Part(Run(l, n, j))]
  OBVIOUS
<1> QED
  BY <1>1 DEF Runs

(* How many places up to j are in M.                                       *)
Among(M, j) == Cardinality({i \in 1..j : i \in M})

LEMMA OnePlaceMore ==
  ASSUME NEW j \in Nat, NEW M
  PROVE  /\ Among(M, j) \in Nat
         /\ j + 1 \in M => Among(M, j + 1) = Among(M, j) + 1
         /\ j + 1 \notin M => Among(M, j + 1) = Among(M, j)
<1> DEFINE A == {i \in 1..j : i \in M}
           B == {i \in 1..(j + 1) : i \in M}
<1>1. IsFiniteSet(1..j)
  BY FS_Interval
<1>2. IsFiniteSet(A) /\ Cardinality(A) \in Nat
  BY <1>1, FS_Subset, FS_CardinalityType
<1>3. ASSUME j + 1 \in M PROVE Cardinality(B) = Cardinality(A) + 1
  <2>1. B = A \cup {j + 1} /\ j + 1 \notin A
    BY <1>3
  <2> HIDE DEF A, B
  <2> QED
    BY <1>2, <2>1, FS_AddElement
<1>4. ASSUME j + 1 \notin M PROVE B = A
  BY <1>4
<1> QED
  BY <1>2, <1>3, <1>4 DEF Among

(* The run a place is of, and whether something is quoted there, are told  *)
(* by the place before.                                                    *)
LEMMA RunOfMoves ==
  ASSUME NEW l, NEW j \in Nat
  PROVE  /\ RunOf(l, j + 1) \in Nat \ {0}
         /\ Ends(l, j + 1) => RunOf(l, j + 2) = RunOf(l, j + 1) + 1
         /\ ~Ends(l, j + 1) => RunOf(l, j + 2) = RunOf(l, j + 1)
<1> DEFINE M == {i \in 1..(j + 1) : Ends(l, i)}
<1>1. /\ {i \in 1..((j + 1) - 1) : Ends(l, i)} = {i \in 1..j : i \in M}
      /\ {i \in 1..((j + 2) - 1) : Ends(l, i)} = {i \in 1..(j + 1) : i \in M}
      /\ Ends(l, j + 1) <=> j + 1 \in M
  OBVIOUS
<1>2. /\ RunOf(l, j + 1) = 1 + Among(M, j)
      /\ RunOf(l, j + 2) = 1 + Among(M, j + 1)
  <2> HIDE DEF M
  <2> QED
    BY <1>1, Zenon DEF RunOf, Among
<1> HIDE DEF M
<1>3. /\ Among(M, j) \in Nat
      /\ j + 1 \in M => Among(M, j + 1) = Among(M, j) + 1
      /\ j + 1 \notin M => Among(M, j + 1) = Among(M, j)
  BY OnePlaceMore
<1> QED
  BY <1>1, <1>2, <1>3

LEMMA Parity == ASSUME NEW c \in Nat PROVE (c + 1) % 2 = 0 <=> ~(c % 2 = 0)
  OBVIOUS

LEMMA OpenMoves ==
  ASSUME NEW l, NEW j \in Nat
  PROVE  Open(l, j + 2) <=> IF l[j + 1] = Quote THEN ~Open(l, j + 1) ELSE Open(l, j + 1)
<1> DEFINE M == {i \in 1..(j + 1) : l[i] = Quote}
<1>1. /\ {i \in 1..((j + 1) - 1) : l[i] = Quote} = {i \in 1..j : i \in M}
      /\ {i \in 1..((j + 2) - 1) : l[i] = Quote} = {i \in 1..(j + 1) : i \in M}
      /\ l[j + 1] = Quote <=> j + 1 \in M
  OBVIOUS
<1>2. /\ Open(l, j + 1) <=> Among(M, j) % 2 = 0
      /\ Open(l, j + 2) <=> Among(M, j + 1) % 2 = 0
  <2> HIDE DEF M
  <2> QED
    BY <1>1, Zenon DEF Open, Among
<1> HIDE DEF M
<1>3. /\ Among(M, j) \in Nat
      /\ j + 1 \in M => Among(M, j + 1) = Among(M, j) + 1
      /\ j + 1 \notin M => Among(M, j + 1) = Among(M, j)
  BY OnePlaceMore
<1>4. (Among(M, j) + 1) % 2 = 0 <=> ~(Among(M, j) % 2 = 0)
  BY <1>3, Parity
<1> QED
  BY <1>1, <1>2, <1>3, <1>4

LEMMA AtFirst ==
  ASSUME NEW l PROVE RunOf(l, 1) = 1 /\ Open(l, 1)
<1>1. {i \in 1..(1 - 1) : Ends(l, i)} = {} /\ {i \in 1..(1 - 1) : l[i] = Quote} = {}
  OBVIOUS
<1>2. Cardinality({}) = 0
  BY FS_EmptySet
<1> QED
  BY <1>1, <1>2 DEF RunOf, Open

(* What SplitCommand keeps behind the program's name and j characters of   *)
(* l: the runs that have ended, and what there is of the one that has not. *)
Kept(l, j) ==
  [args |-> <<Program>> \o Runs(l, RunOf(l, j + 1) - 1, j),
   arg |-> Run(l, RunOf(l, j + 1), j),
   in_quote |-> ~Open(l, j + 1)]

(* And there is nothing yet of the runs to come.                           *)
Ahead(l, j) == \A n \in Nat : n > RunOf(l, j + 1) => Run(l, n, j) = <<>>

LEMMA ProgramIs ==
  /\ Program \in Typed /\ Program # <<>>
  /\ \A k \in 1..Len(Program) : Program[k] \notin {SpaceChar, Quote} /\ Program[k] \in Strings
<1>1. STRING \subseteq Strings
  BY Zenon DEF Strings
<1>2. Program \in Seq(STRING) /\ Program # <<>> /\ \A i \in DOMAIN Program : Program[i] \notin {SpaceChar, Quote}
  BY ShellAssumption
<1>3. \A A, B : A \subseteq B => Seq(A) \subseteq Seq(B)
  OBVIOUS
<1>4. Program \in Typed
  BY <1>1, <1>2, <1>3 DEF Typed
<1> HIDE DEF Strings
<1> QED
  BY <1>2, <1>4 DEF Typed

LEMMA KeptIs ==
  ASSUME NEW l \in Seq(Strings), NEW j \in 0..Len(l)
  PROVE  /\ Runs(l, RunOf(l, j + 1) - 1, j) \in Seq(Typed)
         /\ Run(l, RunOf(l, j + 1), j) \in Typed
         /\ Kept(l, j) \in Halves
<1>1. RunOf(l, j + 1) - 1 \in Nat
  BY RunOfMoves
<1>2. /\ Runs(l, RunOf(l, j + 1) - 1, j) \in Seq(Typed)
      /\ Run(l, RunOf(l, j + 1), j) \in Typed
  BY <1>1, RunIs, RunsIs
<1>3. <<Program>> \o Runs(l, RunOf(l, j + 1) - 1, j) \in Seq(Typed)
  <2>1. Program \in Typed
    BY ProgramIs
  <2> HIDE DEF Typed
  <2> QED
    BY <1>2, <2>1
<1>4. Open(l, j + 1) \in BOOLEAN
  BY DEF Open
<1> HIDE DEF Typed
<1> QED
  BY <1>2, <1>3, <1>4 DEF Kept, Halves

(* At a place that is in no run the pieces are empty, at another all but   *)
(* one are.                                                                *)
LEMMA NoPiece ==
  ASSUME NEW l \in Seq(Strings), NEW j \in 0..(Len(l) - 1), Ends(l, j + 1) \/ l[j + 1] = Quote
  PROVE  \A n \in Nat : Run(l, n, j + 1) = Run(l, n, j)
<1> SUFFICES ASSUME NEW n \in Nat PROVE Run(l, n, j + 1) = Run(l, n, j)
  OBVIOUS
<1>1. Piece(l, n, j + 1) = <<>>
  BY DEF Piece
<1> QED
  BY <1>1, RunStays

LEMMA OnePiece ==
  ASSUME NEW l \in Seq(Strings), NEW j \in 0..(Len(l) - 1), ~Ends(l, j + 1), l[j + 1] # Quote
  PROVE  /\ \A n \in Nat : n # RunOf(l, j + 1) => Run(l, n, j + 1) = Run(l, n, j)
         /\ Run(l, RunOf(l, j + 1), j + 1) = Append(Run(l, RunOf(l, j + 1), j), l[j + 1])
<1>1. ASSUME NEW n \in Nat, n # RunOf(l, j + 1) PROVE Run(l, n, j + 1) = Run(l, n, j)
  <2>1. Piece(l, n, j + 1) = <<>>
    BY <1>1 DEF Piece
  <2> QED
    BY <2>1, RunStays
<1>2. Run(l, RunOf(l, j + 1), j + 1) = Append(Run(l, RunOf(l, j + 1), j), l[j + 1])
  <2> DEFINE n == RunOf(l, j + 1)
  <2>1. Piece(l, n, j + 1) = <<l[j + 1]>>
    BY DEF Piece
  <2>2. Run(l, n, j) \in Typed /\ l[j + 1] \in Strings
    BY RunIs
  <2>3. Run(l, n, j + 1) = Run(l, n, j) \o <<l[j + 1]>>
    BY <2>1, RunGrows
  <2> HIDE DEF n
  <2>4. Run(l, n, j) \o <<l[j + 1]>> = Append(Run(l, n, j), l[j + 1])
    BY <2>2 DEF Typed
  <2> QED
    BY <2>3, <2>4 DEF n
<1> QED
  BY <1>1, <1>2

LEMMA QuoteIsNoSpace == Quote # SpaceChar
  BY DEF Quote, SpaceChar

(* What SplitStep does at a space that ends a run,                         *)
LEMMA KeptEnds ==
  ASSUME NEW l \in Seq(Strings), NEW j \in 0..(Len(l) - 1), Ahead(l, j), Ends(l, j + 1)
  PROVE  SplitStep(Kept(l, j), l[j + 1]) = Kept(l, j + 1) /\ Ahead(l, j + 1)
<1> DEFINE b == RunOf(l, j + 1)
<1>1. b \in Nat \ {0} /\ RunOf(l, j + 2) = b + 1 /\ (j + 1) + 1 = j + 2 /\ j \in 0..Len(l) /\ j + 1 \in 0..Len(l)
  BY RunOfMoves
<1>2. l[j + 1] = SpaceChar /\ Open(l, j + 1) /\ Open(l, j + 2)
  <2>1. l[j + 1] = SpaceChar /\ Open(l, j + 1)
    BY DEF Ends
  <2>2. l[j + 1] # Quote
    BY <2>1, QuoteIsNoSpace
  <2>3. Open(l, j + 2) <=> Open(l, j + 1)
    BY <2>2, OpenMoves
  <2> QED
    BY <2>1, <2>3
<1>3. \A n \in Nat : Run(l, n, j + 1) = Run(l, n, j)
  BY NoPiece
<1>4. \A n \in Nat : n > b => Run(l, n, j) = <<>>
  BY DEF Ahead
<1> DEFINE w == Run(l, b, j)
           r == Runs(l, b - 1, j)
<1>5. w \in Typed /\ r \in Seq(Typed) /\ Program \in Typed
  BY KeptIs, ProgramIs, <1>1
<1> HIDE DEF b
<1>6. Runs(l, b, j + 1) = r \o Part(w)
  <2>1. Runs(l, b, j + 1) = Runs(l, b, j)
    BY <1>1, <1>3, RunsStay
  <2>2. Runs(l, (b - 1) + 1, j) = r \o Part(w)
    <3>1. b - 1 \in Nat /\ (b - 1) + 1 = b
      BY <1>1
    <3> QED
      BY <1>1, <3>1, OneRunMore
  <2>3. (b - 1) + 1 = b
    BY <1>1
  <2> QED
    BY <2>1, <2>2, <2>3
<1>7. Kept(l, j + 1) = [args |-> <<Program>> \o (r \o Part(w)), arg |-> <<>>, in_quote |-> FALSE]
  <2>1. Run(l, b + 1, j + 1) = <<>>
    BY <1>1, <1>3, <1>4
  <2>2. (b + 1) - 1 = b
    BY <1>1
  <2>3. Kept(l, j + 1) = [args |-> <<Program>> \o Runs(l, (b + 1) - 1, j + 1),
                          arg |-> Run(l, b + 1, j + 1), in_quote |-> ~Open(l, j + 2)]
    BY <1>1 DEF Kept
  <2> HIDE DEF r, w
  <2> QED
    BY <1>2, <1>6, <2>1, <2>2, <2>3
<1>8. Kept(l, j) = [args |-> <<Program>> \o r, arg |-> w, in_quote |-> FALSE]
  BY <1>2 DEF Kept, b
<1> HIDE DEF r, w
<1>9. (IF w = <<>> THEN <<Program>> \o r ELSE Append(<<Program>> \o r, w)) = <<Program>> \o (r \o Part(w))
  <2> HIDE DEF Typed
  <2> QED
    BY <1>5 DEF Part
<1> DEFINE a == <<Program>> \o r
           more == IF w = <<>> THEN a ELSE Append(a, w)
<1>10. SplitStep(Kept(l, j), l[j + 1]) = [args |-> more, arg |-> <<>>, in_quote |-> FALSE]
  <2>1. Kept(l, j) = [args |-> a, arg |-> w, in_quote |-> FALSE]
    BY <1>8
  <2> HIDE DEF a
  <2>2. SplitStep(Kept(l, j), SpaceChar)
          = [[args |-> a, arg |-> w, in_quote |-> FALSE] EXCEPT !.args = more, !.arg = <<>>]
    BY <2>1 DEF SplitStep
  <2> HIDE DEF more
  <2> QED
    BY <1>2, <2>2
<1>11. Ahead(l, j + 1)
  <2> SUFFICES ASSUME NEW n \in Nat, n > b + 1 PROVE Run(l, n, j + 1) = <<>>
    BY <1>1 DEF Ahead
  <2> QED
    BY <1>1, <1>3, <1>4
<1> QED
  BY <1>7, <1>9, <1>10, <1>11

(* at a quote,                                                             *)
LEMMA KeptQuotes ==
  ASSUME NEW l \in Seq(Strings), NEW j \in 0..(Len(l) - 1), Ahead(l, j), l[j + 1] = Quote
  PROVE  SplitStep(Kept(l, j), l[j + 1]) = Kept(l, j + 1) /\ Ahead(l, j + 1)
<1> DEFINE b == RunOf(l, j + 1)
<1>a. ~Ends(l, j + 1)
  BY QuoteIsNoSpace DEF Ends
<1>1. b \in Nat \ {0} /\ RunOf(l, j + 2) = b /\ (j + 1) + 1 = j + 2
  BY <1>a, RunOfMoves
<1>2. Open(l, j + 2) <=> ~Open(l, j + 1)
  BY OpenMoves
<1>3. \A n \in Nat : Run(l, n, j + 1) = Run(l, n, j)
  BY NoPiece
<1>4. \A n \in Nat : n > b => Run(l, n, j) = <<>>
  BY DEF Ahead
<1> DEFINE w == Run(l, b, j)
           r == <<Program>> \o Runs(l, b - 1, j)
           q == ~Open(l, j + 1)
<1>5. Runs(l, b - 1, j + 1) = Runs(l, b - 1, j)
  <2>1. b - 1 \in Nat
    BY <1>1
  <2> QED
    BY <1>3, <2>1, RunsStay
<1>6. Kept(l, j) = [args |-> r, arg |-> w, in_quote |-> q]
  BY DEF Kept
<1>7. Kept(l, j + 1) = [args |-> r, arg |-> w, in_quote |-> ~q]
  <2>1. Kept(l, j + 1) = [args |-> <<Program>> \o Runs(l, b - 1, j + 1),
                          arg |-> Run(l, b, j + 1), in_quote |-> ~Open(l, j + 2)]
    BY <1>1 DEF Kept
  <2>2. Run(l, b, j + 1) = w
    BY <1>1, <1>3
  <2>3. (~Open(l, j + 2)) = ~q
    BY <1>2 DEF Open
  <2> HIDE DEF b, q
  <2> QED
    BY <1>5, <2>1, <2>2, <2>3
<1> HIDE DEF r, w, q, b
<1>8. SplitStep([args |-> r, arg |-> w, in_quote |-> q], Quote) = [args |-> r, arg |-> w, in_quote |-> ~q]
  BY DEF SplitStep, Quote, SpaceChar
<1>9. Ahead(l, j + 1)
  BY <1>1, <1>3, <1>4 DEF Ahead
<1> QED
  BY <1>6, <1>7, <1>8, <1>9

(* and at a character of a run, a quoted space among them.                 *)
LEMMA KeptGrows ==
  ASSUME NEW l \in Seq(Strings), NEW j \in 0..(Len(l) - 1), Ahead(l, j),
         ~Ends(l, j + 1), l[j + 1] # Quote
  PROVE  SplitStep(Kept(l, j), l[j + 1]) = Kept(l, j + 1) /\ Ahead(l, j + 1)
<1> DEFINE b == RunOf(l, j + 1)
<1>1. b \in Nat \ {0} /\ RunOf(l, j + 2) = b /\ (j + 1) + 1 = j + 2
  BY RunOfMoves
<1>2. Open(l, j + 2) <=> Open(l, j + 1)
  BY OpenMoves
<1>3. /\ \A n \in Nat : n # b => Run(l, n, j + 1) = Run(l, n, j)
      /\ Run(l, b, j + 1) = Append(Run(l, b, j), l[j + 1])
  BY OnePiece
<1>4. \A n \in Nat : n > b => Run(l, n, j) = <<>>
  BY DEF Ahead
<1> DEFINE w == Run(l, b, j)
           r == <<Program>> \o Runs(l, b - 1, j)
           q == ~Open(l, j + 1)
           c == l[j + 1]
<1>5. Runs(l, b - 1, j + 1) = Runs(l, b - 1, j)
  <2>1. b - 1 \in Nat /\ \A n \in 1..(b - 1) : n \in Nat /\ n # b
    BY <1>1
  <2> QED
    BY <1>3, <2>1, RunsStay
<1>6. Kept(l, j) = [args |-> r, arg |-> w, in_quote |-> q]
  BY DEF Kept
<1>7. Kept(l, j + 1) = [args |-> r, arg |-> Append(w, c), in_quote |-> q]
  <2>1. Kept(l, j + 1) = [args |-> <<Program>> \o Runs(l, b - 1, j + 1),
                          arg |-> Run(l, b, j + 1), in_quote |-> ~Open(l, j + 2)]
    BY <1>1 DEF Kept
  <2>2. Run(l, b, j + 1) = Append(w, c)
    BY <1>3
  <2>3. (~Open(l, j + 2)) = q
    BY <1>2 DEF Open
  <2> HIDE DEF b, q, c, w
  <2> QED
    BY <1>5, <2>1, <2>2, <2>3
<1>8. c # Quote /\ ~(c = SpaceChar /\ ~q)
  BY DEF Ends
<1> HIDE DEF r, w, q, b, c
<1>9. SplitStep([args |-> r, arg |-> w, in_quote |-> q], c) = [args |-> r, arg |-> Append(w, c), in_quote |-> q]
  BY <1>8 DEF SplitStep
<1>10. Ahead(l, j + 1)
  BY <1>1, <1>3, <1>4 DEF Ahead
<1> QED
  BY <1>6, <1>7, <1>9, <1>10 DEF c

(* Behind the program's name and a space nothing has been read of l.       *)
LEMMA KeptAtFirst ==
  ASSUME NEW l
  PROVE  Kept(l, 0) = [args |-> <<Program>>, arg |-> <<>>, in_quote |-> FALSE] /\ Ahead(l, 0)
<1>1. RunOf(l, 1) = 1 /\ Open(l, 1) /\ 0 + 1 = 1 /\ 1 - 1 = 0
  BY AtFirst
<1>2. \A n : Run(l, n, 0) = <<>>
  <2> SUFFICES ASSUME NEW n PROVE Run(l, n, 0) = <<>>
    OBVIOUS
  <2>1. [k \in 1..0 |-> Piece(l, n, k)] = <<>>
    OBVIOUS
  <2> QED
    BY <2>1, FlattenEmpty DEF Run
<1>3. Runs(l, 0, 0) = <<>>
  <2>1. [n \in 1..0 |-> Part(Run(l, n, 0))] = <<>>
    OBVIOUS
  <2> QED
    BY <2>1, FlattenEmpty DEF Runs
<1>4. <<Program>> \o <<>> = <<Program>>
  OBVIOUS
<1>5. Kept(l, 0) = [args |-> <<Program>> \o Runs(l, 0, 0), arg |-> Run(l, 1, 0), in_quote |-> ~Open(l, 1)]
  BY <1>1 DEF Kept
<1>6. Kept(l, 0) = [args |-> <<Program>>, arg |-> <<>>, in_quote |-> FALSE]
  BY <1>1, <1>2, <1>3, <1>4, <1>5
<1> QED
  BY <1>2, <1>6 DEF Ahead

LEMMA KeptMoves ==
  ASSUME NEW l \in Seq(Strings), NEW j \in 0..(Len(l) - 1), Ahead(l, j)
  PROVE  SplitStep(Kept(l, j), l[j + 1]) = Kept(l, j + 1) /\ Ahead(l, j + 1)
BY KeptEnds, KeptQuotes, KeptGrows

(* In the program's name nothing ends and nothing is quoted.               *)
LEMMA NameIsKept ==
  ASSUME NEW ws \in Seq(Strings), NEW h,
         Splits(ws, [args |-> <<>>, arg |-> <<>>, in_quote |-> FALSE], h),
         Len(Program) <= Len(ws), \A k \in 1..Len(Program) : ws[k] = Program[k]
  PROVE  h[Len(Program)] = [args |-> <<>>, arg |-> Program, in_quote |-> FALSE]
<1> DEFINE n == Len(Program)
           At(k) == [args |-> <<>>, arg |-> SubSeq(Program, 1, k), in_quote |-> FALSE]
           T == {k \in Nat : k <= n => h[k] = At(k)}
<1>1. n \in Nat /\ Program \in Seq(Strings)
  BY ProgramIs DEF Typed
<1>2. 0 \in T
  <2>1. SubSeq(Program, 1, 0) = <<>>
    OBVIOUS
  <2>2. h[0] = [args |-> <<>>, arg |-> <<>>, in_quote |-> FALSE]
    BY DEF Splits
  <2> QED
    BY <2>1, <2>2
<1>3. ASSUME NEW k \in Nat, k \in T PROVE k + 1 \in T
  <2> SUFFICES ASSUME k + 1 <= n PROVE h[k + 1] = At(k + 1)
    OBVIOUS
  <2>1. k + 1 \in 1..n /\ k + 1 \in 1..Len(ws) /\ (k + 1) - 1 = k
    BY <1>1
  <2>2. h[k] = At(k)
    BY <1>1, <1>3
  <2> DEFINE c == Program[k + 1]
             w == SubSeq(Program, 1, k)
  <2>3. h[k + 1] = SplitStep(At(k), c)
    BY <2>1, <2>2 DEF Splits
  <2>4. c # SpaceChar /\ c # Quote
    BY <2>1, ProgramIs
  <2>5. SubSeq(Program, 1, k + 1) = Append(w, c)
    BY <1>1, <2>1, PrefixGrows
  <2> HIDE DEF c, w
  <2>6. SplitStep([args |-> <<>>, arg |-> w, in_quote |-> FALSE], c)
          = [args |-> <<>>, arg |-> Append(w, c), in_quote |-> FALSE]
    BY <2>4 DEF SplitStep
  <2> QED
    BY <2>3, <2>5, <2>6 DEF w
<1>4. \A k \in Nat : k \in T
  <2> HIDE DEF T
  <2> QED
    BY <1>2, <1>3, InductionOnNat
<1>5. h[n] = At(n)
  <2> HIDE DEF n
  <2>1. n \in T
    <3> HIDE DEF T
    <3> QED
      BY <1>1, <1>4
  <2>2. n <= n
    BY <1>1
  <2> HIDE DEF At
  <2> QED
    BY <2>1, <2>2
<1>6. SubSeq(Program, 1, n) = Program
  BY <1>1
<1> QED
  BY <1>5, <1>6

(* Behind it, what is kept is what the line says so far.                   *)
LEMMA LineIsKept ==
  ASSUME NEW l \in Seq(Strings), NEW ws \in Seq(Strings), NEW h, NEW o, Splits(ws, o, h),
         NEW m \in Nat, Len(ws) = m + Len(l), h[m] = Kept(l, 0),
         \A j \in 1..Len(l) : ws[m + j] = l[j]
  PROVE  h[Len(ws)] = Kept(l, Len(l))
<1> DEFINE T == {j \in Nat : j <= Len(l) => h[m + j] = Kept(l, j) /\ Ahead(l, j)}
<1>1. 0 \in T
  <2>1. Ahead(l, 0)
    BY KeptAtFirst
  <2>2. m + 0 = m
    OBVIOUS
  <2> QED
    BY <2>1, <2>2
<1>2. ASSUME NEW j \in Nat, j \in T PROVE j + 1 \in T
  <2> SUFFICES ASSUME j + 1 <= Len(l) PROVE h[m + (j + 1)] = Kept(l, j + 1) /\ Ahead(l, j + 1)
    OBVIOUS
  <2>1. /\ j \in 0..(Len(l) - 1) /\ j + 1 \in 1..Len(l) /\ m + (j + 1) \in 1..Len(ws)
        /\ (m + (j + 1)) - 1 = m + j
    OBVIOUS
  <2>2. h[m + j] = Kept(l, j) /\ Ahead(l, j)
    BY <1>2, <2>1
  <2>3. h[m + (j + 1)] = SplitStep(Kept(l, j), l[j + 1])
    BY <2>1, <2>2 DEF Splits
  <2> QED
    BY <2>1, <2>2, <2>3, KeptMoves
<1> HIDE DEF T
<1>3. \A j \in Nat : j \in T
  BY <1>1, <1>2, InductionOnNat
<1>4. Len(l) \in Nat /\ m + Len(l) = Len(ws)
  OBVIOUS
<1> QED
  BY <1>3, <1>4 DEF T

(* What a line says is what has been read at its end.                      *)
LEMMA WrittenIs == ASSUME NEW l \in Seq(Strings) PROVE Written(l) = Runs(l, RunOf(l, Len(l) + 1), Len(l))
<1>1. DOMAIN l = 1..Len(l)
  OBVIOUS
<1> QED
  BY <1>1 DEF Written, Runs, Run, Piece, Part

(* A line is split into the words it says.                                 *)
LEMMA SplitsAsWritten ==
  ASSUME NEW l \in Seq(Strings)
  PROVE  SplitCommand(Program \o <<SpaceChar>> \o l) = <<Program>> \o Written(l)
<1> DEFINE ws == Program \o <<SpaceChar>> \o l
           o == [args |-> <<>>, arg |-> <<>>, in_quote |-> FALSE]
           P == Len(Program)
           L == Len(l)
<1>1. Program \in Seq(Strings) /\ Program # <<>> /\ P \in Nat /\ L \in Nat /\ SpaceChar \in Strings
  <2>1. SpaceChar \in Strings
    BY Zenon DEF Strings, SpaceChar
  <2> QED
    BY <2>1, ProgramIs DEF Typed
<1>2. /\ ws \in Seq(Strings) /\ Len(ws) = (P + 1) + L /\ ws[P + 1] = SpaceChar
      /\ \A k \in 1..P : ws[k] = Program[k]
      /\ \A j \in 1..L : ws[(P + 1) + j] = l[j]
  <2> HIDE DEF Strings, SpaceChar
  <2> QED
    BY <1>1
<1> HIDE DEF ws
<1>3. o \in Halves
  <2>1. <<>> \in Seq(Typed) /\ <<>> \in Typed
    BY DEF Typed
  <2> HIDE DEF Typed
  <2> QED
    BY <2>1 DEF Halves
<1>4. PICK h : Splits(ws, o, h)
  BY <1>2, <1>3, SplitsInTurn
<1>5. h[P] = [args |-> <<>>, arg |-> Program, in_quote |-> FALSE]
  <2>1. P <= Len(ws)
    BY <1>1, <1>2
  <2> QED
    BY <1>2, <1>4, <2>1, NameIsKept
<1>6. h[P + 1] = Kept(l, 0)
  <2>1. P + 1 \in 1..Len(ws) /\ (P + 1) - 1 = P
    BY <1>1, <1>2
  <2>2. h[P + 1] = SplitStep([args |-> <<>>, arg |-> Program, in_quote |-> FALSE], SpaceChar)
    BY <1>2, <1>4, <1>5, <2>1 DEF Splits
  <2>3. SplitStep([args |-> <<>>, arg |-> Program, in_quote |-> FALSE], SpaceChar)
          = [args |-> Append(<<>>, Program), arg |-> <<>>, in_quote |-> FALSE]
    BY <1>1 DEF SplitStep
  <2>4. Append(<<>>, Program) = <<Program>>
    OBVIOUS
  <2> QED
    BY <2>2, <2>3, <2>4, KeptAtFirst
<1>7. h[Len(ws)] = Kept(l, L)
  <2>1. P + 1 \in Nat
    BY <1>1
  <2> QED
    BY <1>2, <1>4, <1>6, <2>1, LineIsKept
<1> DEFINE b == RunOf(l, L + 1)
           w == Run(l, b, L)
           r == Runs(l, b - 1, L)
<1>8. FoldLeft(SplitStep, o, ws) = [args |-> <<Program>> \o r, arg |-> w, in_quote |-> ~Open(l, L + 1)]
  BY <1>4, <1>7 DEF Splits, Kept
<1>9. SplitCommand(ws) = IF w = <<>> THEN <<Program>> \o r ELSE Append(<<Program>> \o r, w)
  <2> DEFINE s == FoldLeft(SplitStep, o, ws)
  <2>1. SplitCommand(ws) = IF s.arg = <<>> THEN s.args ELSE Append(s.args, s.arg)
    BY DEF SplitCommand
  <2> HIDE DEF s
  <2>2. s.args = <<Program>> \o r /\ s.arg = w
    BY <1>8 DEF s
  <2> QED
    BY <2>1, <2>2
<1>10. Written(l) = r \o Part(w)
  <2>1. b - 1 \in Nat /\ (b - 1) + 1 = b
    BY <1>1, RunOfMoves
  <2>2. L \in 0..Len(l)
    BY <1>1
  <2>3. Runs(l, (b - 1) + 1, L) = Runs(l, b - 1, L) \o Part(Run(l, (b - 1) + 1, L))
    BY <2>1, <2>2, OneRunMore
  <2> QED
    BY <2>1, <2>3, WrittenIs
<1>11. r \in Seq(Typed) /\ w \in Typed /\ Program \in Typed
  <2>1. L \in 0..Len(l)
    BY <1>1
  <2> QED
    BY <2>1, KeptIs, ProgramIs
<1> HIDE DEF r, w
<1>12. (IF w = <<>> THEN <<Program>> \o r ELSE Append(<<Program>> \o r, w)) = <<Program>> \o (r \o Part(w))
  <2> HIDE DEF Typed
  <2> QED
    BY <1>11 DEF Part
<1> QED
  BY <1>9, <1>10, <1>12 DEF ws

(* EnterLine is the one action that has a shell execute words.             *)
LEMMA EnteredAsWritten ==
  ASSUME EnterLine PROVE words' = <<Program>> \o WrittenLines[line']
<1>1. PICK l \in Lines : line' = l /\ words' = Split[l]
  BY ShellAssumption DEF EnterLine
<1>2. l \in Seq(Strings)
  <2>1. STRING \subseteq Strings
    BY Zenon DEF Strings
  <2>2. l \in Seq(STRING)
    BY ShellAssumption
  <2>3. \A A, B : A \subseteq B => Seq(A) \subseteq Seq(B)
    OBVIOUS
  <2> QED
    BY <2>1, <2>2, <2>3
<1>3. Split[l] = <<Program>> \o Written(l)
  BY <1>2, SplitsAsWritten DEF Split
<1> QED
  BY <1>1, <1>3 DEF WrittenLines

LEMMA WordsStep == ASSUME WordsAsWritten, [ShellNext]_allVars PROVE WordsAsWritten'
<1>1. CASE EnterLine
  BY <1>1, EnteredAsWritten DEF WordsAsWritten
<1>2. CASE RunOnce
  BY <1>2 DEF RunOnce, WordsAsWritten
<1>3. ASSUME turn' \in {"prompt", "ended", "lsp", "parse"} PROVE WordsAsWritten'
  BY <1>3 DEF WordsAsWritten
<1>4. ASSUME UNCHANGED mainVars PROVE WordsAsWritten'
  BY <1>4 DEF mainVars, WordsAsWritten
<1>5. CASE LeaveShell
  BY <1>3, <1>5 DEF LeaveShell
<1>6. CASE Perform
  BY <1>3, <1>6 DEF Perform, BackTo
<1>7. CASE PerformLsp
  BY <1>3, <1>7 DEF PerformLsp
<1>8. CASE LspStep
  BY <1>3, <1>4, <1>8 DEF LspStep, BackTo
<1>9. CASE PerformParse
  BY <1>3, <1>9 DEF PerformParse
<1>10. CASE ParsingStep
  BY <1>4, <1>10 DEF ParsingStep
<1>11. CASE ParseOver
  BY <1>3, <1>11 DEF ParseOver, BackTo
<1>12. CASE Embedding
  BY <1>4, <1>12 DEF Embedding
<1>13. CASE UNCHANGED allVars
  BY <1>4, <1>13 DEF allVars
<1> QED
  BY <1>1, <1>2, <1>5, <1>6, <1>7, <1>8, <1>9, <1>10, <1>11, <1>12, <1>13 DEF ShellNext

(* SplitCommand (exe/src/main.cc:9-29, 89), for any program name without a *)
(* space or a quote and any line, with quotes that are left open or stand  *)
(* inside words: the words a shell executes are those the line says.       *)
THEOREM WordsAreAsWritten == ShellSpec => []WordsAsWritten
<1>1. ShellInit => WordsAsWritten
  BY DEF ShellInit, WordsAsWritten
<1>2. WordsAsWritten /\ [ShellNext]_allVars => WordsAsWritten'
  BY WordsStep
<1> QED
  BY <1>1, <1>2, PTL DEF ShellSpec
=============================================================================
