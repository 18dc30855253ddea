# Verification of no3

no3 is the command line of the Nitrate toolchain: a language server, a package
initialiser, a source formatter and some smaller commands behind one library,
`libno3`. This directory holds TLA+ models of its stateful parts, the TLC runs
that check them, and TLAPS proofs: about what threads and processes share (the
thread pool, the language server and its stream, the library's reference count,
the directories that init commands create packages in), about what a command
leaves behind when its steps fail (files, descriptors, subscribers of the log),
and about what the algorithms over texts compute (framing, positions in a
document, the words of a command line, edit distances, generated texts).

Paths below are relative to `src/lib/src/` unless they start with `src/`.
`PROJECT.json` maps every definition to the lines it models.

1. [The system](#1-the-system)
2. [The modules](#2-the-modules)
3. [The runs](#3-the-runs)
4. [Fairness](#4-fairness)
5. [The proofs](#5-the-proofs)
6. [What the code does that its text does not say](#6-what-the-code-does-that-its-text-does-not-say)
7. [What is not modelled](#7-what-is-not-modelled)
8. [Plan](#8-plan)

## 1. The system

| component | state | operations | talks to | hard part | correct means |
|---|---|---|---|---|---|
| Thread pool, `lsp/server/ThreadPool` | job queue, threads, stop flags | Start, Schedule, WaitForAll, Empty, Stop, ThreadLoop | called by the scheduler; its threads call back into it | threads poll, stop is seen only between jobs | no job lost or run twice; FIFO start; destroyed means everything ran |
| Request scheduler, `lsp/server/Scheduler` | Context, pool, exit flag | Schedule, IsExitRequested, destructor | Server, Context, pool | some messages on the main thread, some on the pool; unguarded flag; destruction order | completions see a fresh document; exit is honoured |
| Server loop, `lsp/server/Server` | running state, failure count | Start, Suspend, Resume, Stop, destructor | reader, scheduler | end of stream, successive failures | ends when it must and only then |
| Message reader, `lsp/server/ReadMessage` | the input stream | ReadRequest | Server; shares its stream with those who send | framing by declared length; recovery after a bad frame; a stream that others write to | nothing made up, good prefix read frame by frame |
| Request context and routes, `lsp/server/Context`, `lsp/support/route` | lifecycle and trace flags, exit flag, output stream, a log subscriber | ExecuteRPC, one handler per method, SendMessage | document store, output, log | several threads at once, life cycle; sending logs, and logging sends | one answer per request at most, nothing served before `initialize`, frames whole |
| Document store and files, `lsp/resource` | documents by URI, each an immutable text | DidOpen, DidChange(s), DidClose, DidSave, GetFile; GetOffset, GetLC | handlers | UTF-8 bytes against UTF-16 columns, three line ends, edits half applied | the server's text is the client's |
| Protocol objects, `lsp/protocol` | none | - | all of the above | - | - |
| Connections, `lsp/connect` | file descriptors | OpenConnection: ConnectToStdio, ConnectToTcpPort | lsp command | six system calls, each of which may fail | nothing stays open after a failure |
| lsp command, `lsp/Run.cc` | the log's subscribers while serving | options, connection, log file, server | connections, Server, log, the C library's option parser | silence the log on stdout, restore it whatever fails; a parser that remembers the last command | options honoured, log as before afterwards |
| Interpreter, `core/cli/Interpreter` | the log's subscribers while alive | constructor, Execute, assignment, destructor; the table of commands | every command, log | nested instances, destroyed in any order | active subscribers resumed |
| Library initialisation, `core/cli/Start.cc` | atomic counter, library states | OpenLibrary, copy, move, assign, destroy | runtime libraries | counter outside the mutex; a library fails half way | libraries up exactly while there are handles |
| Option parsing, `core/cli/GetOpt` | a mutex, the C library's `optind` | GetOptions | commands | state that outlives a command | a command reads its own options |
| init command, `init/` | the output directory, a directory tree | options, name and licence, output directory; choose a path, create files, repository, clean up | file system, SPDX, manifest object | other processes between check and use; failures; kills; names in a dozen texts | old packages untouched, what is reported is true, manifest and texts as asked |
| format command, `format/core/Run.cc` | files | options, directories, configuration, listing, FormatFile on each file | file system, formatter tree, manifest | refusals at every call, stream errors, rename, kills | the source is never lost; success is true; a failure stays with its file |
| Formatter tree, `format/tree` | none yet | a visitor per syntax node, all of them empty | parser library | success is an error flag that nobody raises | what is reported as formatted is formatted |
| Package manifest, `core/package` | the document no3.json, the manifest object | VerifyUntrustedJSON, FromJson, ToJson, IsValidName, IsValidLicense, setters | init, format, `impl config-check` | narrowing, what is verified against what is converted | what is accepted can be read; the round trip |
| `impl config-check`, `impl/ConfigParse.cc` | the output file | read, check, write the manifest | manifest | truncation, refusals, kills | the rewritten manifest reads as the one before |
| `impl parse`, `impl/DumpAST.cc` | the output file | options; each source read, parsed, written | parser library | the output is opened anew for every source | the output is the whole tree of the last source |
| SPDX, `core/static` | a table | exact match, closest identifier, licence text from a service | init, manifest | ties in a hash table, fallback when a part matches | the spelling suggested is the nearest |
| Version, `version/Run.cc` | none | choice of components, report | libraries | - | what is asked for is reported, once each |
| Executable, `src/exe/src/main.cc` | history, exit code | one command or the shell, splitting of a line | interpreter | one process, many commands | a line is the words it says |
| build, clean, doc, find, install, remove, test, update | none | log that they are not implemented, answer false | - | - | - |

**A message's way.** `Server::Start` reads a message on the main thread and
hands it to `Scheduler::Schedule`. `$/setTrace` and `textDocument/completion`
become jobs of the thread pool; every other message waits until the *queue* is
empty (not until the jobs taken from it have ended) and is then executed by the
main thread itself. Either way `Context::ExecuteRPC` runs the handler, the
handler reads or writes the document store under the store's mutex, and a
response is written under the output mutex. When `Start` returns, `~Server`
destroys the scheduler's members: the Context first, then the pool.

## 2. The modules

    JobQueue <----- refines ---- PoolUse ---- EXTENDS ---> ThreadPool
                                    ^                          ^
    ThreadProofs -- EXTENDS --------+                          |
         |                                                     |
         +--------- EXTENDS --> LibraryRC                      |
                                                               |
    LspProofs -- EXTENDS --> LspServer --- EXTENDS ------------+
                                 |
                                 +-------- EXTENDS --> LspContext

    FrameChannel <- refines - LspStream -- EXTENDS --> MessageReader
    StreamProofs -- EXTENDS --> LspStream
                              (what LspServer's `input' and `Send' stand for)
    TextProofs -- EXTENDS --> TextDocument -- EXTENDS --> TextPosition
                              (what LspContext's `log' stands for)
    ShellProofs -- EXTENDS --> Shell -- EXTENDS --> LspCommand, ImplParse, Version
    LspCommand -- EXTENDS --> LogSubscribers <-- EXTENDS -- InterpreterLog
    FormatProofs -- EXTENDS --> PackageCommands -- EXTENDS --> FormatFile, Manifest
    InitProofs -- EXTENDS --> InitCommand -- EXTENDS --> PackageInit, PackageTexts
    InitCommand -- INSTANCE --> ManifestObject -- EXTENDS --> Manifest
    PackageTexts -- EXTENDS --> PackageName -- EXTENDS --> Spdx
    StreamProofs, TextProofs, ShellProofs, InitProofs -- EXTENDS --> Recursion

Modules named `MC...` give the constants values for TLC. Operators whose name
is another operator's with a suffix (`WorkerTakeWithoutPop` next to
`WorkerTake`) are deliberately wrong variants: each property is shown to fail
when one of them takes the place of the real one.

### ThreadPool, PoolUse, JobQueue

`ThreadPool` has the queue (`jobs`), each thread's place in `ThreadLoop` (`wpc`),
its local `job` (`held`) and the stop flag. There is one operator for each
critical section of `m_queue_mutex` and one for the read of the stop token. The
flags of all threads are raised under the mutex; as a thread that saw its flag
late is one that looked before, raising them is one step.

`PoolUse` adds the owner: Start once, then Schedule and WaitForAll any number of
times, then the destructor. A job is the number of its Schedule call.
`finished` is the set of jobs whose call has returned.

`JobQueue` is the promise without threads: submitted jobs begin in order, each
once, may overlap and end in any order, and the queue is gone only when nothing
waits and nothing runs. `PoolUse` implements it by the mapping `waiting <- jobs`,
`running <- ` the jobs held, `ended <- finished`, `gone <- ` the destructor has
returned.

### LspContext, LspServer

`LspContext` is the Context and its handlers. One action is one handler's effect
on shared state: the handlers' other work is on locals, and only the log
subscriber (`LspStream`, with the flags held fixed) can tell two flag writes of
one handler apart. `didChange` is the
exception: each content change is a call of its own into the store, so it is one
step per change, and it stops at the first that is refused, with the earlier
ones in place. The document is its `log`, the writes that succeeded, each with
the number of its message: freshness and order are visible there and text is
not needed. `ExecuteRPC` copies the exit flag before it sends the response;
this copy and the sending are steps of their own (`Peek`, `Send`).

`LspServer` composes Context, pool, scheduler and loop. `input` is what the
calls of `ReadRequest` return, `closing` says whether the client then closes the
stream. A job is the position of its message in `input`. `rd` counts the reads;
`mpc` is the main thread's place. The update of the scheduler's exit flag,
`m_exit_requested = exit_requested || m_exit_requested`, is a load and a store
(`LoadExit`, `StoreExit`): the variable is atomic, the two accesses together are
not, and no lock is held on the pool's threads (Scheduler.cc:108, :124).

Using a Context that has been destroyed is undefined behaviour; the completions
that still do find the old values or take the process down (`WorkerAbort`).

Abstractions: there is one document; payloads are reduced to what decides a
branch (`value`, `edits`); a release build is assumed (assertions off). A
message is its method: a known method sent as the wrong kind (a notification
`textDocument/completion`) ends in the same "unknown method" branch as an
unknown one, and is represented by it on the main thread only.

### TextPosition, TextDocument

`TextPosition` is `File::GetOffset`, `File::GetLC` and the normalisation of line
ends as recursive functions over UTF-8 bytes, next to a definition of `Position`
that does not scan: line ends before a place, UTF-16 units since the last.
`TextDocument` runs a server and a client side by side: the client edits
*characters* and describes its edits in lines and columns, the server applies
them to *bytes*. `DidEditElsewhere` is a client whose positions fit some other
text; after it only the unconditional properties apply.

### MessageReader, FrameChannel, LspStream

`ReadHttpMessage` is `ParseHttpMessage` and `ParseHttpHeader` over a stream of
atoms: length headers, other headers, text without a colon, pieces of JSON and
line ends, each of length 1. A frame's body may look like a head, be shorter or
longer than declared, have several lengths, none or a negative one.
`FrameChannel` promises that every read takes exactly one frame and that frames
do not influence each other; the reader implements it up to the first wrong
frame, for whatever follows.

`LspStream` puts the reader and the senders on the one stream they share, which
has one state: once a read has met the end or the system has refused a write
(`spoilt`), nothing more is written, and nothing more is read either. The main
thread reads or executes what must not run beside others, the workers execute
the rest. `SendMessage` is its steps: take `m_os_lock`, insert the pieces of the
frame, give the lock back, and log the transmission. What is logged at or above
the level reaches the log subscriber, which sends `$/logTrace` by the same
`SendMessage`. The level is chosen once; `LspContext` models how it changes.

### LibraryRC

`counter` is the atomic; `libs` counts initialisations minus
deinitialisations. `OpenLibrary` increments *before* it takes the mutex to
initialise, the destructor decrements *before* it deinitialises, so each is two
steps. The copy and move members are as the header has them, including that an
assignment does not give back what its target held; no handle is assigned to
itself. The user's callback is left out. Bounds: `MaxLost` references lost, and
nothing is explored after a failed initialisation has reset a counter that
counted others (`forgotten`).

### LogSubscribers, LspCommand

`LogSubscribers` is the log's list of subscribers and which are suspended, as
`Interpreter.cc` and `lsp/Run.cc` use it (the log itself is a library outside
the repository): construction and destruction of interpreters, nested and in any
order, and the silencing of the log while the server uses standard output.

`InterpreterLog` is these subscribers under a program that executes nothing;
it remembers who heard the log before each interpreter.

`LspCommand` composes the log with the command: the parsing of options word by
word as `getopt_long` does it, with the place it keeps between commands
(`optind`) and its pointer into the arguments of an earlier, freed command
(`dangling`), the check of the options, the connection with every system call of
the TCP case, the log file, and every early return. `open` is what the command
holds open. The server's work in between is one step, `LspServer`'s matter.

### ImplParse, Version, Shell

`ImplParse` is `impl parse`: its options, then each source from reading to
writing, with the output opened anew for each. A file holds a text, the tree of
a text, or nothing yet. `Version` is which components are reported for which
words.

`Shell` is the program around them: `main` with one command and its exit code,
or with a prompt; the splitting of a line into words, character by character
where quotes and spaces are concerned (every other run of characters is one
piece); the interpreter's table of commands and the one of `impl`; the history.
An lsp command goes on with `LspCommand`'s steps, a parse command with
`ImplParse`'s, and every other answers at once. Interpreters are constructed,
destroyed and assigned at any time between commands, as a program that embeds
the library may do; the interpreter that runs a command holds its program's
thread, so that nothing else happens meanwhile. The path of the program itself
is taken to be neither empty nor to have a space or a quote in it
(`ShellAssumption`).

### PackageInit, InitCommand

Each check of, and each change to, the file system is one step of a process,
with other processes in between; every step but the removal may be refused; a
process may be killed anywhere. The directories inside a package are not told
apart from it. Errors while the *content* of a file is written are unchecked in
the code and have no effect here.

`InitCommand` is the command from its first word on: what it refuses and in
which order, the spelling it suggests for a licence, the output directory, and
then `PackageInit`'s steps with the texts and the manifest. Its directories take
no step that `PackageInit` does not allow; that is proved (section 5).

### Spdx, PackageName, PackageTexts, ManifestObject

The data of init, as operators. A text is a sequence of numbers that stand for
characters, with upper case the negative of lower case. `Spdx` has the lookup
and the closest identifier over a table that is a constant: the Levenstein
distance as a recursive function, the candidates that contain the word, and the
hash table's order as a choice among equals. `PackageName` is the pattern of a
name (owner, pack, generation) with what init derives from it. `PackageTexts`
keeps of each generated text its placeholders and the values put in their place.
`ManifestObject` is the manifest object with its setters, and the object init
builds by them, written and read by `Manifest`.

### FormatFile, Manifest, PackageCommands

`FormatFile` is the function of that name on one file: parse, open (or create
the temporary file), write pieces through a buffered stream, rename or remove,
and only then close the stream, as the stream's destructor runs last. A file
holds the text from before or the first n pieces of the formatted text.
`refused` remembers which calls the system has refused. What is written depends on
the mode (`Writes`): minify and deflate write `Pieces`, of which there may be none;
the default mode writes `CanonicalPieces`, which is 0, as every visitor of the
canonical format is an empty stub and reports no error. Deflate may fail before it
writes. An exception of the parser or of a visitor ends the process wherever the
file is (`Unwind`, `FormatThrows`), as `Interpreter::Execute` is noexcept.

`Manifest` has what `VerifyUntrustedJSON` accepts, what `ObjectToInstance` makes
of it and what `ToJson` writes, over documents in which a value is either as the
schema wants it or `Bad`, and versions are sequences of numbers. `Narrow` and
`Long` stand for 2^32 and 2^64.

`PackageCommands` is the format command around them: arguments, source and
output paths, the configuration, the listing of a directory, the manifest (for
the package's name), the loop over the files in any order; and `impl
config-check` with the manifest as its own output file. The output is in place,
in place under another spelling, elsewhere, or in a directory below the source
directory, where the next run finds it as sources. config-check with another
output, or none, writes the same text to where nobody reads it, and is left out.

## 3. The runs

| run | module, config | bounds | shows |
|---|---|---|---|
| pool | MCPoolUse | 3 threads, 5 jobs | `JobsAccounted`, `GoneMeansAllFinished`, `StuckForever`, `ImplementsJobQueue`, `EveryJobFinishes`, `StopReturnsIfDrained` |
| lsp_safety | MCLspServer, MCLspSafety | 2 threads, failure limit 1, every sequence of 3 out of 13 messages and of 3 messages about an open document, and 6 messages that lose an `exit` | `FreshReads`, `EditsInOrder`, `OvertakesFew`, `AnsweredAtMostOnce`, `LifecycleRespected`, `ExitJustified` |
| lsp_liveness | MCLspServer, MCLspLive | 2 threads, failure limit 3 as in the code, `initialize` and 3 messages | `EofExits`, `AnsweredOrExited` |
| lsp_lost_exit | MCLspServer, MCLspExit | 1 thread, 3 messages | **violates** `ExitHonoured` |
| text_document | MCTextDocument | 1-, 3- and 4-byte characters, CR, LF; 4 characters, 8 bytes, 2 changes per notification | `OffsetsAreBoundaries`, `InSync`, `PositionsAgree` |
| lsp_stream | MCLspStream | the main thread and 1 worker, 2 frames out of 16, 9 of them wrong, 2 pieces per message, 1 logged line, 3 levels | `NothingMadeUp`, `FramesWhole`, `ImplementsFrameChannel`, `EverySendEnds` |
| library | LibraryRC | 3 threads, 3 handles, 2 libraries | `CountsHandles`, `QuietMeansBalanced` |
| shell | MCShell | 1 subscriber of the program, 2 interpreters, 2 commands; lsp with at most 2 words out of 8, the second with at most 1; lines of at most 4 characters out of 3; parse with at most 3 of 3 files | `OnlyLogFileOnStdout`, `NothingLeftOpen`, `FirstCommandHonoured`, `LogLeftAsFound`, `WordsAsWritten`, `OutputIsWhole` |
| interpreter_log | InterpreterLog | 2 subscribers of the program, 1 interpreter | **violates** `ActiveResumed` |
| package_init | MCInitCommand | 2 processes, 1 further attempt, 2 files, 4 identifiers; 3 commands that are accepted, 17 that are refused | `OldPackagesUntouched`, `OutcomeIsTrue`, `SpellingIsNearest`, `PackageAsAsked`, `TextsComplete` |
| format | MCPackageCommands | 2 files, one of them nested, 2 pieces, 3 modes, 4 layouts, 2 rewrites; 67 manifests | `EveryFileAccounted`, `SourceKept`, `NoLitter`, `VerifiedIsRead`, `RewriteKeepsManifest`, `ManifestKept` |
| format_std | MCPackageCommands, MCFormatStd | as format | **violates** `ReportedIsFormatted` |

Why the bounds suffice:

- *pool*: with three threads two can hold jobs while the third is between its
  check and the queue; five jobs exceed that, so that `Stuck` is reachable from
  every combination. The proofs cover all other sizes.
- *lsp_safety*: the properties relate two messages (a completion and a write, an
  exit and a later message); three messages on two threads let a third come
  between them. `OvertakesFew` needs one completion more than there are threads,
  hence the client with three of them and a write. A refusal after an `initialize` that the server
  ignored takes six messages: two completions and an `exit` that one of them
  loses, another that keeps the main thread in the loop, the `initialize` and a
  request. The threads are symmetric:
  no property names one.
- *lsp_liveness*: four messages reach the failure limit together with the end of
  the stream.
- *text_document*: one character per interesting pair of byte and unit counts;
  two characters around a line end on either side.
- *lsp_stream*: a wrong frame before and after a good one; a message whose answer
  is written by one thread while the other writes its own answer or the line it
  logged, with a second piece that could be torn from the first.
- *library*: one thread initialising, one past the counter, one deinitialising.
- *package_init*: two processes at one path and a further path to fall back on.
  Two of the three accepted commands ask for one pack, the third for another; the names cover
  every part of the pattern from both sides, and the licences a match by case, a
  part of two identifiers, an edit away from one, and a tie.
- *shell*: an option and its argument, or two options; the second command meets
  what the first has left in `optind`. Four characters are enough for a quoted
  space between pieces, an empty quotation and a quotation left open. Three files
  make an output that is a source before, between or after others.
- *format*: two pieces, so that a stream may have flushed none, a part or all;
  one file to fail and one not to; one file in the directory itself and one
  below it. The manifests are one that has nothing of interest and those that
  differ from it in one place: each number at, below and above the two limits, a
  profile, contact, dependency or block that is well or badly formed. All of
  them go through config-check, three through format, and the layouts are tried
  on one of them: what a manifest holds and where the output goes meet nowhere
  in the code.

Type invariants are not among the runs' properties. Those of the pool, of the
server, of the stream, of the library, of init, of format and of documents are
proved, alone or as part of an inductive invariant (section 5). So is every
safety property of the runs that pass; what the runs add is liveness, and that
the properties can fail.

`CHECK_DEADLOCK FALSE` is set where a behaviour ends or waits for ever by
design: a server whose client stays silent, a destroyed pool, a command or a
program that has ended, a stream that has been read, interpreters that are used
up, and the bound of `LibraryRC`. It stays on for text_document.

What the properties say is stated at each of them. Seven deserve a remark:

- `FreshReads` and `OvertakesFew` together describe what a completion may see:
  all writes of earlier messages, and possibly those of *later* ones, but a
  write is seen too early by at most one completion per thread.
- `StuckForever` is why `Stop` may hang (section 6): more jobs queued than threads
  past their stop check means the drain loop never ends. It holds of every pool.
  `StopReturnsIfDrained` says when it does return.
- `ExitJustified` is the other direction of `ExitHonoured`: the server never
  stops without a reason.
- `EditsInOrder` goes down to the content changes of one message: a `didChange`
  that fails in the middle has left its first changes in the document, without a
  gap. That it leaves any is the code's behaviour (section 6).
- `LifecycleRespected` is about an `initialize` that was *executed*. One that was
  read and still waits, or is executed at this moment, makes no difference to the
  requests on the pool's threads.
- `CountsHandles` holds up to the reset of the counter after a failure, and
  counts references that were assigned over; section 6 lists both.
- `EveryFileAccounted` and `SourceKept` speak of what the *mode* writes. In the
  default mode that is nothing, so they allow a source to be replaced by an empty
  file; format_std shows that this happens. What they do say is that a file is never
  replaced by anything else, nor by a part of it, unless a call was refused.

## 4. Fairness

- Pool and server: weak fairness of each thread's steps, the main thread
  included. The operating system runs every thread; no step waits for anything
  but a message, an empty queue or another thread's end, and in the code every
  lock is held for a bounded time. Each thread's steps form one disjunction, so
  a thread cannot be fair to one branch and neglect another. Nothing is assumed
  of the client, and of the pool's owner only that its spin loops and its join
  go on: it need not schedule or stop.
- LspStream: weak fairness of each thread's `Send` (take the lock, insert, give
  it back, log), for the same reason. Weak fairness is enough for a lock only if
  nobody takes it again and again: each holder sends a finite number of messages.
  Nothing is assumed of the client, nor that anything is read.
- Everything else (LibraryRC, Shell and what it extends, InterpreterLog,
  InitCommand, PackageCommands, TextDocument): no liveness is claimed, none
  assumed.

## 5. The proofs

`ThreadProofs`, for every finite non-empty set of threads and every number of jobs:

| theorem | states |
|---|---|
| `TypeCorrect` | `TypeOK`, of the pool |
| `EveryJobAccounted` | `JobsAccounted` |
| `DestroyedMeansFinished` | `GoneMeansAllFinished` |
| `StopNeverReturns` | `StuckForever` |
| `PoolIsJobQueue` | `ImplementsJobQueue` |

The inductive invariant is `IInv == TypeOK /\ JobsAccounted /\ Coupling`.
`JobsAccounted` alone is not inductive: that the job a thread ends was not
finished before needs that a thread holds a job exactly while it runs it, that
a new job is held by nobody needs that only started jobs are held or finished,
and that a destroyed pool has run everything needs that Stop has seen the queue
empty and, after the join, no thread running (`Coupling`). For `StuckForever`
the counting argument is a lemma: a thread leaves the set of those past the
check only by taking one job, and no thread enters it once the stop flag is up.

`LspProofs`, for every client, any number of threads and any failure limit:

| theorem | states |
|---|---|
| `TypeCorrect` | `TypeOK` |
| `CompletionsReadFresh` | `FreshReads` |

The argument: only the main thread writes the document, one message at a time
and always the last it has read, while the pool's jobs are messages read
before. `LInv` says so: jobs are concurrent messages that have been read
(`JobsAreMessages`), where the main thread is tells what the last message is
(`MainPosition`), versions were seen by concurrent messages only
(`SeenByMessages`), and every write is of an earlier message, or of the last
one and then of a change its handler has applied already (`WritesSoFar`).

The second half of `LspProofs`, from the same invariant, is about a session as
its client sees it:

| theorem | states |
|---|---|
| `DocumentInClientOrder` | `EditsInOrder` |
| `AnswersAreUnique` | `AnsweredAtMostOnce` |
| `LifecycleIsRespected` | `LifecycleRespected` |
| `ExitIsJustified` | `ExitJustified` |
| `WritesOvertakeFew` | `OvertakesFew` |

`SInv`, which is inductive together with `LInv`, says where a message can be. It is
queued once, or held by one thread, or about to be queued (`OnePlace`), and one
with an answer is past its answer wherever it is (`AnswersPlaced`): so no second
answer can be under way. Every flag that asks for the exit goes back to an `exit`
that was read (`ExitFlags`). An `initialize` that is through has had its effect, or
came after an `exit` (`InitializeWorked`), which is why a refusal is justified when
its status is decided and stays so until it is sent (`RefusalsJustified`). What has
been served, or is about to be, implies the flag that only an executed `initialize`
sets (`ServedAfterInitialize`). `ChangesInTurn` says of the notification that is
being applied that its changes up to the next one are the last writes of the
document. For
`OvertakesFew` the set that does not grow is `Early(i)`: the earlier messages that
have seen a write of i, or whose completion is under way. When i writes first, the
queue holds nothing earlier, so there are no more of these than threads.

The attempt to prove `LifecycleRespected` as it was first stated, without the
exception for an earlier `exit`, failed on `initialize` in `InitializeWorked`; the
client of six messages that the failed step describes is now in the run.

`StreamProofs`, for any client, any number of threads, pieces and logged lines,
and a failure of any write:

| theorem | states |
|---|---|
| `FramesAreWhole` | `FramesWhole` |
| `StreamIsAFrameChannel` | `ImplementsFrameChannel` |
| `MessagesArePartsOfTheStream` | whatever is sent, what is read are parts of it, in order, that pass the check of a message |
| `NothingIsMadeUp` | `NothingMadeUp` |

For what is written, `WInv` has the lock
(`OneWriter`), what is written and how it ends, which is with as much of the
holder's message as it has inserted (`Written`), and where messages come from
(`Origins`): a reply is begun when its request leaves the ones that wait, the line
that logs a reply when its thread gives the reply up, a line of the threads' own
has a number. That is what makes a message that is begun a new one (`EachOnce`).
`Answered` is the last conjunct of the property, for requests executed and for
threads about to log their answer.

For what is read, each call of the reader is followed through the stream, of which
what is unread is always a tail (`Unread`): the head is a number of lines, the body
what the head declares. `ReadInv` says of any stream that the messages returned so
far lie in it one behind the other (`Placed`), before the unread part. `FrameInv`
says that up to the first wrong frame the unread part begins where a frame begins,
which is what makes the next verdict one about that frame alone: the step of
`FrameChannel`. `NothingMadeUp` follows from `ReadInv` where no client wraps a
message in another text; a part of the stream that passes the check is then the body
of a frame.

`ThreadProofs` on the library, for any number of threads, any finite set of handles,
any number of libraries:

| theorem | states |
|---|---|
| `CounterNeverWraps` | `RCTypeOK` |
| `CounterCountsHandles` | `CountsHandles` |
| `QuietIsBalanced` | `QuietMeansBalanced` |

That the count does not wrap needs what it counts, and that it counts needs that
it does not wrap; both need that one thread at most is in the opening of the
library (`OneOpens`), since a thread starts one only when nothing is counted.
`QuietMeansBalanced` says something only when no thread is in a call; `Balance`
is what holds in between: the last library is up once if the count is not zero,
less the opening under way, plus the deinitialisations under way.

`InitProofs`, for any number of processes, packages, files and attempts:

| theorem | states |
|---|---|
| `CommandsCreatePackages` | the whole command implements PackageInit's specification |
| `OldPackagesStay` | `OldPackagesUntouched`, of PackageInit |
| `InitKeepsOldPackages` | the same of the whole command |
| `OutcomesAreTrue` | `OutcomeIsTrue`, of PackageInit |
| `InitReportsTheTruth` | the same of the whole command |

`OldPackagesUntouched` alone is not inductive: a process about to remove a
directory could point at an old one. It never does, because it chooses a path
that does not exist and old packages always do; `IInv == TypeOK /\ old \subseteq
exists /\ OldPackagesUntouched /\ PointsAway` says so. `PointsAway` is about old
packages only: a directory another command made may well be pointed at by two.
What is reported is true only of a command that shares its path with no other, and
that is not inductive either: `OInv` says of every other command how much of its
package exists at each of its steps (`Progress`), that it starts with its first
file (`FirstFile`), and that what exists and is not old is where some command
points (`MadeByCommands`), so that a path nobody else points at is free once it was
found free. Both theorems about the whole command follow from those about
PackageInit by the first, whose step simulation goes through the stages of a
command one by one.

`InitProofs`, for any table of identifiers and whatever words the commands are given:

| theorem | states |
|---|---|
| `LevensteinIsTheEditDistance` | the distance of two texts is the least cost of turning one into the other |
| `SpellingsAreNearest` | `SpellingIsNearest` |
| `TextsAreComplete` | `TextsComplete` |
| `PackagesAreAsAsked` | `PackageAsAsked` |

`CommandInv` is what a command has been told and what it has accepted: the rest is
about operators. The cost of turning one text into another is that of a pairing of
their characters that does not cross: what is unpaired is inserted or deleted, what
is paired and differs is replaced. By induction on what is left of both texts, no
pairing costs less than the table says and one costs as much; the code's shortcut,
to pair equal characters at once, costs nothing because neighbours in the table
differ by one at most. A text is complete because each replacement takes one
placeholder away and puts none in its place (`HolesIn`), the values being free of
them, and every placeholder has a replacement. That init can write what it accepts
goes through the setters one by one: names, versions and the closest identifier pass
them, the switches the object is built with are plain and so are written and read
back as they are.

`TextProofs`, for any characters, any pieces of text and any length of a document:

| theorem | states |
|---|---|
| `OffsetsFallBetweenCharacters` | `OffsetsAreBoundaries` |
| `DocumentsStayInSync` | `InSync`, of clients with `PairedBreaks` |
| `PositionsMeanTheSamePlace` | `PositionsAgree`, of the same |

That an offset falls between two characters needs that the document consists of whole
characters, and that it goes on to needs that edits cut it at offsets: `TextInv` has
both. For the rest a text is cut into cells, a character or the two of a CR LF. The
bytes the server has and the text its client has are the same cells but for the CRs
(`Aligned`), which is `DocInv`, as long as the client's positions are of its text. A
position counts cells, and so do the scans of `GetOffset` and `GetLC`, line by line
and then column by column; an edit cuts bytes and text between the same cells.
`PairedBreaks` is a hypothesis because the property fails without it: an LF inserted
behind a lone CR joins two lines for the client and, the CR being normalised by then,
not for the server (section 6).

`FormatProofs`, for any files, nested or not, any number of pieces, any layout, any
refusal and a kill anywhere:

| theorem | states |
|---|---|
| `SourcesAreKept` | `SourceKept` |
| `NothingIsLittered` | `NoLitter` |
| `FilesAreAccounted` | `EveryFileAccounted` |
| `VerifiedManifestsAreRead` | `VerifiedIsRead` |
| `ManifestIsKept` | `ManifestKept` |
| `RewritesKeepTheManifest` | `RewriteKeepsManifest` |

They hold in every mode and for any number of pieces, none included, and an
exception may end the command at any step of a file. `SourcesAreKept` says that a
source is gone only if the loop has replaced it, without a failure, by all that the
mode writes, or has opened it under its other spelling; `FilesAreAccounted` that the
loop reaches every file and that one which did not fail has all that the mode writes
at its destination, unless the system refused the write. Neither says that this is
the formatted text: in the default mode it is not (section 6).

`FInv` is about the one file the loop is at (`CurrentFile`): which of its files is
open, how much of the text has been taken, and what a refusal has left. Two files
never have one destination, and a temporary file belongs to one file, so what the
loop has been at stays as it left it (`FilesBehind`) and what it has yet to reach is
as it was (`FilesUntouched`, `TemporariesGone`). `MInv` ties the steps of
config-check to the document on disk and says that what is read was verified.

`RewritesKeepTheManifest` rests on one lemma per part of a document (version, switch,
contact, dependency), put together in `WrittenManifest`: what `ToJson` writes of an
accepted document is accepted, does not throw, and reads as it. Two things make it
true that are easily lost in the code: a patch number of 0 is left out and read as 0
again, and a number is below `Narrow` once it was read, whence below `Long` when it is
read next. `IsDocument`, which `PackagesAssumption` asks of the first manifest and
`DocumentInv` keeps for every later one, fixes what a value is where JSON fixes it:
versions and requirements are numbers, flags are lists.

`ShellProofs`, for any lines, arguments, files, and any number of commands,
interpreters and subscribers:

| theorem | states |
|---|---|
| `CommandsCloseWhatTheyOpened` | `NothingLeftOpen` |
| `StdoutIsTheClients` | `OnlyLogFileOnStdout` |
| `LogIsLeftAsFound` | `LogLeftAsFound` |
| `OutputsAreWhole` | `OutputIsWhole` |
| `FirstCommandIsHonoured` | `FirstCommandHonoured` |
| `WordsAreAsWritten` | `WordsAsWritten` |

What is open is a function of the next step and of the mode (`OpenInv`). `LogInv`
has who hears the log before, while and after the server serves; it needs that
suspended subscribers are subscribed and that nobody but the command subscribes
the log file, or `Unsilence` would resume the wrong ones. `ParseInv` describes the
files at every step of `impl parse`: the tree at hand is that of the source as it
was when the command was called, unless an earlier source was written over it.

`FirstInv` follows the first lsp command: until it has parsed its words `optind` is
where it was initially, then the options say what the words do (`Honoured`). What
the parser has found is told word after word (`Told`): which words have occurred,
what the one before has left open, and, once an option is refused, that nothing is
accepted any more.

`WordsAsWritten` is a matter of one action, `EnterLine`, and of what `SplitCommand`
makes of a line. What it keeps is told character after character (`Kept`): of each
run between unquoted spaces what has been read, the runs that have ended as words
unless nothing is left of them, and that it is inside a quotation if the quotes so
far are odd in number. A program without a name would not do: its first word would
be the line's.

`Recursion` is what these proofs about data rest on. The library's induction theorems
are about an operator, which no prover here can instantiate; `InductionOnNat` is
about a set of numbers. From it follows `RecursionHasFixpoint`: a function that is
defined by recursion on what has a smaller measure exists, and is as its definition
says. The lemmas about FlattenSeq, folds over sequences, minima, maxima and sums over
finite sets are consequences.

The proofs assume what the modules' ASSUMEs state and nothing else:
`RCAssumption` (size_t has room for the handles), `WorkerAssumption`,
`MaxJobsAssumption`, `ThreadAssumption` (the main thread is none of the pool's),
`MaxFailedAssumption`, `InputsAssumption`, `InitAssumption`, `StreamAssumption`,
`FrameAssumption` (frames are heads and bodies of atoms), `BodiesAssumption` (no client
wraps a message in another text: what passes the check of a message anywhere in the
stream is a body; only `NothingIsMadeUp` needs it), `SubscriberAssumption`,
`CommandAssumption`, `ShellAssumption` (lines and words are sequences of characters,
the program has a name), `SpdxAssumption` (the table is finite, not empty, and its keys
are the identifiers in lower case), `AskedAssumption` (what commands are given are
texts; `Narrow` is above the numbers in the manifest init builds, of which the largest
is 2 MiB), `WidthAssumption` (a character has 1 to 4 bytes, CR and LF have one),
`BoundsAssumption`, and those of
`FormatFile`, `Manifest` and `PackageCommands`. TLC evaluates them in every run of
these modules.

Only model-checked is all liveness (`EveryJobFinishes`, `StopReturnsIfDrained`,
`EofExits`, `AnsweredOrExited`, `EverySendEnds`): the prover does not handle fairness
and ENABLED. The three properties that TLC refutes (section 6) have no theorem, of
course.

Some definitions are written so that the provers can expand them: tables of dynamic
programming and scans are recursive functions over tuples, and the words a line says
are counted off by the spaces and quotes before each place, since SelectSeq and
SortSeq are primitives of the provers.

## 6. What the code does that its text does not say

Three disagreements are runs that TLC refutes:

- **lsp_lost_exit.** A completion loads `m_exit_requested` as false, the main
  thread executes `exit` and stores true, the completion stores false over it:
  `Start` reads on although it was told to exit (Server.cc:105).
- **interpreter_log.** The constructor of an interpreter remembers the
  subscribers that are suspended *already* (Interpreter.cc:184) and suspends all;
  the destructor, to "resume all log subscribers that were active before the
  interpreter was created" (:231), resumes those it remembered. Who heard the log
  before stays silent; who did not, hears.
- **format_std.** The visitors of the canonical format are empty ("TODO: Implement
  standard format", format/tree/Block.cc:40). In the default mode, whose help says
  "canonical source format" (format/core/Run.cc:614), nothing is written, no error
  is seen (:200-209), the empty temporary file is renamed over the source (:263),
  and the file is reported as formatted (:278): `no3 format` on a directory empties
  every source in it. `ReportedIsFormatted`, which says that success means the
  formatted text, fails in the other modes too, where a write is refused (below).

Further behaviour met while modelling. The models have it unless said
otherwise, and properties are worded around it:

*Language server*
- `Stop` tells every thread to stop and then waits for the queue to empty, which
  no thread is left to do: "Gracefully request stop" (ThreadPool.cc:104) hangs the
  server after "Exiting." (Server.cc:90) if more completions are queued than
  threads are past their check. `StuckForever` says so and is proved
  (`StopNeverReturns`).
- A completion queued earlier may see what a later `didChange` writes, although
  "Concurrency disallowed" (Scheduler.cc:114): the main thread waits for an
  empty queue only. `OvertakesFew` bounds it.
- A server about to lose an `exit` as in lsp_lost_exit ignores the messages it
  reads meanwhile, an `initialize` too (Scheduler.cc:81): once the flag is lost,
  later requests are refused although the client has initialized it.
- Two `$/setTrace` jobs may be executed in either order (Scheduler.cc:62).
- The Context is destroyed before the pool (Scheduler.cc:50) while completions
  may run in it.
- A `didChange` refused in the middle keeps its first changes
  (textDocument_didChange.cc:139, FileBrowser.cc:164).
- `GetLC` counts bytes where `GetOffset` counts UTF-16 units (File.cc:219); it
  has no caller.
- A column between the two halves of a surrogate pair is clipped to the end of
  its line (File.cc:180). A client that ends lines with CR alone and inserts an
  LF after one drifts apart from the server; its inputs are not in the model.
- What a wrong frame leaves in the stream is read as the next message, so that
  one wrong frame may count as several of the four failures in a row that end
  the server (ReadMessage.cc:109, Server.cc:89).
- A negative Content-Length ends the process (ReadMessage.cc:144).
- Where reading meets the end of the stream, writing ends too: the answers still
  under way are dropped, and the last frame may be torn (Server.cc:53,
  Context.cc:142).

*Library and log*
- `OpenLibrary` gives a second thread its handle before the first has brought
  the libraries up (Start.cc:113), although a handle is one "keeping the library
  initialized, or nullptr" (`src/lib/include/no3/Interpreter.hh`:72).
- A failed initialisation resets the counter to 0 although others hold handles
  by then (Start.cc:116), which they keep and whose drop takes the counter below
  0; it leaves up the libraries before the one that failed.
- Assignments lose the reference their target held (Start.cc:79, :90).
- An interpreter that is assigned over leaves its subscription behind
  (Interpreter.hh:90).
- The log callback of the interpreter captures a constructor parameter by
  reference (Interpreter.cc:201). Not modelled.

*Commands*
- `getopt_long` goes on where the last command of the process stopped (`optind`
  is never reset), so a second `lsp` command of the shell overlooks as many
  words as the first has read: after `lsp --help`, neither is `lsp -p` refused nor
  `lsp --port 80` heeded, and both serve on standard input and output
  (lsp/Run.cc:104). When the first stopped inside a group of short options, it goes
  on in memory that has been freed. `FirstCommandHonoured` says that the first
  command at least does what its words say.
- The shell splits its own path as it splits the line (main.cc:89).
- `impl parse` reports a format it does not know and writes json (DumpAST.cc:196),
  does not ask whether the tree was written (:130), and parses its own output
  where a later source is the output file. `OutputIsWhole` excepts refused writes.
- init answers `--help` before it checks what else the options ask for.
- The pattern of names takes any hyphen in the owner for the end of a provider:
  `@John-Doe/abc` passes (Manifest.cc:733), and has no link to GitHub, which only
  "gh-" gets.
- Two init commands that make the same output directory: one is told it could
  not be made, and stops (init/Run.cc:260).
- Two init commands that found the same directory free: the second to make it
  fails, and its clean-up removes the directory with what the other has made and
  reported as initialized (init/Run.cc:285, :293).
- format does not ask whether its writes succeeded: on a full disk a part of the
  text replaces the source (format/core/Run.cc:263), and the file is reported as
  formatted (:278).
- A format command killed between rename and close loses the source
  (format/core/Run.cc:263); a refused rename leaves the temporary file; source
  and destination that name one file in two spellings truncate it (:159).
- format on a directory silently leaves out a file it cannot examine (:478), and
  makes no directory below the output directory, so that nested files fail
  unless it is there already (:188, :555). With the output directory below the
  source directory, the second run takes what the first has written for sources
  and fails on them.
- The configuration of format is overwritten by defaults after it has been
  validated, and has no effect yet (:466). In the model it is valid or not.
- config-check removes an output file that it cannot open, the manifest itself
  if that is the output (ConfigParse.cc:106), does not ask whether its text was
  written (:110), and truncates before it writes: killed in between, the
  manifest is gone.
- A version number is cut to 32 bits when a manifest is read, and one of 2^64 or
  more throws where nobody catches (Manifest.cc:444). Profiles other than rapid,
  debug and release are converted unverified (:521): a missing switch is looked
  up in a const object, which is undefined; the model ends the process. ToJson
  drops these profiles and the blockchain.

## 7. What is not modelled

- `Server::Suspend`, `Resume` and `Stop`: they have no caller, and would wait for
  the mutex that `Start` holds while it reads.
- The debug build's dump of the document.
- Option parsing of format and config-check, but for its outcome; the mutex of
  GetOpt, as one thread executes commands; the log callback's dangling reference
  (Interpreter.cc:201), as any outcome would be a guess.
- Of the manifest: accessors without a caller, its protobuf form, and the classes
  Package, PackageBuilder, Resource and LazyResource, which nothing constructs.
- The contents of the SPDX table; the lines on the local system and the layout of
  the version report; the limit of the stack in `main`.
- `impl self-test` and the lexical benchmark, which call libraries outside the
  repository and keep nothing; what minify and deflate make of a source, which
  libraries outside the repository decide: it is a number of pieces here. Of the
  formatter tree there is nothing else to model than that it writes nothing.

## 8. Plan

Done, in this order: ThreadPool and LspServer with their proofs, as the heart
of the concurrency; text and framing, which LspServer abstracts; the reference
counter with its proofs, the log and the lsp command; init, format and
config-check, which change the user's files; the stream both ways with the log
subscriber; the init command from its words to its texts, with the proof that
old packages stay; the shell, `impl parse` and the other commands; then proofs of
the safety properties of a session, of the stream, of what init reports, of
format, of what lsp and `impl parse` leave behind, and of the round trip of a
manifest through config-check; at last of what is computed over texts, for which
`Recursion` was needed: the reader's frames, the positions in a document, the words
and options of a command, and the distances, texts and manifests of init.

Next:

1. *Two documents* in TextDocument, and the store's failure paths for a document
   that is not open.
2. *Clients that end lines with CR alone*, as a run that shows how far such a
   document drifts, if the server is to support them.
