------------------------------ MODULE LspServer -------------------------------
(***************************************************************************)
(* The language server: Server::Start reads messages on the main thread    *)
(* and gives them to the scheduler, which queues some for the thread pool  *)
(* and executes the others itself once the queue is empty; both kinds run  *)
(* against one Context.  When Start returns, the server is destroyed:      *)
(* first the Context, then the pool.                                       *)
(*                                                                         *)
(* The client is the sequence of results ReadRequest will return, chosen   *)
(* initially; after the last one it closes the stream or leaves it open.   *)
(***************************************************************************)
EXTENDS ThreadPool, LspContext

CONSTANTS
  Main,                     \* the thread that runs Server::Start
  MaxFailed,                \* kMaxFailedRequestCount
  Inputs,                   \* the clients considered
  MaxInput,                 \* bound: the longest of them
  Unreadable                \* ReadRequest returned nullopt

ASSUME ThreadAssumption == Main \notin Worker /\ Thread = Worker \cup {Main}
ASSUME MaxFailedAssumption == MaxFailed \in Nat
ASSUME InputsAssumption ==
  /\ Unreadable \notin Message
  /\ Inputs \subseteq Seq(Message \cup {Unreadable})
  /\ MaxInput \in Nat
  /\ \A s \in Inputs : Len(s) <= MaxInput

VARIABLES
  input,                    \* what ReadRequest returns, call by call
  closing,                  \* then the client closes the stream
  rd,                       \* how much of input has been read
  failed,                   \* sucessive_failed_request_count
  schedExit,                \* m_exit_requested of the Scheduler
  alive,                    \* the Context has not been destroyed
  mpc                       \* where the main thread is

mainVars == <<input, closing, rd, failed, schedExit, alive, mpc>>
vars == <<poolVars, ctxVars, mainVars>>

(* "read": in ReadRequest; "dispatch": in Schedule; "await": spinning on   *)
(* Empty; "rpc": executing a message; "check": at IsExitRequested;         *)
(* "exited": Start returns; "stop", "drain", "join": in ~ThreadPool;       *)
(* "down": the server is gone; "aborted": the process died.                *)
MainPc == {"read", "dispatch", "await", "rpc", "check",
           "exited", "stop", "drain", "join", "down", "aborted"}

(* What the variables range over.                                        *)
TypeOK ==
  /\ PoolTypeOK
  /\ CtxTypeOK
  /\ input \in Inputs
  /\ closing \in BOOLEAN
  /\ rd \in 0..Len(input)
  /\ failed \in 0..(MaxFailed + 1)
  /\ schedExit \in BOOLEAN
  /\ alive \in BOOLEAN
  /\ mpc \in MainPc
  /\ seen \in [DOMAIN input -> Nat \cup {NotSeen}]

Init ==
  /\ PoolInit
  /\ CtxInit
  /\ input \in Inputs
  /\ seen = [i \in DOMAIN input |-> NotSeen]
  /\ closing \in BOOLEAN
  /\ rd = 0
  /\ failed = 0
  /\ schedExit = FALSE
  /\ alive = TRUE
  /\ mpc = "read"

Up == mpc # "aborted"

-------------------------------------------------------------------------------
(* Server::Start                                                           *)

ReadMessageKeepingCount ==
  /\ mpc = "read"
  /\ rd < Len(input) /\ input[rd + 1] # Unreadable
  /\ rd' = rd + 1
  /\ mpc' = IF schedExit THEN "check" ELSE "dispatch"
  /\ UNCHANGED <<poolVars, ctxVars, input, closing, failed, schedExit, alive>>

(* A message arrives; Schedule ignores it if exit has been requested.      *)
ReadMessage ==
  /\ mpc = "read"
  /\ rd < Len(input) /\ input[rd + 1] # Unreadable
  /\ rd' = rd + 1
  /\ failed' = 0
  /\ mpc' = IF schedExit THEN "check" ELSE "dispatch"
  /\ UNCHANGED <<poolVars, ctxVars, input, closing, schedExit, alive>>

(* ReadRequest failed: more than MaxFailed times in a row is the end.      *)
Fail ==
  /\ failed' = failed + 1
  /\ mpc' = IF failed' > MaxFailed THEN "exited" ELSE "read"
  /\ UNCHANGED <<poolVars, ctxVars, input, closing, schedExit, alive>>

ReadGarbage ==
  /\ mpc = "read"
  /\ rd < Len(input) /\ input[rd + 1] = Unreadable
  /\ rd' = rd + 1
  /\ Fail

AtEof == closing /\ rd = Len(input)

ReadEofUncounted ==
  /\ mpc = "read"
  /\ AtEof
  /\ UNCHANGED vars

ReadEof ==
  /\ mpc = "read"
  /\ AtEof
  /\ Fail
  /\ UNCHANGED rd

CheckExit ==
  /\ mpc = "check"
  /\ mpc' = IF schedExit THEN "exited" ELSE "read"
  /\ UNCHANGED <<poolVars, ctxVars, input, closing, rd, failed, schedExit, alive>>

-------------------------------------------------------------------------------
(* Scheduler::Schedule, on the main thread                                 *)

IsConcurrentWrites(m) == m.method \in {"setTrace", "completion", "didChange"}
IsConcurrent(m) == m.method \in {"setTrace", "completion"}

StartPool ==
  /\ mpc = "dispatch"
  /\ PoolStart
  /\ UNCHANGED <<ctxVars, mainVars>>

DispatchConcurrent ==
  /\ mpc = "dispatch" /\ PoolStarted
  /\ IsConcurrent(input[rd])
  /\ PoolPush(rd)
  /\ mpc' = "check"
  /\ UNCHANGED <<ctxVars, input, closing, rd, failed, schedExit, alive>>

DispatchExclusive ==
  /\ mpc = "dispatch" /\ PoolStarted
  /\ ~ IsConcurrent(input[rd])
  /\ mpc' = "await"
  /\ UNCHANGED <<poolVars, ctxVars, input, closing, rd, failed, schedExit, alive>>

AwaitNothing ==
  /\ mpc = "await"
  /\ mpc' = "rpc"
  /\ Enter(Main)
  /\ UNCHANGED <<poolVars, flagVars, docVars, seen, replies,
                 input, closing, rd, failed, schedExit, alive>>

(* while (!m_thread_pool->Empty()): jobs already taken are not waited for. *)
AwaitEmpty ==
  /\ mpc = "await"
  /\ PoolEmpty
  /\ mpc' = "rpc"
  /\ Enter(Main)
  /\ UNCHANGED <<poolVars, flagVars, docVars, seen, replies,
                 input, closing, rd, failed, schedExit, alive>>

-------------------------------------------------------------------------------
(* m_exit_requested = exit_requested || m_exit_requested: a load and a     *)
(* store, on whichever thread executed the message.                        *)

LoadExit(t) ==
  /\ Up
  /\ rpc[t] = "load"
  /\ exitSeen' = [exitSeen EXCEPT ![t] = @ \/ schedExit]
  /\ rpc' = [rpc EXCEPT ![t] = "store"]
  /\ UNCHANGED <<flagVars, docVars, seen, replies, edit, status>>
  /\ UNCHANGED <<poolVars, mainVars>>

StoreExit(t) ==
  /\ rpc[t] = "store"
  /\ schedExit' = exitSeen[t]
  /\ Leave(t)
  /\ UNCHANGED <<flagVars, docVars, seen, replies>>

MainRpc ==
  /\ ExecuteRPC(Main, rd, input[rd])
  /\ UNCHANGED <<poolVars, mainVars>>

MainRpcEnd ==
  /\ StoreExit(Main)
  /\ mpc' = "check"
  /\ UNCHANGED <<poolVars, input, closing, rd, failed, alive>>

-------------------------------------------------------------------------------
(* The pool's threads                                                      *)

WorkerLoop(w) ==
  /\ Up
  /\ WorkerCheck(w) \/ WorkerIdle(w)
  /\ UNCHANGED <<ctxVars, mainVars>>

WorkerBegin(w) ==
  /\ Up
  /\ WorkerTake(w)
  /\ Enter(w)
  /\ UNCHANGED <<flagVars, docVars, seen, replies, mainVars>>

WorkerRpc(w) ==
  /\ Up
  /\ held[w] # NoJob
  /\ ExecuteRPC(w, held[w], input[held[w]])
  /\ UNCHANGED <<poolVars, mainVars>>

WorkerRpcEnd(w) ==
  /\ Up
  /\ StoreExit(w)
  /\ WorkerFinish(w)
  /\ UNCHANGED <<input, closing, rd, failed, alive, mpc>>

UsesContext(t) == rpc[t] \in {"exec", "peek", "reply"}

(* A thread still inside a destroyed Context either finds the old values   *)
(* there (WorkerRpc) or takes the process down.                            *)
WorkerAbort(w) ==
  /\ Up
  /\ UsesContext(w)
  /\ ~ alive
  /\ mpc' = "aborted"
  /\ UNCHANGED <<poolVars, ctxVars, input, closing, rd, failed, schedExit, alive>>

-------------------------------------------------------------------------------
(* ~Server: the members of Scheduler::PImpl, last declared first           *)

DestroyContext ==
  /\ mpc = "exited"
  /\ alive' = FALSE
  /\ mpc' = IF PoolStarted THEN "stop" ELSE "down"
  /\ UNCHANGED <<poolVars, ctxVars, input, closing, rd, failed, schedExit>>

StopPool ==
  /\ mpc = "stop"
  /\ PoolRequestStop
  /\ mpc' = "drain"
  /\ UNCHANGED <<ctxVars, input, closing, rd, failed, schedExit, alive>>

DrainPool ==
  /\ mpc = "drain"
  /\ PoolEmpty
  /\ mpc' = "join"
  /\ UNCHANGED <<poolVars, ctxVars, input, closing, rd, failed, schedExit, alive>>

JoinPool ==
  /\ mpc = "join"
  /\ PoolJoined
  /\ mpc' = "down"
  /\ UNCHANGED <<poolVars, ctxVars, input, closing, rd, failed, schedExit, alive>>

-------------------------------------------------------------------------------
MainStep ==
  \/ ReadMessage \/ ReadGarbage \/ ReadEof \/ CheckExit
  \/ StartPool \/ DispatchConcurrent \/ DispatchExclusive \/ AwaitEmpty
  \/ MainRpc \/ LoadExit(Main) \/ MainRpcEnd
  \/ DestroyContext \/ StopPool \/ DrainPool \/ JoinPool

WorkerStep(w) ==
  \/ WorkerLoop(w) \/ WorkerBegin(w)
  \/ WorkerRpc(w) \/ LoadExit(w) \/ WorkerRpcEnd(w)
  \/ WorkerAbort(w)

Next == MainStep \/ \E w \in Worker : WorkerStep(w)

Spec == Init /\ [][Next]_vars

(* The operating system runs every thread: none of their steps waits for   *)
(* anything but a message, an empty queue or another thread's end.         *)
Fairness ==
  /\ WF_vars(MainStep)
  /\ \A w \in Worker : WF_vars(WorkerStep(w))

FairSpec == Spec /\ Fairness
-------------------------------------------------------------------------------
Readable(i) == input[i] # Unreadable
IsA(i, method) == Readable(i) /\ input[i].method = method
Initializes(i) == IsA(i, "initialize") /\ ~ Malformed(input[i])
Exited == mpc \in {"exited", "stop", "drain", "join", "down", "aborted"}
Answered(i) == \E k \in DOMAIN replies : replies[k].id = i

(* A completion never works on a document older than its place in the      *)
(* stream: every write of an earlier message is in the version it is       *)
(* given, although another thread executes it.                             *)
FreshReads ==
  \A i \in DOMAIN input : \A p \in DOMAIN log :
    seen[i] # NotSeen /\ log[p].msg < i => p <= seen[i]

WritesInOrder ==
  \A p, q \in DOMAIN log : p < q =>
    \/ log[p].msg < log[q].msg
    \/ log[p].msg = log[q].msg /\ log[p].edit < log[q].edit

(* Change k of message i can be applied, and the change before it is the   *)
(* write before this one, p.                                               *)
AppliedInTurn(p, i, k) ==
  /\ IsA(i, "didChange") /\ k <= Len(input[i].edits) /\ input[i].edits[k] = "ok"
  /\ k > 1 => p > 1 /\ log[p - 1] = [msg |-> i, edit |-> k - 1]

(* The document is written in the client's order: message by message, and  *)
(* the content changes of a message one after the other, with nothing in   *)
(* between.  So what a notification that fails in the middle leaves in the *)
(* document is its first changes, none of them left out, and none from the *)
(* one that cannot be applied on.                                          *)
EditsInOrder ==
  /\ WritesInOrder
  /\ \A p \in DOMAIN log : log[p].edit > 0 => AppliedInTurn(p, log[p].msg, log[p].edit)

(* What the wait for an empty queue buys: a message that writes overtakes  *)
(* no completion still in the queue, so it is seen too early by at most    *)
(* one completion per thread.                                              *)
SeenTooEarly(i) ==
  {c \in 1..(i - 1) : \E p \in 1..seen[c] : log[p].msg = i}

OvertakesFew ==
  \A i \in DOMAIN input : Cardinality(SeenTooEarly(i)) <= Cardinality(Worker)

(* A request is answered once at most, and only requests that were read    *)
(* are answered.                                                           *)
AnsweredAtMostOnce ==
  /\ \A k, l \in DOMAIN replies : replies[k].id = replies[l].id => k = l
  /\ \A k \in DOMAIN replies :
       replies[k].id \in {i \in 1..rd : Readable(i) /\ IsRequest(input[i])}

ExitBefore(i) == \E e \in 1..(i - 1) : IsA(e, "exit")

(* The message thread t executes.                                          *)
Current(t) == IF t = Main THEN rd ELSE held[t]

(* Nothing has been done for the client: the document is closed and was    *)
(* neither written nor read, the trace level is the first one, and every   *)
(* message that a handler has returned from, answered or about to be, was  *)
(* refused, but for those that are served always.                          *)
NothingServed ==
  /\ log = <<>> /\ ~ open /\ trace = "messages"
  /\ \A i \in DOMAIN input : seen[i] = NotSeen
  /\ \A k \in DOMAIN replies :
       replies[k].status = "ServerNotInitialized" \/ IsA(replies[k].id, "initialize")
  /\ \A t \in Thread : rpc[t] \in {"peek", "reply"} =>
       \/ status[t] = "ServerNotInitialized"
       \/ input[Current(t)].method \in {"initialize", "initialized", "exit"}

(* ServerNotInitialized is sent only to a request the client sent before   *)
(* any well-formed `initialize', but for one it sent after an `exit': a    *)
(* server that is about to lose that exit ignores what it reads meanwhile. *)
(* Until the server has executed an `initialize' it serves nothing, also   *)
(* while one that was read waits to be executed; and what writes the       *)
(* document was sent after a well-formed `initialize'.                     *)
LifecycleRespected ==
  /\ \A k \in DOMAIN replies :
       replies[k].status = "ServerNotInitialized" =>
         \A i \in 1..(replies[k].id - 1) : Initializes(i) => ExitBefore(i)
  /\ initialized => \E i \in 1..rd : Initializes(i)
  /\ ~ initialized => NothingServed
  /\ \A p \in DOMAIN log : \E i \in 1..(log[p].msg - 1) : Initializes(i)

(* The server stops serving only on an `exit' it has read, at the end of   *)
(* the stream, or after MaxFailed + 1 unreadable messages in a row.        *)
ExitJustified ==
  Exited => \/ \E i \in 1..rd : IsA(i, "exit")
            \/ AtEof
            \/ rd > MaxFailed /\ \A i \in (rd - MaxFailed)..rd : ~ Readable(i)

(* A closed stream makes Start return, whatever is still queued.           *)
EofExits == closing ~> Exited

(* A request that was read is answered unless the server stops serving.    *)
AnsweredOrExited ==
  \A i \in 1..MaxInput :
    (i <= rd /\ i \in DOMAIN input /\ Readable(i) /\ IsRequest(input[i]))
      ~> (Answered(i) \/ Exited)

-------------------------------------------------------------------------------
(* What a comment of the code says and a run refutes.                      *)

(* Server.cc:105, "Exit requested": an executed `exit' makes Start return. *)
ExitHonoured == ctxExit ~> Exited
===============================================================================
