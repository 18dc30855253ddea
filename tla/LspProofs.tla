------------------------------- MODULE LspProofs ------------------------------
(***************************************************************************)
(* The language server, for every client, every number of threads and any  *)
(* failure limit: its types, that no completion reads a stale document and *)
(* that the document is written in the client's order.                     *)
(*                                                                         *)
(* Both document properties rest on one argument: only the main thread     *)
(* writes the document, one message at a time and always the last one it   *)
(* has read, while the pool's jobs are messages read before.               *)
(*                                                                         *)
(* The second half is about a session: requests are answered once at most, *)
(* refusals and the end of the session are justified, and a write is seen  *)
(* too early by one completion per thread at most.                         *)
(***************************************************************************)
EXTENDS LspServer, FiniteSetTheorems, FunctionTheorems, TLAPS

Concurrent(i) == i \in 1..rd /\ Readable(i) /\ IsConcurrent(input[i])

(* The jobs, queued or held, are concurrent messages that have been read.  *)
JobsAreMessages ==
  /\ \A k \in 1..Len(jobs) : Concurrent(jobs[k])
  /\ \A w \in Worker : held[w] # NoJob => Concurrent(held[w])

(* Where the main thread is tells what the last message is.                *)
MainPosition ==
  /\ mpc \in {"dispatch", "await", "rpc"} => rd > 0 /\ Readable(rd)
  /\ mpc \in {"await", "rpc"} => ~ IsConcurrent(input[rd])
  /\ rpc[Main] # "idle" => mpc = "rpc"
  /\ mpc \in {"read", "dispatch", "await", "rpc", "check"} => failed <= MaxFailed
  /\ alive \/ mpc \in {"stop", "drain", "join", "down", "aborted"}

(* A version was seen only by a concurrent message that has been read.     *)
SeenByMessages ==
  \A i \in DOMAIN input :
    seen[i] # NotSeen => Concurrent(i) /\ seen[i] <= Len(log)

(* The writes so far are of messages before the last, or of the last and   *)
(* then of the content changes its handler has applied.                    *)
WritesSoFar ==
  \A p \in DOMAIN log :
    \/ log[p].msg < rd
    \/ /\ log[p].msg = rd
       /\ mpc \notin {"dispatch", "await"}
       /\ rpc[Main] = "exec" => /\ input[rd].method = "didChange"
                                /\ log[p].edit <= edit[Main]

LInv ==
  /\ TypeOK /\ JobsAreMessages /\ MainPosition
  /\ SeenByMessages /\ WritesSoFar
  /\ FreshReads /\ WritesInOrder

USE DEF NoJob, NotSeen, WorkerPc, MainPc, RpcPc, Status, TraceValue

-------------------------------------------------------------------------------
(* A message that was read is a message.                                   *)
LEMMA ReadableIsMessage ==
  ASSUME TypeOK, NEW i \in DOMAIN input, Readable(i)
  PROVE  input[i] \in Message
  BY InputsAssumption DEF TypeOK, Readable

(* The log is a sequence of numbered writes.                               *)
LEMMA LogTyped ==
  ASSUME TypeOK
  PROVE  /\ Len(log) \in Nat /\ DOMAIN log = 1..Len(log)
         /\ \A p \in DOMAIN log : log[p].msg \in Nat /\ log[p].edit \in Nat
<1>1. log \in Seq(Write)
  BY DEF TypeOK, CtxTypeOK
<1>2. \A p \in DOMAIN log : log[p] \in Write
  BY <1>1
<1> QED
  BY <1>1, <1>2 DEF Write

(* What a handler may do: nothing to the document, take a snapshot, write  *)
(* once and return, or apply one content change.                           *)
Quiet(t) ==
  /\ log' = log /\ seen' = seen /\ edit' = edit
  /\ rpc' = [rpc EXCEPT ![t] = "peek"]

Snapshot(t, i, m) ==
  /\ m.method = "completion"
  /\ log' = log
  /\ seen' = [seen EXCEPT ![i] = Len(log)] /\ edit' = edit
  /\ rpc' = [rpc EXCEPT ![t] = "peek"]

WriteOnce(t, i, m) ==
  /\ m.method \in {"didOpen", "didClose", "didSave"}
  /\ log' = Append(log, [msg |-> i, edit |-> 0])
  /\ seen' = seen /\ edit' = edit
  /\ rpc' = [rpc EXCEPT ![t] = "peek"]

WriteEdit(t, i, m) ==
  /\ m.method = "didChange"
  /\ edit[t] < Len(m.edits) /\ m.edits[edit[t] + 1] = "ok"
  /\ log' = Append(log, [msg |-> i, edit |-> edit[t] + 1])
  /\ seen' = seen
  /\ rpc' = rpc
  /\ edit' = [edit EXCEPT ![t] = @ + 1]

(* Whatever the handler of a message does to the document is one of four   *)
(* effects.                                                                *)
LEMMA HandlerEffect ==
  ASSUME NEW t \in Thread, NEW i \in DOMAIN input, NEW m \in Message, TypeOK,
         Exec(t, i, m)
  PROVE  Quiet(t) \/ Snapshot(t, i, m) \/ WriteOnce(t, i, m) \/ WriteEdit(t, i, m)
<1>1. CASE \/ Refuse(t, m) \/ Unknown(t, m) \/ Reject(t, m)
           \/ Initialize(t, m) \/ Initialized(t, m) \/ SetTrace(t, m)
           \/ Exit(t, m) \/ Shutdown(t, m) \/ DidChangeEnd(t, m)
  BY <1>1 DEF Refuse, Unknown, Reject, Initialize, Initialized, SetTrace, Exit,
              Shutdown, DidChangeEnd, Return, docVars, Quiet
<1>2. CASE Completion(t, i, m)
  BY <1>2 DEF Completion, Accepts, Return, docVars, Snapshot
<1>3. CASE DidOpen(t, i, m) \/ DidClose(t, i, m) \/ DidSave(t, i, m)
  BY <1>3 DEF DidOpen, DidClose, DidSave, Accepts, Return, WriteDoc, Quiet, WriteOnce
<1>4. CASE DidChangeEdit(t, i, m)
  BY <1>4 DEF DidChangeEdit, Accepts, WriteDoc, WriteEdit
<1> QED
  BY <1>1, <1>2, <1>3, <1>4 DEF Exec, Handler

(* A handler keeps the types of the flags.                                 *)
LEMMA FlagsTyped ==
  ASSUME NEW t \in Thread, NEW i \in DOMAIN input, NEW m \in Message, Exec(t, i, m),
         initialized \in BOOLEAN, canTrace \in BOOLEAN, trace \in TraceValue,
         ctxExit \in BOOLEAN, open \in BOOLEAN
  PROVE  /\ initialized' \in BOOLEAN /\ canTrace' \in BOOLEAN
         /\ trace' \in TraceValue /\ ctxExit' \in BOOLEAN /\ open' \in BOOLEAN
<1>1. CASE Refuse(t, m) \/ Unknown(t, m) \/ Reject(t, m) \/ DidChangeEnd(t, m)
  BY <1>1 DEF Refuse, Unknown, Reject, DidChangeEnd, flagVars, docVars
<1>2. CASE Initialized(t, m) \/ Exit(t, m) \/ Shutdown(t, m)
  BY <1>2 DEF Initialized, Exit, Shutdown, flagVars, docVars
<1>3. CASE Initialize(t, m)
  BY <1>3 DEF Initialize, Accepts, Malformed, Message, docVars
<1>4. CASE SetTrace(t, m)
  BY <1>4 DEF SetTrace, Accepts, Malformed, Message, docVars
<1>5. CASE Completion(t, i, m) \/ DidOpen(t, i, m) \/ DidClose(t, i, m)
           \/ DidSave(t, i, m) \/ DidChangeEdit(t, i, m)
  BY <1>5 DEF Completion, DidOpen, DidClose, DidSave, DidChangeEdit, flagVars, docVars
<1> QED
  BY <1>1, <1>2, <1>3, <1>4, <1>5 DEF Exec, Handler

(* A handler keeps the types.                                              *)
LEMMA HandlerTyped ==
  ASSUME NEW t \in Thread, NEW i \in DOMAIN input, NEW m \in Message, TypeOK,
         Exec(t, i, m), UNCHANGED input
  PROVE  CtxTypeOK' /\ seen' \in [DOMAIN input -> Nat \cup {NotSeen}]
<1> USE DEF TypeOK, CtxTypeOK
<1>1. i \in Nat /\ Len(log) \in Nat
  BY InputsAssumption
<1>2. log' \in Seq(Write)
  <2>1. \A k \in Nat : [msg |-> i, edit |-> k] \in Write
    BY <1>1 DEF Write
  <2>2. \A k \in Nat : Append(log, [msg |-> i, edit |-> k]) \in Seq(Write)
    BY <2>1
  <2>3. edit[t] + 1 \in Nat
    OBVIOUS
  <2>4. log' = log \/ \E k \in Nat : log' = Append(log, [msg |-> i, edit |-> k])
    <3> DEFINE Writes(k) == log' = Append(log, [msg |-> i, edit |-> k])
    <3>1. log' = log \/ Writes(0) \/ Writes(edit[t] + 1)
      BY HandlerEffect DEF Quiet, Snapshot, WriteOnce, WriteEdit
    <3>2. 0 \in Nat
      OBVIOUS
    <3> HIDE DEF Writes
    <3>3. log' = log \/ \E k \in Nat : Writes(k)
      BY <3>1, <3>2, <2>3
    <3> QED
      BY <3>3 DEF Writes
  <2> QED
    BY <2>2, <2>4
<1>3. seen' \in [DOMAIN input -> Nat \cup {NotSeen}]
  BY HandlerEffect, <1>1 DEF Quiet, Snapshot, WriteOnce, WriteEdit
<1>4. /\ initialized' \in BOOLEAN /\ canTrace' \in BOOLEAN
      /\ trace' \in TraceValue /\ ctxExit' \in BOOLEAN /\ open' \in BOOLEAN
  BY FlagsTyped
<1>5. /\ rpc' \in [Thread -> RpcPc] /\ status' \in [Thread -> Status]
      /\ edit' \in [Thread -> Nat] /\ exitSeen' \in [Thread -> BOOLEAN]
  <2>1. ASSUME NEW s \in Status, Return(t, s) PROVE <1>5!:
    BY <2>1 DEF Return
  <2>2. CASE DidChangeEdit(t, i, m)
    BY <2>2 DEF DidChangeEdit
  <2>3. DidChangeEdit(t, i, m) \/ \E s \in Status : Return(t, s)
    BY DEF Exec, Handler, Refuse, Unknown, Reject, Initialize, Initialized,
           SetTrace, Exit, Shutdown, DidChangeEnd, Completion, DidOpen,
           DidClose, DidSave
  <2> QED
    BY <2>1, <2>2, <2>3
<1>6. replies' \in Seq(Reply)
  BY DEF Exec
<1> QED
  BY <1>2, <1>3, <1>4, <1>5, <1>6

-------------------------------------------------------------------------------
(* Steps that touch neither the document nor the jobs.                     *)
DocAndJobs == <<input, log, seen, jobs, held>>

(* A step that changes neither the document nor the jobs, and reads at     *)
(* most one more message, keeps the invariants about them.                 *)
LEMMA Frame ==
  ASSUME LInv, UNCHANGED DocAndJobs, rd' \in {rd, rd + 1}
  PROVE  JobsAreMessages' /\ SeenByMessages' /\ FreshReads' /\ WritesInOrder'
<1>1. rd \in Nat
  BY DEF LInv, TypeOK
<1>2. \A j : Concurrent(j) => Concurrent(j)'
  BY <1>1 DEF Concurrent, Readable, DocAndJobs
<1>3. JobsAreMessages'
  BY <1>2 DEF LInv, JobsAreMessages, DocAndJobs
<1>4. SeenByMessages'
  BY <1>2 DEF LInv, SeenByMessages, DocAndJobs
<1>5. FreshReads' /\ WritesInOrder'
  BY DEF LInv, FreshReads, WritesInOrder, DocAndJobs
<1> QED
  BY <1>3, <1>4, <1>5

(* The same, when the last message and the main thread's handler stay too. *)
LEMMA FrameMain ==
  ASSUME LInv, UNCHANGED DocAndJobs, UNCHANGED rd, TypeOK', MainPosition',
         rpc'[Main] = "exec" => edit'[Main] = edit[Main],
         rpc'[Main] = "exec" => rpc[Main] = "exec" \/ mpc = "await",
         mpc' \in {"dispatch", "await"} => mpc \in {"dispatch", "await"}
  PROVE  LInv'
<1>1. WritesSoFar'
  BY DEF LInv, WritesSoFar, DocAndJobs
<1> QED
  BY <1>1, Frame DEF LInv

(* Reading: a message read makes every write so far one of earlier         *)
(* messages.                                                               *)
LEMMA ReadLInv ==
  ASSUME LInv, ReadMessage \/ ReadGarbage \/ ReadEof PROVE LInv'
<1> USE DEF LInv
<1>1. /\ rd \in 0..Len(input) /\ rd' \in 0..Len(input') /\ rd' \in {rd, rd + 1}
      /\ UNCHANGED <<poolVars, ctxVars, input, closing, schedExit, alive>>
      /\ failed' \in 0..(MaxFailed + 1)
      /\ mpc = "read" /\ mpc' \in {"read", "dispatch", "check", "exited"}
      /\ mpc' # "exited" => failed' <= MaxFailed
      /\ mpc' = "dispatch" => rd' = rd + 1 /\ input[rd'] # Unreadable
  <2>1. Len(input) \in Nat
    BY InputsAssumption DEF TypeOK
  <2>2. CASE ReadMessage
    BY <2>1, <2>2, MaxFailedAssumption DEF ReadMessage, TypeOK
  <2>3. CASE ReadGarbage
    BY <2>1, <2>3, MaxFailedAssumption DEF ReadGarbage, Fail, TypeOK, MainPosition
  <2>4. CASE ReadEof
    BY <2>1, <2>4, MaxFailedAssumption DEF ReadEof, Fail, TypeOK, MainPosition
  <2> QED
    BY <2>2, <2>3, <2>4
<1>2. TypeOK'
  BY <1>1 DEF TypeOK, PoolTypeOK, CtxTypeOK, poolVars, ctxVars, flagVars,
              docVars, localVars
<1>3. MainPosition'
  BY <1>1 DEF MainPosition, ctxVars, localVars, Readable
<1>4. UNCHANGED DocAndJobs
  BY <1>1 DEF DocAndJobs, poolVars, ctxVars, docVars
<1>5. WritesSoFar'
  <2>1. \A p \in DOMAIN log : log[p].msg \in Nat
    BY LogTyped
  <2>2. rpc[Main] # "exec" /\ UNCHANGED <<rpc, log>>
    BY <1>1 DEF MainPosition, ctxVars, docVars, localVars
  <2> QED
    BY <1>1, <2>1, <2>2 DEF WritesSoFar
<1> QED
  BY <1>1, <1>2, <1>3, <1>4, <1>5, Frame

(* Steps of the main thread between reading and executing, and after Start *)
(* has returned.                                                           *)
LEMMA MainLInv ==
  ASSUME LInv,
         \/ CheckExit \/ StartPool \/ DispatchExclusive \/ AwaitEmpty
         \/ DestroyContext \/ StopPool \/ DrainPool \/ JoinPool
  PROVE  LInv'
<1> USE DEF LInv
<1>1. CASE CheckExit \/ DestroyContext \/ DrainPool \/ JoinPool \/ StopPool
  <2>1. /\ UNCHANGED <<jobs, wpc, held, ctxVars, input, closing, rd, failed, schedExit>>
        /\ alive' \in BOOLEAN /\ stopReq' \in BOOLEAN
        /\ mpc \in {"check", "exited", "stop", "drain", "join"}
        /\ mpc' \in {"exited", "read", "stop", "drain", "join", "down"}
        /\ mpc' = "read" => mpc = "check"
        /\ alive' \/ mpc' \in {"stop", "drain", "join", "down"}
    BY <1>1 DEF CheckExit, DestroyContext, DrainPool, JoinPool, StopPool,
                PoolRequestStop, poolVars, TypeOK, PoolTypeOK, MainPosition
  <2>2. TypeOK'
    BY <2>1 DEF TypeOK, PoolTypeOK, CtxTypeOK, ctxVars, flagVars, docVars, localVars
  <2>3. MainPosition'
    BY <2>1 DEF MainPosition, ctxVars, localVars
  <2>4. UNCHANGED DocAndJobs /\ UNCHANGED <<rd, edit, rpc>>
    BY <2>1 DEF DocAndJobs, ctxVars, docVars, localVars
  <2> QED
    BY <2>1, <2>2, <2>3, <2>4, FrameMain
<1>2. CASE StartPool
  <2>1. /\ UNCHANGED <<jobs, held, stopReq, ctxVars, mainVars>>
        /\ wpc' \in [Worker -> WorkerPc]
    BY <1>2 DEF StartPool, PoolStart
  <2>2. TypeOK'
    BY <2>1 DEF TypeOK, PoolTypeOK, CtxTypeOK, ctxVars, flagVars, docVars,
                localVars, mainVars
  <2>3. MainPosition'
    BY <2>1 DEF MainPosition, ctxVars, localVars, mainVars, Readable
  <2>4. UNCHANGED DocAndJobs /\ UNCHANGED <<rd, edit, rpc, mpc>>
    BY <2>1 DEF DocAndJobs, ctxVars, docVars, localVars, mainVars
  <2> QED
    BY <2>2, <2>3, <2>4, FrameMain
<1>3. CASE DispatchExclusive
  <2>1. /\ UNCHANGED <<poolVars, ctxVars, input, closing, rd, failed, schedExit, alive>>
        /\ mpc = "dispatch" /\ mpc' = "await" /\ ~ IsConcurrent(input[rd])
    BY <1>3 DEF DispatchExclusive
  <2>2. TypeOK'
    BY <2>1 DEF TypeOK, PoolTypeOK, CtxTypeOK, poolVars, ctxVars, flagVars,
                docVars, localVars
  <2>3. MainPosition'
    BY <2>1 DEF MainPosition, ctxVars, localVars, Readable
  <2>4. UNCHANGED DocAndJobs /\ UNCHANGED <<rd, edit, rpc>>
    BY <2>1 DEF DocAndJobs, poolVars, ctxVars, docVars, localVars
  <2> QED
    BY <2>1, <2>2, <2>3, <2>4, FrameMain
<1>4. CASE AwaitEmpty
  <2>1. /\ UNCHANGED <<poolVars, flagVars, docVars, seen, replies, edit, status,
                      exitSeen, input, closing, rd, failed, schedExit, alive>>
        /\ mpc = "await" /\ mpc' = "rpc"
        /\ rpc' = [rpc EXCEPT ![Main] = "exec"]
    BY <1>4 DEF AwaitEmpty, Enter
  <2>2. TypeOK'
    <3>1. PoolTypeOK'
      BY <2>1 DEF TypeOK, PoolTypeOK, poolVars
    <3>2. rpc' \in [Thread -> RpcPc]
      BY <2>1 DEF TypeOK, CtxTypeOK
    <3>3. CtxTypeOK'
      BY <2>1, <3>2 DEF TypeOK, CtxTypeOK, flagVars, docVars
    <3> QED
      BY <2>1, <3>1, <3>3 DEF TypeOK
  <2>3. MainPosition'
    BY <2>1 DEF MainPosition, Readable
  <2>4. UNCHANGED DocAndJobs
    BY <2>1 DEF DocAndJobs, poolVars, docVars
  <2> QED
    BY <2>1, <2>2, <2>3, <2>4, FrameMain
<1> QED
  BY <1>1, <1>2, <1>3, <1>4

(* A concurrent message joins the queue.                                   *)
LEMMA DispatchLInv == ASSUME LInv, DispatchConcurrent PROVE LInv'
<1> USE DEF LInv
<1>1. /\ UNCHANGED <<wpc, held, stopReq, ctxVars, input, closing, rd, failed,
                    schedExit, alive>>
      /\ mpc = "dispatch" /\ mpc' = "check"
      /\ jobs' = Append(jobs, rd)
      /\ Concurrent(rd) /\ rd \in Nat \ {NoJob}
  BY DEF DispatchConcurrent, PoolPush, MainPosition, TypeOK, Concurrent
<1>2. /\ jobs' \in Seq(Nat \ {NoJob})
      /\ Len(jobs) \in Nat /\ Len(jobs') = Len(jobs) + 1
      /\ \A k \in 1..Len(jobs) : jobs'[k] = jobs[k]
      /\ jobs'[Len(jobs')] = rd
  BY <1>1 DEF TypeOK, PoolTypeOK
<1>3. TypeOK'
  BY <1>1, <1>2 DEF TypeOK, PoolTypeOK, CtxTypeOK, ctxVars, flagVars, docVars,
                    localVars
<1>4. \A j : Concurrent(j)' <=> Concurrent(j)
  BY <1>1 DEF Concurrent, Readable
<1>5. JobsAreMessages'
  BY <1>1, <1>2, <1>4 DEF JobsAreMessages
<1>6. MainPosition'
  BY <1>1 DEF MainPosition, ctxVars, localVars
<1>7. SeenByMessages'
  BY <1>1, <1>4 DEF SeenByMessages, ctxVars, docVars
<1>8. WritesSoFar'
  BY <1>1 DEF WritesSoFar, MainPosition, ctxVars, docVars, localVars
<1>9. FreshReads' /\ WritesInOrder'
  BY <1>1 DEF FreshReads, WritesInOrder, ctxVars, docVars
<1> QED
  BY <1>3, <1>5, <1>6, <1>7, <1>8, <1>9

-------------------------------------------------------------------------------
(* Executing a message: what comes after the handler, on any thread.       *)
LEMMA AfterHandler ==
  ASSUME LInv, NEW t \in Thread, rpc[t] # "idle", rpc[t] # "exec",
         \/ /\ \E i \in DOMAIN input : Peek(t, input[i]) \/ Send(t, i)
            /\ UNCHANGED <<poolVars, mainVars>>
         \/ LoadExit(t)
  PROVE  LInv'
<1> USE DEF LInv
<1>1. \A i \in DOMAIN input : i \in Nat
  BY InputsAssumption DEF TypeOK
<1>2. /\ UNCHANGED <<poolVars, flagVars, docVars, seen, edit, status, mainVars>>
      /\ exitSeen' \in [Thread -> BOOLEAN]
      /\ rpc' \in [Thread -> RpcPc]
      /\ rpc'[t] # "exec" /\ \A u \in Thread \ {t} : rpc'[u] = rpc[u]
  BY DEF Peek, Send, LoadExit, TypeOK, CtxTypeOK
<1>3. replies' \in Seq(Reply)
  <2>1. \A i \in DOMAIN input : [id |-> i, status |-> status[t]] \in Reply
    BY <1>1 DEF Reply, TypeOK, CtxTypeOK
  <2>2. \/ replies' = replies
        \/ \E i \in DOMAIN input :
             replies' = Append(replies, [id |-> i, status |-> status[t]])
    BY DEF Peek, Send, LoadExit
  <2>3. replies \in Seq(Reply)
    BY DEF TypeOK, CtxTypeOK
  <2>4. \A r \in Reply : Append(replies, r) \in Seq(Reply)
    BY <2>3
  <2> QED
    BY <2>1, <2>2, <2>3, <2>4
<1>4. TypeOK'
  BY <1>2, <1>3 DEF TypeOK, PoolTypeOK, CtxTypeOK, poolVars, flagVars, docVars,
                    mainVars
<1>5. Main \in Thread
  BY ThreadAssumption
<1>6. MainPosition'
  BY <1>2, <1>5 DEF MainPosition, mainVars, Readable
<1>7. UNCHANGED DocAndJobs /\ UNCHANGED <<rd, edit, mpc>>
  BY <1>2 DEF DocAndJobs, poolVars, docVars, mainVars
<1> QED
  BY <1>2, <1>4, <1>5, <1>6, <1>7, FrameMain

(* The main thread in a handler: the only place the document is written,   *)
(* by the last message read, which no completion read so far may follow.   *)
LEMMA MainHandlerLInv ==
  ASSUME LInv, Exec(Main, rd, input[rd]), UNCHANGED <<poolVars, mainVars>>
  PROVE  LInv'
<1> USE DEF LInv
<1> DEFINE m == input[rd]
<1>1. /\ mpc = "rpc" /\ rpc[Main] = "exec"
      /\ rd \in DOMAIN input /\ rd \in Nat /\ Readable(rd)
      /\ ~ IsConcurrent(m) /\ Main \in Thread
  <2>1. rd > 0 /\ rd \in 0..Len(input) /\ input \in Seq(Message \cup {Unreadable})
    BY InputsAssumption DEF MainPosition, Exec, TypeOK
  <2> QED
    BY <2>1, ThreadAssumption DEF Exec, MainPosition, TypeOK
<1>2. m \in Message
  BY <1>1, ReadableIsMessage
<1>3. UNCHANGED <<poolVars, input, closing, rd, failed, schedExit, alive, mpc>>
  BY DEF mainVars
<1>4. TypeOK'
  BY <1>1, <1>2, <1>3, HandlerTyped DEF TypeOK, PoolTypeOK, poolVars
<1>5. Quiet(Main) \/ WriteOnce(Main, rd, m) \/ WriteEdit(Main, rd, m)
  BY <1>1, <1>2, HandlerEffect DEF Snapshot, IsConcurrent
<1>6. /\ seen' = seen
      /\ rpc'[Main] \in {"exec", "peek"}
      /\ \/ log' = log /\ rpc'[Main] = "peek"
         \/ /\ log' = Append(log, [msg |-> rd, edit |-> 0])
            /\ m.method # "didChange" /\ rpc'[Main] = "peek"
         \/ /\ log' = Append(log, [msg |-> rd, edit |-> edit[Main] + 1])
            /\ m.method = "didChange" /\ edit'[Main] = edit[Main] + 1
  BY <1>1, <1>5 DEF Quiet, WriteOnce, WriteEdit, TypeOK, CtxTypeOK
<1>7. \A j : Concurrent(j)' <=> Concurrent(j)
  BY <1>3 DEF Concurrent, Readable
<1>8. JobsAreMessages'
  BY <1>3, <1>7 DEF JobsAreMessages, poolVars
<1>9. MainPosition'
  BY <1>1, <1>3 DEF MainPosition, Readable
<1>10. CASE log' = log /\ rpc'[Main] = "peek"
  <2>1. SeenByMessages'
    BY <1>3, <1>6, <1>7, <1>10 DEF SeenByMessages
  <2>2. WritesSoFar'
    BY <1>1, <1>3, <1>10 DEF WritesSoFar
  <2>3. FreshReads' /\ WritesInOrder'
    BY <1>3, <1>6, <1>10 DEF FreshReads, WritesInOrder
  <2> QED
    BY <1>4, <1>8, <1>9, <2>1, <2>2, <2>3
<1>11. ASSUME NEW k \in Nat, log' = Append(log, [msg |-> rd, edit |-> k]),
              \/ m.method # "didChange" /\ rpc'[Main] = "peek"
              \/ m.method = "didChange" /\ k = edit[Main] + 1 /\ edit'[Main] = k
       PROVE  LInv'
  <2>1. /\ Len(log) \in Nat /\ Len(log') = Len(log) + 1
        /\ DOMAIN log = 1..Len(log) /\ DOMAIN log' = 1..Len(log')
        /\ \A p \in DOMAIN log : log'[p] = log[p]
        /\ log'[Len(log')].msg = rd /\ log'[Len(log')].edit = k
    <3>1. log \in Seq(Write) /\ [msg |-> rd, edit |-> k] \in Write
      BY <1>1, <1>11 DEF TypeOK, CtxTypeOK, Write
    <3> QED
      BY <3>1, <1>11
  <2>2. \A p \in DOMAIN log :
          \/ log[p].msg < rd
          \/ log[p].msg = rd /\ m.method = "didChange" /\ log[p].edit <= edit[Main]
    BY <1>1 DEF WritesSoFar
  <2>3. edit[Main] \in Nat /\ \A p \in DOMAIN log : log[p].msg \in Nat /\ log[p].edit \in Nat
    BY <1>1, LogTyped DEF TypeOK, CtxTypeOK
  <2>4. SeenByMessages'
    BY <1>3, <1>6, <1>7, <2>1 DEF SeenByMessages, TypeOK
  <2>5. WritesSoFar'
    BY <1>1, <1>3, <1>11, <2>1, <2>2, <2>3 DEF WritesSoFar
  <2>6. FreshReads'
    <3>1. \A i \in DOMAIN input : seen[i] # NotSeen => i <= rd
      BY DEF SeenByMessages, Concurrent
    <3>2. ASSUME NEW i \in DOMAIN input, NEW p \in DOMAIN log',
                 seen'[i] # NotSeen, log'[p].msg < i
          PROVE  p <= seen'[i]
      <4>1. i \in Nat
        BY InputsAssumption DEF TypeOK
      <4>2. p # Len(log')
        BY <4>1, <3>1, <3>2, <1>1, <1>6, <2>1
      <4>3. p \in DOMAIN log /\ log'[p] = log[p]
        BY <4>2, <2>1
      <4> QED
        BY <4>3, <3>2, <1>6 DEF FreshReads
    <3> QED
      BY <3>2, <1>3 DEF FreshReads
  <2>7. WritesInOrder'
    <3>1. ASSUME NEW p \in DOMAIN log', NEW q \in DOMAIN log', p < q
          PROVE  \/ log'[p].msg < log'[q].msg
                 \/ log'[p].msg = log'[q].msg /\ log'[p].edit < log'[q].edit
      <4>1. p \in DOMAIN log
        BY <2>1, <3>1
      <4>2. CASE q \in DOMAIN log
        BY <2>1, <3>1, <4>1, <4>2 DEF WritesInOrder
      <4>3. CASE q = Len(log')
        BY <1>11, <2>1, <2>2, <2>3, <4>1, <4>3
      <4> QED
        BY <2>1, <4>2, <4>3
    <3> QED
      BY <3>1 DEF WritesInOrder
  <2> QED
    BY <1>4, <1>8, <1>9, <2>4, <2>5, <2>6, <2>7
<1>12. 0 \in Nat /\ edit[Main] + 1 \in Nat
  BY <1>1 DEF TypeOK, CtxTypeOK
<1>13. CASE /\ log' = Append(log, [msg |-> rd, edit |-> 0])
            /\ m.method # "didChange" /\ rpc'[Main] = "peek"
  BY <1>11, <1>12, <1>13
<1>14. CASE /\ log' = Append(log, [msg |-> rd, edit |-> edit[Main] + 1])
            /\ m.method = "didChange" /\ edit'[Main] = edit[Main] + 1
  BY <1>11, <1>12, <1>14
<1> QED
  BY <1>6, <1>10, <1>13, <1>14

(* A thread of the pool in a handler: it may look at the document, never   *)
(* write it.                                                               *)
LEMMA WorkerHandlerLInv ==
  ASSUME LInv, NEW w \in Worker, held[w] # NoJob,
         Exec(w, held[w], input[held[w]]), UNCHANGED <<poolVars, mainVars>>
  PROVE  LInv'
<1> USE DEF LInv
<1> DEFINE i == held[w]
           m == input[i]
<1>1. /\ Concurrent(i) /\ i \in Nat /\ rd \in Nat /\ i \in DOMAIN input
      /\ w \in Thread /\ Main \in Thread /\ w # Main
  <2>1. Concurrent(i) /\ rd \in 0..Len(input) /\ input \in Seq(Message \cup {Unreadable})
    BY InputsAssumption DEF JobsAreMessages, TypeOK
  <2> QED
    BY <2>1, ThreadAssumption DEF Concurrent
<1>2. m \in Message
  BY <1>1, ReadableIsMessage DEF Concurrent
<1>3. UNCHANGED <<poolVars, input, closing, rd, failed, schedExit, alive, mpc>>
  BY DEF mainVars
<1>4. TypeOK'
  BY <1>1, <1>2, <1>3, HandlerTyped DEF TypeOK, PoolTypeOK, poolVars
<1>5. /\ log' = log
      /\ seen' = seen \/ seen' = [seen EXCEPT ![i] = Len(log)]
      /\ rpc' = [rpc EXCEPT ![w] = "peek"]
  BY <1>1, <1>2, HandlerEffect
     DEF Quiet, Snapshot, WriteOnce, WriteEdit, Concurrent, IsConcurrent
<1>6. \A j : Concurrent(j)' <=> Concurrent(j)
  BY <1>3 DEF Concurrent, Readable
<1>7. JobsAreMessages'
  BY <1>3, <1>6 DEF JobsAreMessages, poolVars
<1>8. rpc'[Main] = rpc[Main] /\ edit'[Main] = edit[Main]
  <2>1. edit' = edit
    BY <1>1, <1>2, <1>5 DEF Exec, Handler, Refuse, Unknown, Reject, Initialize,
         Initialized, SetTrace, Exit, Shutdown, DidChangeEnd, Completion, DidOpen,
         DidClose, DidSave, DidChangeEdit, Return, Accepts, Concurrent, IsConcurrent
  <2> QED
    BY <2>1, <1>1, <1>5 DEF TypeOK, CtxTypeOK
<1>9. MainPosition'
  BY <1>3, <1>8 DEF MainPosition, Readable
<1>10. Len(log) \in Nat /\ DOMAIN log = 1..Len(log)
  BY LogTyped
<1>11. \A j \in DOMAIN input : seen'[j] = seen[j] \/ (j = i /\ seen'[j] = Len(log))
  BY <1>5 DEF TypeOK
<1>12. SeenByMessages'
  BY <1>1, <1>3, <1>5, <1>6, <1>10, <1>11 DEF SeenByMessages
<1>13. WritesSoFar'
  BY <1>3, <1>5, <1>8 DEF WritesSoFar
<1>14. FreshReads'
  BY <1>3, <1>5, <1>10, <1>11 DEF FreshReads
<1>15. WritesInOrder'
  BY <1>5 DEF WritesInOrder
<1> QED
  BY <1>4, <1>7, <1>9, <1>12, <1>13, <1>14, <1>15

-------------------------------------------------------------------------------
(* Executing a message, whatever step of it.                               *)
LEMMA MainRpcLInv == ASSUME LInv, MainRpc PROVE LInv'
<1>1. rpc[Main] # "idle"
  BY DEF MainRpc, ExecuteRPC, Exec, Peek, Send
<1>2. rd \in DOMAIN input /\ Main \in Thread
  <2>1. rd > 0 /\ rd \in 0..Len(input) /\ input \in Seq(Message \cup {Unreadable})
    BY <1>1, InputsAssumption DEF LInv, MainPosition, TypeOK
  <2> QED
    BY <2>1, ThreadAssumption
<1>3. CASE Exec(Main, rd, input[rd])
  BY <1>3, MainHandlerLInv DEF MainRpc
<1>4. CASE Peek(Main, input[rd]) \/ Send(Main, rd)
  <2>1. rpc[Main] # "exec"
    BY <1>4 DEF Peek, Send
  <2> QED
    BY <1>1, <1>2, <1>4, <2>1, AfterHandler DEF MainRpc
<1> QED
  BY <1>3, <1>4 DEF MainRpc, ExecuteRPC

(* A thread of the pool executes a step of its message.                    *)
LEMMA WorkerRpcLInv ==
  ASSUME LInv, NEW w \in Worker, WorkerRpc(w) PROVE LInv'
<1>1. rpc[w] # "idle" /\ held[w] # NoJob
  BY DEF WorkerRpc, ExecuteRPC, Exec, Peek, Send
<1>2. held[w] \in DOMAIN input /\ w \in Thread
  <2>1. /\ held[w] \in 1..rd /\ rd \in 0..Len(input)
        /\ input \in Seq(Message \cup {Unreadable})
    BY <1>1, InputsAssumption DEF LInv, JobsAreMessages, Concurrent, TypeOK
  <2> QED
    BY <2>1, ThreadAssumption
<1>3. CASE Exec(w, held[w], input[held[w]])
  BY <1>1, <1>3, WorkerHandlerLInv DEF WorkerRpc
<1>4. CASE Peek(w, input[held[w]]) \/ Send(w, held[w])
  <2>1. rpc[w] # "exec"
    BY <1>4 DEF Peek, Send
  <2> QED
    BY <1>1, <1>2, <1>4, <2>1, AfterHandler DEF WorkerRpc
<1> QED
  BY <1>3, <1>4 DEF WorkerRpc, ExecuteRPC

(* Some thread loads the scheduler's exit flag.                            *)
LEMMA LoadExitLInv ==
  ASSUME LInv, NEW t \in Thread, LoadExit(t) PROVE LInv'
<1>1. rpc[t] # "idle" /\ rpc[t] # "exec"
  BY DEF LoadExit
<1> QED
  BY <1>1, AfterHandler

(* The main thread is done with a message.                                 *)
LEMMA MainRpcEndLInv == ASSUME LInv, MainRpcEnd PROVE LInv'
<1> USE DEF LInv
<1>1. /\ UNCHANGED <<poolVars, flagVars, docVars, seen, replies, input, closing,
                    rd, failed, alive>>
      /\ rpc[Main] = "store" /\ mpc' = "check"
      /\ rpc' = [rpc EXCEPT ![Main] = "idle"]
      /\ edit' = [edit EXCEPT ![Main] = 0]
      /\ status' = [status EXCEPT ![Main] = "result"]
      /\ exitSeen' = [exitSeen EXCEPT ![Main] = FALSE]
      /\ schedExit' = exitSeen[Main]
  BY DEF MainRpcEnd, StoreExit, Leave
<1>2. Main \in Thread
  BY ThreadAssumption
<1>3. TypeOK'
  BY <1>1, <1>2 DEF TypeOK, PoolTypeOK, CtxTypeOK, poolVars, flagVars, docVars
<1>4. rpc'[Main] = "idle"
  BY <1>1, <1>2 DEF TypeOK, CtxTypeOK
<1>5. MainPosition'
  BY <1>1, <1>4 DEF MainPosition
<1>6. UNCHANGED DocAndJobs
  BY <1>1 DEF DocAndJobs, poolVars, docVars
<1> QED
  BY <1>1, <1>3, <1>4, <1>5, <1>6, FrameMain

-------------------------------------------------------------------------------
(* The pool's threads outside the handlers leave the document, the main    *)
(* thread and what is known of both alone.                                 *)
LEMMA FrameWorker ==
  ASSUME LInv, UNCHANGED <<input, closing, rd, failed, alive, mpc, log, seen>>,
         TypeOK', JobsAreMessages',
         rpc'[Main] = rpc[Main], edit'[Main] = edit[Main]
  PROVE  LInv'
<1>1. MainPosition'
  BY DEF LInv, MainPosition, Readable
<1>2. \A j : Concurrent(j)' <=> Concurrent(j)
  BY DEF Concurrent, Readable
<1>3. SeenByMessages'
  BY <1>2 DEF LInv, SeenByMessages
<1>4. WritesSoFar'
  BY DEF LInv, WritesSoFar
<1>5. FreshReads' /\ WritesInOrder'
  BY DEF LInv, FreshReads, WritesInOrder
<1> QED
  BY <1>1, <1>3, <1>4, <1>5 DEF LInv

(* A thread looks at its stop flag, or finds the queue empty.              *)
LEMMA WorkerLoopLInv ==
  ASSUME LInv, NEW w \in Worker, WorkerLoop(w) PROVE LInv'
<1>1. /\ UNCHANGED <<jobs, held, stopReq, ctxVars, mainVars>>
      /\ wpc' \in [Worker -> WorkerPc]
  BY DEF WorkerLoop, WorkerCheck, WorkerIdle, LInv, TypeOK, PoolTypeOK
<1>2. TypeOK'
  BY <1>1 DEF LInv, TypeOK, PoolTypeOK, CtxTypeOK, ctxVars, flagVars, docVars,
              localVars, mainVars
<1>3. JobsAreMessages'
  BY <1>1 DEF LInv, JobsAreMessages, Concurrent, Readable, mainVars
<1> QED
  BY <1>1, <1>2, <1>3, FrameWorker DEF ctxVars, docVars, localVars, mainVars

(* A thread takes the oldest job.                                          *)
LEMMA WorkerBeginLInv ==
  ASSUME LInv, NEW w \in Worker, WorkerBegin(w) PROVE LInv'
<1> USE DEF LInv
<1>1. /\ UNCHANGED <<stopReq, flagVars, docVars, seen, replies, edit, status,
                    exitSeen, mainVars>>
      /\ wpc' = [wpc EXCEPT ![w] = "run"]
      /\ rpc' = [rpc EXCEPT ![w] = "exec"]
      /\ held' = [held EXCEPT ![w] = Head(jobs)]
      /\ jobs # <<>> /\ jobs' = Tail(jobs)
  BY DEF WorkerBegin, WorkerTake, PoolEmpty, Enter
<1>2. /\ Head(jobs) = jobs[1] /\ Len(jobs) \in Nat \ {0}
      /\ jobs' \in Seq(Nat \ {NoJob}) /\ Head(jobs) \in Nat
      /\ Len(jobs') = Len(jobs) - 1
      /\ \A k \in 1..Len(jobs') : jobs'[k] = jobs[k + 1]
  <2>1. jobs \in Seq(Nat \ {NoJob})
    BY DEF TypeOK, PoolTypeOK
  <2> QED
    BY <1>1, <2>1
<1>3. w \in Thread /\ w # Main
  BY ThreadAssumption
<1>4. TypeOK'
  <2>1. PoolTypeOK'
    BY <1>1, <1>2 DEF TypeOK, PoolTypeOK
  <2>2. CtxTypeOK'
    BY <1>1, <1>3 DEF TypeOK, CtxTypeOK, flagVars, docVars
  <2> QED
    BY <1>1, <2>1, <2>2 DEF TypeOK, mainVars
<1>5. \A j : Concurrent(j)' <=> Concurrent(j)
  BY <1>1 DEF Concurrent, Readable, mainVars
<1>6. JobsAreMessages'
  <2>1. \A k \in 1..Len(jobs') : Concurrent(jobs'[k])
    <3>1. \A k \in 1..Len(jobs) : Concurrent(jobs[k])
      BY DEF JobsAreMessages
    <3>2. \A k \in 1..Len(jobs') : k + 1 \in 1..Len(jobs)
      BY <1>2
    <3> QED
      BY <1>2, <3>1, <3>2
  <2>2. \A v \in Worker : held'[v] = held[v] \/ held'[v] = jobs[1]
    BY <1>1, <1>2 DEF TypeOK, PoolTypeOK
  <2>3. Concurrent(jobs[1])
    BY <1>2 DEF JobsAreMessages
  <2> QED
    BY <1>5, <2>1, <2>2, <2>3 DEF JobsAreMessages
<1>7. rpc'[Main] = rpc[Main] /\ edit'[Main] = edit[Main]
  BY <1>1, <1>3 DEF TypeOK, CtxTypeOK
<1> QED
  BY <1>1, <1>4, <1>6, <1>7, FrameWorker DEF docVars, mainVars

(* A thread stores the exit flag and ends its job.                         *)
LEMMA WorkerRpcEndLInv ==
  ASSUME LInv, NEW w \in Worker, WorkerRpcEnd(w) PROVE LInv'
<1> USE DEF LInv
<1>1. /\ UNCHANGED <<jobs, stopReq, flagVars, docVars, seen, replies, input,
                    closing, rd, failed, alive, mpc>>
      /\ wpc' = [wpc EXCEPT ![w] = "check"]
      /\ held' = [held EXCEPT ![w] = NoJob]
      /\ rpc' = [rpc EXCEPT ![w] = "idle"]
      /\ edit' = [edit EXCEPT ![w] = 0]
      /\ status' = [status EXCEPT ![w] = "result"]
      /\ exitSeen' = [exitSeen EXCEPT ![w] = FALSE]
      /\ schedExit' = exitSeen[w]
  BY DEF WorkerRpcEnd, WorkerFinish, StoreExit, Leave
<1>2. w \in Thread /\ w # Main
  BY ThreadAssumption
<1>3. TypeOK'
  BY <1>1, <1>2 DEF TypeOK, PoolTypeOK, CtxTypeOK, flagVars, docVars
<1>4. JobsAreMessages'
  <2>1. \A v \in Worker : held'[v] = held[v] \/ held'[v] = NoJob
    BY <1>1 DEF TypeOK, PoolTypeOK
  <2>2. \A j : Concurrent(j)' <=> Concurrent(j)
    BY <1>1 DEF Concurrent, Readable
  <2> QED
    BY <1>1, <2>1, <2>2 DEF JobsAreMessages
<1>5. rpc'[Main] = rpc[Main] /\ edit'[Main] = edit[Main]
  BY <1>1, <1>2 DEF TypeOK, CtxTypeOK
<1> QED
  BY <1>1, <1>3, <1>4, <1>5, FrameWorker DEF docVars

(* The process dies in a destroyed Context.                                *)
LEMMA WorkerAbortLInv ==
  ASSUME LInv, NEW w \in Worker, WorkerAbort(w) PROVE LInv'
<1>1. /\ UNCHANGED <<poolVars, ctxVars, input, closing, rd, failed, schedExit, alive>>
      /\ mpc' = "aborted" /\ rpc' = rpc
  BY DEF WorkerAbort, ctxVars, localVars
<1>2. TypeOK'
  BY <1>1 DEF LInv, TypeOK, PoolTypeOK, CtxTypeOK, poolVars, ctxVars, flagVars,
              docVars, localVars
<1>3. UNCHANGED DocAndJobs /\ UNCHANGED <<rd, edit>>
  BY <1>1 DEF DocAndJobs, poolVars, ctxVars, docVars, localVars
<1>4. rpc[Main] = "idle"
  BY DEF WorkerAbort, LInv, MainPosition
<1>5. MainPosition'
  BY <1>1, <1>4 DEF MainPosition
<1> QED
  BY <1>1, <1>2, <1>3, <1>4, <1>5, FrameMain

-------------------------------------------------------------------------------
(* Before the first message there is nothing to be wrong about.            *)
LEMMA InitLInv == Init => LInv
<1> SUFFICES ASSUME Init PROVE LInv
  OBVIOUS
<1>1. input \in Seq(Message \cup {Unreadable}) /\ Len(input) \in Nat
  BY InputsAssumption DEF Init
<1>2. TypeOK
  <2>1. <<>> \in Seq(Nat \ {NoJob}) /\ <<>> \in Seq(Write) /\ <<>> \in Seq(Reply)
    OBVIOUS
  <2>2. PoolTypeOK
    <3>1. jobs = <<>> /\ stopReq = FALSE
      BY DEF Init, PoolInit
    <3>2. wpc \in [Worker -> WorkerPc] /\ held \in [Worker -> Nat]
      BY DEF Init, PoolInit
    <3> QED
      BY <2>1, <3>1, <3>2 DEF PoolTypeOK
  <2>3. CtxTypeOK
    <3>1. log = <<>> /\ replies = <<>>
      BY DEF Init, CtxInit
    <3>2. /\ rpc \in [Thread -> RpcPc] /\ edit \in [Thread -> Nat]
          /\ status \in [Thread -> Status] /\ exitSeen \in [Thread -> BOOLEAN]
      BY DEF Init, CtxInit
    <3>3. /\ initialized \in BOOLEAN /\ canTrace \in BOOLEAN
          /\ trace \in TraceValue /\ ctxExit \in BOOLEAN /\ open \in BOOLEAN
      BY DEF Init, CtxInit
    <3> QED
      BY <2>1, <3>1, <3>2, <3>3 DEF CtxTypeOK
  <2>4. seen \in [DOMAIN input -> Nat \cup {NotSeen}]
    BY DEF Init
  <2>5. /\ input \in Inputs /\ closing \in BOOLEAN /\ schedExit \in BOOLEAN
        /\ alive \in BOOLEAN /\ mpc \in MainPc
        /\ rd = 0 /\ failed = 0
    BY DEF Init
  <2>6. 0 \in 0..Len(input) /\ 0 \in 0..(MaxFailed + 1)
    BY <1>1, MaxFailedAssumption
  <2> QED
    BY <2>2, <2>3, <2>4, <2>5, <2>6 DEF TypeOK
<1>3. JobsAreMessages
  BY DEF Init, PoolInit, JobsAreMessages
<1>4. MainPosition
  BY MaxFailedAssumption, ThreadAssumption DEF Init, CtxInit, MainPosition
<1>5. SeenByMessages /\ WritesSoFar /\ FreshReads /\ WritesInOrder
  BY DEF Init, CtxInit, SeenByMessages, WritesSoFar, FreshReads, WritesInOrder
<1> QED
  BY <1>2, <1>3, <1>4, <1>5 DEF LInv

(* Every step of every thread keeps the invariant.                         *)
LEMMA StepLInv == LInv /\ [Next]_vars => LInv'
<1> SUFFICES ASSUME LInv, [Next]_vars PROVE LInv'
  OBVIOUS
<1>1. CASE MainStep
  <2>1. Main \in Thread
    BY ThreadAssumption
  <2> QED
    BY <1>1, <2>1, ReadLInv, MainLInv, DispatchLInv, MainRpcLInv, LoadExitLInv,
       MainRpcEndLInv DEF MainStep
<1>2. ASSUME NEW w \in Worker, WorkerStep(w) PROVE LInv'
  <2>1. w \in Thread
    BY ThreadAssumption
  <2> QED
    BY <1>2, <2>1, WorkerLoopLInv, WorkerBeginLInv, WorkerRpcLInv, LoadExitLInv,
       WorkerRpcEndLInv, WorkerAbortLInv DEF WorkerStep
<1>3. CASE UNCHANGED vars
  <2>1. UNCHANGED <<poolVars, ctxVars, mainVars>>
    BY <1>3 DEF vars
  <2>2. TypeOK'
    BY <2>1 DEF LInv, TypeOK, PoolTypeOK, CtxTypeOK, poolVars, ctxVars, flagVars,
                docVars, localVars, mainVars
  <2>3. JobsAreMessages'
    BY <2>1 DEF LInv, JobsAreMessages, Concurrent, Readable, poolVars, mainVars
  <2> QED
    BY <2>1, <2>2, <2>3, FrameWorker DEF ctxVars, docVars, localVars, mainVars
<1> QED
  BY <1>1, <1>2, <1>3 DEF Next

(* The inductive invariant holds in every state of every behaviour.        *)
THEOREM Invariance == Spec => []LInv
  BY InitLInv, StepLInv, PTL DEF Spec

(* The server's variables have their types, for every client.              *)
THEOREM TypeCorrect == Spec => []TypeOK
<1>1. LInv => TypeOK
  BY DEF LInv
<1> QED
  BY <1>1, Invariance, PTL

(* No completion works on a document older than its place in the stream.   *)
THEOREM CompletionsReadFresh == Spec => []FreshReads
<1>1. LInv => FreshReads
  BY DEF LInv
<1> QED
  BY <1>1, Invariance, PTL

-------------------------------------------------------------------------------
(* The session                                                             *)

(* A message is in one place: queued once, or held by one thread, or about *)
(* to be queued.                                                           *)
OnePlace ==
  /\ \A k, l \in 1..Len(jobs) : jobs[k] = jobs[l] => k = l
  /\ \A w \in Worker, k \in 1..Len(jobs) : held[w] # jobs[k]
  /\ \A v, w \in Worker : held[v] = held[w] /\ held[v] # NoJob => v = w
  /\ mpc = "dispatch" => /\ \A k \in 1..Len(jobs) : jobs[k] # rd
                         /\ \A w \in Worker : held[w] # rd

(* A message with an answer is past its answer, wherever it is.            *)
PastAnswer(i) ==
  /\ \A k \in 1..Len(jobs) : jobs[k] # i
  /\ \A w \in Worker : held[w] = i => rpc[w] \in {"load", "store"}
  /\ i = rd => mpc \notin {"dispatch", "await"} /\ rpc[Main] \notin {"exec", "peek", "reply"}

AnswersPlaced ==
  /\ \A k \in DOMAIN replies : PastAnswer(replies[k].id)
  /\ \A t \in Thread : rpc[t] = "reply" => Current(t) # NoJob /\ IsRequest(input[Current(t)])

ExitRead == \E i \in 1..rd : IsA(i, "exit")

(* Every flag that asks for the exit goes back to an exit that was read.   *)
ExitFlags ==
  /\ ctxExit \/ schedExit \/ (\E t \in Thread : exitSeen[t]) => ExitRead
  /\ mpc = "rpc" => rpc[Main] # "idle"

(* The main thread is through with the handler of message i.               *)
Through(i) == i < rd \/ (i = rd /\ mpc \notin {"dispatch", "await"} /\ rpc[Main] # "exec")

(* An `initialize' that is through has had its effect, or came after an    *)
(* exit.                                                                   *)
InitializeWorked ==
  \A i \in 1..rd : Initializes(i) /\ Through(i) => initialized \/ ExitBefore(i)

Justified(j) == \A i \in 1..(j - 1) : Initializes(i) => ExitBefore(i)

RefusalsJustified ==
  /\ \A t \in Thread :
       rpc[t] \in {"peek", "reply"} /\ status[t] = "ServerNotInitialized" =>
         Justified(Current(t))
  /\ \A k \in DOMAIN replies :
       replies[k].status = "ServerNotInitialized" => Justified(replies[k].id)

(* Nothing is served before an `initialize' has been executed, and no      *)
(* write is of a message sent before it.                                   *)
ServedAfterInitialize ==
  /\ initialized => \E i \in 1..rd : Initializes(i) /\ Through(i)
  /\ ~ initialized => NothingServed
  /\ \A p \in DOMAIN log : \E i \in 1..(log[p].msg - 1) : Initializes(i)

(* The changes of a message reach the document one after the other, up to  *)
(* where its handler is.                                                   *)
ChangesInTurn ==
  /\ \A p \in DOMAIN log : log[p].edit > 0 => AppliedInTurn(p, log[p].msg, log[p].edit)
  /\ rpc[Main] = "idle" => edit[Main] = 0
  /\ rpc[Main] = "exec" /\ edit[Main] > 0 =>
       log # <<>> /\ log[Len(log)] = [msg |-> rd, edit |-> edit[Main]]

(* The failures counted are the last results of ReadRequest.               *)
FailuresCounted ==
  AtEof \/ (failed <= rd /\ \A i \in (rd - failed + 1)..rd : ~ Readable(i))

(* Message i has written, or may be about to.                              *)
Wrote(i) == (\E p \in DOMAIN log : log[p].msg = i) \/ (mpc = "rpc" /\ i = rd)

(* The earlier messages that have seen a write of i, or still may.         *)
Early(i) ==
  {c \in 1..(i - 1) : \/ \E p \in 1..seen[c] : log[p].msg = i
                      \/ \E w \in Worker : held[w] = c}

(* Whoever writes has found the queue empty.                               *)
Overtaking ==
  \A i \in DOMAIN input : Wrote(i) =>
    /\ \A k \in 1..Len(jobs) : i < jobs[k]
    /\ Cardinality(Early(i)) <= Cardinality(Worker)

SInv ==
  /\ OnePlace /\ AnswersPlaced /\ AnsweredAtMostOnce
  /\ ExitFlags /\ InitializeWorked /\ RefusalsJustified /\ ServedAfterInitialize
  /\ ChangesInTurn /\ FailuresCounted /\ ExitJustified /\ Overtaking

USE DEF NoJob, NotSeen

-------------------------------------------------------------------------------
(* What the jobs, the threads and the stream look like under LInv.         *)
LEMMA Shapes ==
  ASSUME LInv
  PROVE  /\ input \in Seq(Message \cup {Unreadable})
         /\ Len(input) \in Nat /\ DOMAIN input = 1..Len(input)
         /\ rd \in Nat /\ rd <= Len(input) /\ failed \in Nat
         /\ jobs \in Seq(Nat \ {NoJob}) /\ Len(jobs) \in Nat
         /\ \A k \in 1..Len(jobs) : jobs[k] \in 1..rd /\ Concurrent(jobs[k])
         /\ \A w \in Worker : /\ held[w] \in Nat
                              /\ held[w] # NoJob => held[w] \in 1..rd /\ Concurrent(held[w])
         /\ Main \in Thread /\ Main \notin Worker /\ Worker \subseteq Thread
         /\ Thread = Worker \cup {Main}
         /\ replies \in Seq(Reply) /\ DOMAIN replies = 1..Len(replies) /\ Len(replies) \in Nat
         /\ rpc \in [Thread -> RpcPc] /\ status \in [Thread -> Status]
         /\ held \in [Worker -> Nat] /\ exitSeen \in [Thread -> BOOLEAN]
<1> USE DEF LInv
<1>1. /\ input \in Inputs /\ input \in Seq(Message \cup {Unreadable})
      /\ rd \in 0..Len(input) /\ failed \in 0..(MaxFailed + 1)
  BY InputsAssumption DEF TypeOK
<1>2. Len(input) \in Nat /\ DOMAIN input = 1..Len(input)
  BY <1>1
<1>3. rd \in Nat /\ rd <= Len(input) /\ failed \in Nat
  BY <1>1, <1>2, MaxFailedAssumption
<1>4. jobs \in Seq(Nat \ {NoJob}) /\ Len(jobs) \in Nat /\ held \in [Worker -> Nat]
  BY DEF TypeOK, PoolTypeOK
<1>5. \A i : Concurrent(i) => i \in 1..rd
  BY DEF Concurrent
<1>6. \A k \in 1..Len(jobs) : jobs[k] \in 1..rd /\ Concurrent(jobs[k])
  BY <1>5 DEF JobsAreMessages
<1>7. \A w \in Worker : /\ held[w] \in Nat
                        /\ held[w] # NoJob => held[w] \in 1..rd /\ Concurrent(held[w])
  BY <1>4, <1>5 DEF JobsAreMessages
<1>8. /\ replies \in Seq(Reply) /\ rpc \in [Thread -> RpcPc] /\ status \in [Thread -> Status]
      /\ exitSeen \in [Thread -> BOOLEAN]
  BY DEF TypeOK, CtxTypeOK
<1>9. DOMAIN replies = 1..Len(replies) /\ Len(replies) \in Nat
  BY <1>8
<1> QED
  BY <1>1, <1>2, <1>3, <1>4, <1>6, <1>7, <1>8, <1>9, ThreadAssumption

(* Steps that move no job and read no message.                             *)
JobsStay ==
  /\ UNCHANGED <<jobs, held, rd>>
  /\ mpc' = "dispatch" => mpc = "dispatch"
  /\ mpc' = "await" => mpc \in {"dispatch", "await"}

(* Few steps move a job or read a message.                                 *)
LEMMA JobMoves ==
  ASSUME [Next]_vars
  PROVE  \/ JobsStay
         \/ ReadMessage \/ ReadGarbage \/ DispatchConcurrent
         \/ \E w \in Worker : WorkerBegin(w) \/ WorkerRpcEnd(w)
<1> USE DEF JobsStay
<1>1. CASE MainStep
  BY <1>1 DEF MainStep, ReadEof, Fail, CheckExit, StartPool, PoolStart, DispatchExclusive,
     AwaitEmpty, MainRpc, LoadExit, MainRpcEnd, DestroyContext, StopPool, PoolRequestStop,
     DrainPool, JoinPool, poolVars, mainVars
<1>2. ASSUME NEW w \in Worker, WorkerStep(w)
      PROVE  JobsStay \/ WorkerBegin(w) \/ WorkerRpcEnd(w)
  BY <1>2 DEF WorkerStep, WorkerLoop, WorkerCheck, WorkerIdle, WorkerRpc, LoadExit,
     WorkerAbort, poolVars, mainVars
<1>3. CASE UNCHANGED vars
  BY <1>3 DEF vars, poolVars, mainVars
<1> QED
  BY <1>1, <1>2, <1>3 DEF Next

(* What reading a message does.                                            *)
LEMMA ReadEffect ==
  ASSUME LInv, ReadMessage \/ ReadGarbage
  PROVE  /\ UNCHANGED <<poolVars, ctxVars, input, closing, schedExit, alive>>
         /\ mpc = "read" /\ mpc' \in {"dispatch", "check", "read", "exited"}
         /\ rd' = rd + 1 /\ rd < Len(input) /\ rpc[Main] = "idle"
  BY DEF ReadMessage, ReadGarbage, Fail, LInv, MainPosition

(* What taking a job does.                                                 *)
LEMMA TakeEffect ==
  ASSUME LInv, NEW w \in Worker, WorkerBegin(w)
  PROVE  /\ UNCHANGED <<stopReq, flagVars, docVars, seen, replies, edit, status, exitSeen,
                       mainVars>>
         /\ rpc' = [rpc EXCEPT ![w] = "exec"]
         /\ held' = [held EXCEPT ![w] = jobs[1]]
         /\ Len(jobs) > 0 /\ Len(jobs') = Len(jobs) - 1
         /\ \A k \in 1..Len(jobs') : k + 1 \in 1..Len(jobs) /\ jobs'[k] = jobs[k + 1]
<1>1. /\ UNCHANGED <<stopReq, flagVars, docVars, seen, replies, edit, status, exitSeen,
                    mainVars>>
      /\ rpc' = [rpc EXCEPT ![w] = "exec"]
      /\ held' = [held EXCEPT ![w] = Head(jobs)] /\ jobs # <<>> /\ jobs' = Tail(jobs)
  BY DEF WorkerBegin, WorkerTake, PoolEmpty, Enter
<1>2. jobs \in Seq(Nat \ {NoJob})
  BY Shapes
<1> QED
  BY <1>1, <1>2

(* What queueing a job does.                                               *)
LEMMA PushEffect ==
  ASSUME LInv, DispatchConcurrent
  PROVE  /\ UNCHANGED <<wpc, held, stopReq, ctxVars, input, closing, rd, failed, schedExit,
                       alive>>
         /\ mpc = "dispatch" /\ mpc' = "check" /\ rd > 0
         /\ Len(jobs') = Len(jobs) + 1 /\ jobs'[Len(jobs) + 1] = rd
         /\ \A k \in 1..Len(jobs) : jobs'[k] = jobs[k]
<1>1. /\ UNCHANGED <<wpc, held, stopReq, ctxVars, input, closing, rd, failed, schedExit,
                    alive>>
      /\ mpc = "dispatch" /\ mpc' = "check" /\ jobs' = Append(jobs, rd) /\ rd > 0
  BY DEF DispatchConcurrent, PoolPush, LInv, MainPosition
<1>2. jobs \in Seq(Nat \ {NoJob}) /\ rd \in Nat /\ rd \in Nat \ {NoJob}
  BY Shapes, <1>1
<1> QED
  BY <1>1, <1>2

(* What the end of a job does.                                             *)
LEMMA EndEffect ==
  ASSUME NEW w \in Worker, WorkerRpcEnd(w)
  PROVE  /\ UNCHANGED <<jobs, stopReq, flagVars, docVars, seen, replies, input, closing, rd,
                       failed, alive, mpc>>
         /\ held' = [held EXCEPT ![w] = NoJob]
         /\ rpc' = [rpc EXCEPT ![w] = "idle"]
         /\ status' = [status EXCEPT ![w] = "result"]
         /\ exitSeen' = [exitSeen EXCEPT ![w] = FALSE]
         /\ edit' = [edit EXCEPT ![w] = 0]
         /\ rpc[w] = "store" /\ schedExit' = exitSeen[w]
  BY DEF WorkerRpcEnd, WorkerFinish, StoreExit, Leave

-------------------------------------------------------------------------------
(* Each message stays in one place.                                        *)
LEMMA OnePlaceStep ==
  ASSUME LInv, OnePlace, [Next]_vars PROVE OnePlace'
<1>s. /\ rd \in Nat /\ Len(jobs) \in Nat
      /\ \A k \in 1..Len(jobs) : jobs[k] \in 1..rd
      /\ \A w \in Worker : held[w] \in 0..rd
      /\ held \in [Worker -> Nat]
  BY Shapes
<1>1. CASE JobsStay
  BY <1>1 DEF JobsStay, OnePlace
<1>2. CASE ReadMessage \/ ReadGarbage
  <2>1. rd' = rd + 1 /\ UNCHANGED <<jobs, held>>
    BY <1>2, ReadEffect DEF poolVars
  <2> QED
    BY <1>s, <2>1 DEF OnePlace
<1>3. CASE DispatchConcurrent
  <2>1. /\ mpc = "dispatch" /\ mpc' = "check" /\ held' = held
        /\ Len(jobs') = Len(jobs) + 1 /\ jobs'[Len(jobs) + 1] = rd
        /\ \A k \in 1..Len(jobs) : jobs'[k] = jobs[k]
    BY <1>3, PushEffect
  <2>2. \A k \in 1..Len(jobs') : k \in 1..Len(jobs) \/ k = Len(jobs) + 1
    BY <1>s, <2>1
  <2>3. /\ \A k \in 1..Len(jobs) : jobs[k] # rd
        /\ \A v \in Worker : held[v] # rd
    BY <2>1 DEF OnePlace
  <2>4. \A k, l \in 1..Len(jobs') : jobs'[k] = jobs'[l] => k = l
    BY <2>1, <2>2, <2>3 DEF OnePlace
  <2>5. \A v \in Worker, k \in 1..Len(jobs') : held'[v] # jobs'[k]
    BY <2>1, <2>2, <2>3 DEF OnePlace
  <2> QED
    BY <2>1, <2>4, <2>5 DEF OnePlace
<1>4. ASSUME NEW w \in Worker, WorkerBegin(w) PROVE OnePlace'
  <2>1. /\ UNCHANGED <<rd, mpc>> /\ held' = [held EXCEPT ![w] = jobs[1]]
        /\ 1 \in 1..Len(jobs) /\ Len(jobs') = Len(jobs) - 1
        /\ \A k \in 1..Len(jobs') : k + 1 \in 1..Len(jobs) /\ jobs'[k] = jobs[k + 1]
    BY <1>4, <1>s, TakeEffect DEF mainVars
  <2>2. \A v \in Worker : held'[v] = IF v = w THEN jobs[1] ELSE held[v]
    BY <1>s, <2>1
  <2>3. ASSUME NEW k \in 1..Len(jobs'), NEW l \in 1..Len(jobs'), jobs'[k] = jobs'[l]
        PROVE  k = l
    <3>1. k + 1 \in 1..Len(jobs) /\ l + 1 \in 1..Len(jobs) /\ jobs[k + 1] = jobs[l + 1]
      BY <2>1, <2>3
    <3>2. k + 1 = l + 1
      BY <3>1 DEF OnePlace
    <3> QED
      BY <3>2
  <2>4. \A v \in Worker, k \in 1..Len(jobs') : held'[v] # jobs'[k]
    BY <1>s, <2>1, <2>2 DEF OnePlace
  <2>5. \A u, v \in Worker : held'[u] = held'[v] /\ held'[u] # NoJob => u = v
    BY <1>s, <2>1, <2>2 DEF OnePlace
  <2>6. mpc' = "dispatch" => /\ \A k \in 1..Len(jobs') : jobs'[k] # rd'
                             /\ \A v \in Worker : held'[v] # rd'
    BY <1>s, <2>1, <2>2 DEF OnePlace
  <2> QED
    BY <2>3, <2>4, <2>5, <2>6 DEF OnePlace
<1>5. ASSUME NEW w \in Worker, WorkerRpcEnd(w) PROVE OnePlace'
  <2>1. UNCHANGED <<jobs, rd, mpc>> /\ held' = [held EXCEPT ![w] = NoJob]
    BY <1>5, EndEffect
  <2>2. \A v \in Worker : held'[v] = IF v = w THEN NoJob ELSE held[v]
    BY <1>s, <2>1
  <2>3. \A k \in 1..Len(jobs) : jobs[k] # NoJob
    BY <1>s
  <2>4. mpc = "dispatch" => rd # NoJob
    BY DEF LInv, MainPosition
  <2> QED
    BY <2>1, <2>2, <2>3, <2>4 DEF OnePlace
<1> QED
  BY JobMoves, <1>1, <1>2, <1>3, <1>4, <1>5

-------------------------------------------------------------------------------
(* A step of ExecuteRPC, on the main thread or on one of the pool's.       *)
Executes(t) ==
  /\ Current(t) # NoJob /\ Current(t) \in DOMAIN input /\ Current(t) <= rd
  /\ input[Current(t)] \in Message
  /\ ExecuteRPC(t, Current(t), input[Current(t)])
  /\ UNCHANGED <<poolVars, mainVars>>

(* The main thread executes the last message, the pool's execute theirs.   *)
LEMMA ExecutesOnMain == ASSUME LInv, MainRpc PROVE Executes(Main)
<1>1. rpc[Main] # "idle"
  BY DEF MainRpc, ExecuteRPC, Exec, Peek, Send
<1>2. rd > 0 /\ Readable(rd)
  BY <1>1 DEF LInv, MainPosition
<1>3. rd \in DOMAIN input /\ rd <= rd /\ rd # NoJob
  BY <1>2, Shapes
<1>4. input[rd] \in Message
  BY <1>2, <1>3, ReadableIsMessage DEF LInv
<1> QED
  BY <1>3, <1>4 DEF MainRpc, Executes, Current

LEMMA ExecutesOnWorker ==
  ASSUME LInv, NEW w \in Worker, WorkerRpc(w) PROVE Executes(w)
<1>1. Concurrent(held[w]) /\ held[w] \in 1..rd /\ held[w] # NoJob /\ Current(w) = held[w]
  BY Shapes DEF WorkerRpc, Current
<1>2. held[w] \in DOMAIN input /\ held[w] <= rd
  BY <1>1, Shapes
<1>3. input[held[w]] \in Message
  BY <1>1, <1>2, ReadableIsMessage DEF LInv, Concurrent
<1> QED
  BY <1>1, <1>2, <1>3 DEF WorkerRpc, Executes

(* Every step either leaves the Context and its threads alone or is one of *)
(* six on the way of a message.                                            *)
LEMMA Steps ==
  ASSUME LInv, [Next]_vars
  PROVE  \/ UNCHANGED ctxVars
         \/ AwaitEmpty \/ MainRpcEnd
         \/ \E w \in Worker : WorkerBegin(w) \/ WorkerRpcEnd(w)
         \/ \E t \in Thread : Executes(t) \/ LoadExit(t)
<1>s. Main \in Thread /\ Worker \subseteq Thread
  BY Shapes
<1>1. CASE MainStep
  <2>1. \/ UNCHANGED ctxVars \/ AwaitEmpty \/ MainRpcEnd \/ MainRpc \/ LoadExit(Main)
    BY <1>1 DEF MainStep, ReadMessage, ReadGarbage, ReadEof, Fail, CheckExit, StartPool,
       DispatchConcurrent, DispatchExclusive, DestroyContext, StopPool, DrainPool, JoinPool
  <2> QED
    BY <1>s, <2>1, ExecutesOnMain
<1>2. ASSUME NEW w \in Worker, WorkerStep(w)
      PROVE  \/ UNCHANGED ctxVars \/ WorkerBegin(w) \/ WorkerRpcEnd(w)
             \/ Executes(w) \/ LoadExit(w)
  BY <1>2, ExecutesOnWorker DEF WorkerStep, WorkerLoop, WorkerAbort
<1>3. CASE UNCHANGED vars
  BY <1>3 DEF vars
<1> QED
  BY <1>s, <1>1, <1>2, <1>3 DEF Next

(* The handler of thread t's message takes a step.                         *)
Handles(t) == Executes(t) /\ Exec(t, Current(t), input[Current(t)])

(* How far a thread gets with its message in one step.                     *)
Onwards(t) ==
  \/ rpc'[t] = rpc[t]
  \/ rpc[t] = "exec" /\ rpc'[t] = "peek" /\ Handles(t)
  \/ rpc[t] = "peek" /\ rpc'[t] = "load"
  \/ /\ rpc[t] = "peek" /\ rpc'[t] = "reply"
     /\ Current(t) # NoJob /\ IsRequest(input[Current(t)])
  \/ rpc[t] = "reply" /\ rpc'[t] = "load"
  \/ rpc[t] = "load" /\ rpc'[t] = "store"
  \/ t \in Worker /\ rpc'[t] = "exec" /\ WorkerBegin(t)
  \/ t \in Worker /\ rpc'[t] = "idle" /\ WorkerRpcEnd(t)
  \/ t = Main /\ rpc'[t] = "exec" /\ mpc = "await" /\ mpc' = "rpc"
  \/ t = Main /\ rpc'[t] = "idle" /\ mpc' = "check"

LEMMA ThreadsGoOn ==
  ASSUME LInv, [Next]_vars, NEW t \in Thread PROVE Onwards(t)
<1>s. rpc \in [Thread -> RpcPc] /\ Main \in Thread /\ Worker \subseteq Thread
  BY Shapes
<1>1. CASE UNCHANGED ctxVars
  BY <1>1 DEF Onwards, ctxVars, localVars
<1>2. CASE AwaitEmpty
  BY <1>2, <1>s DEF AwaitEmpty, Enter, Onwards
<1>3. CASE MainRpcEnd
  BY <1>3, <1>s DEF MainRpcEnd, StoreExit, Leave, Onwards
<1>4. ASSUME NEW w \in Worker, WorkerBegin(w) PROVE Onwards(t)
  BY <1>4, <1>s, TakeEffect DEF Onwards
<1>5. ASSUME NEW w \in Worker, WorkerRpcEnd(w) PROVE Onwards(t)
  BY <1>5, <1>s, EndEffect DEF Onwards
<1>6. ASSUME NEW u \in Thread, Executes(u) PROVE Onwards(t)
  <2> DEFINE i == Current(u)
             m == input[i]
  <2>1. i \in DOMAIN input /\ m \in Message /\ i # NoJob /\ TypeOK
    BY <1>6 DEF Executes, LInv
  <2>2. CASE Exec(u, i, m)
    <3>1. rpc[u] = "exec" /\ (rpc' = [rpc EXCEPT ![u] = "peek"] \/ rpc' = rpc)
      BY <2>1, <2>2, HandlerEffect DEF Exec, Quiet, Snapshot, WriteOnce, WriteEdit
    <3> QED
      BY <1>6, <1>s, <2>2, <3>1 DEF Onwards, Handles
  <2>3. CASE Peek(u, m)
    BY <1>s, <2>1, <2>3 DEF Peek, Onwards
  <2>4. CASE Send(u, i)
    BY <1>s, <2>4 DEF Send, Onwards
  <2> QED
    BY <1>6, <2>2, <2>3, <2>4 DEF Executes, ExecuteRPC
<1>7. ASSUME NEW u \in Thread, LoadExit(u) PROVE Onwards(t)
  BY <1>7, <1>s DEF LoadExit, Onwards
<1> QED
  BY Steps, <1>1, <1>2, <1>3, <1>4, <1>5, <1>6, <1>7

(* Only Send writes answers.                                               *)
LEMMA AnswersWritten ==
  ASSUME LInv, [Next]_vars
  PROVE  \/ replies' = replies
         \/ \E t \in Thread :
              /\ Executes(t) /\ rpc[t] = "reply" /\ rpc' = [rpc EXCEPT ![t] = "load"]
              /\ replies' = Append(replies, [id |-> Current(t), status |-> status[t]])
<1>1. CASE UNCHANGED ctxVars \/ AwaitEmpty \/ MainRpcEnd
  BY <1>1 DEF ctxVars, AwaitEmpty, MainRpcEnd, StoreExit
<1>2. ASSUME NEW w \in Worker, WorkerBegin(w) \/ WorkerRpcEnd(w) PROVE replies' = replies
  BY <1>2, TakeEffect, EndEffect
<1>3. ASSUME NEW t \in Thread, LoadExit(t) PROVE replies' = replies
  BY <1>3 DEF LoadExit
<1>4. ASSUME NEW t \in Thread, Executes(t)
      PROVE  \/ replies' = replies
             \/ /\ rpc[t] = "reply" /\ rpc' = [rpc EXCEPT ![t] = "load"]
                /\ replies' = Append(replies, [id |-> Current(t), status |-> status[t]])
  BY <1>4 DEF Executes, ExecuteRPC, Exec, Peek, Send
<1> QED
  BY Steps, <1>1, <1>2, <1>3, <1>4

-------------------------------------------------------------------------------
(* What is past its answer stays there.                                    *)
LEMMA PastAnswerStays ==
  ASSUME LInv, [Next]_vars, NEW i \in 1..rd, PastAnswer(i)
  PROVE  PastAnswer(i)'
<1>s. /\ rd \in Nat /\ Len(jobs) \in Nat /\ held \in [Worker -> Nat]
      /\ Main \in Thread /\ Worker \subseteq Thread
  BY Shapes
<1>1. /\ \A k \in 1..Len(jobs) : jobs[k] # i
      /\ \A w \in Worker : held[w] = i => rpc[w] \in {"load", "store"}
      /\ i = rd => mpc \notin {"dispatch", "await"} /\ rpc[Main] \notin {"exec", "peek", "reply"}
  BY DEF PastAnswer
<1>2. /\ \A k \in 1..Len(jobs') : jobs'[k] # i
      /\ \A w \in Worker : held'[w] = i => held[w] = i
      /\ i = rd' => i = rd /\ mpc' \notin {"dispatch", "await"}
  <2>1. CASE JobsStay
    BY <1>1, <2>1 DEF JobsStay
  <2>2. CASE ReadMessage \/ ReadGarbage
    <3>1. UNCHANGED <<jobs, held>> /\ rd' = rd + 1
      BY <2>2, ReadEffect DEF poolVars
    <3> QED
      BY <1>s, <1>1, <3>1
  <2>3. CASE DispatchConcurrent
    <3>1. /\ UNCHANGED <<held, rd>> /\ mpc = "dispatch" /\ mpc' = "check"
          /\ Len(jobs') = Len(jobs) + 1 /\ jobs'[Len(jobs) + 1] = rd
          /\ \A k \in 1..Len(jobs) : jobs'[k] = jobs[k]
      BY <2>3, PushEffect
    <3>2. \A k \in 1..Len(jobs') : k \in 1..Len(jobs) \/ k = Len(jobs) + 1
      BY <1>s, <3>1
    <3> QED
      BY <1>1, <3>1, <3>2
  <2>4. ASSUME NEW v \in Worker, WorkerBegin(v) PROVE <1>2!:
    <3>1. /\ UNCHANGED <<rd, mpc>> /\ held' = [held EXCEPT ![v] = jobs[1]]
          /\ 1 \in 1..Len(jobs)
          /\ \A k \in 1..Len(jobs') : k + 1 \in 1..Len(jobs) /\ jobs'[k] = jobs[k + 1]
      BY <2>4, <1>s, TakeEffect DEF mainVars
    <3> QED
      BY <1>s, <1>1, <3>1
  <2>5. ASSUME NEW v \in Worker, WorkerRpcEnd(v) PROVE <1>2!:
    <3>1. UNCHANGED <<jobs, rd, mpc>> /\ held' = [held EXCEPT ![v] = NoJob]
      BY <2>5, EndEffect
    <3> QED
      BY <1>s, <1>1, <3>1
  <2> QED
    BY JobMoves, <2>1, <2>2, <2>3, <2>4, <2>5
<1>3. ASSUME NEW w \in Worker, held'[w] = i PROVE rpc'[w] \in {"load", "store"}
  <2>1. ~ WorkerBegin(w)
    <3>1. WorkerBegin(w) => held' = [held EXCEPT ![w] = jobs[1]] /\ Len(jobs) > 0
      BY TakeEffect
    <3>2. WorkerBegin(w) => 1 \in 1..Len(jobs) /\ held'[w] = jobs[1]
      BY <1>s, <3>1
    <3> QED
      BY <1>1, <1>3, <3>2
  <2>2. ~ WorkerRpcEnd(w)
    BY <1>s, <1>3, EndEffect
  <2> QED
    BY <1>s, <1>1, <1>2, <1>3, <2>1, <2>2, ThreadsGoOn, ThreadAssumption DEF Onwards
<1>4. i = rd' => rpc'[Main] \notin {"exec", "peek", "reply"}
  BY <1>s, <1>1, <1>2, ThreadsGoOn, ThreadAssumption DEF Onwards
<1> QED
  BY <1>2, <1>3, <1>4 DEF PastAnswer

(* The client is chosen once.                                              *)
LEMMA InputStays == ASSUME [Next]_vars PROVE input' = input /\ closing' = closing
<1>1. CASE MainStep
  BY <1>1 DEF MainStep, ReadMessage, ReadGarbage, ReadEof, Fail, CheckExit, StartPool,
     DispatchConcurrent, DispatchExclusive, AwaitEmpty, MainRpc, LoadExit, MainRpcEnd,
     DestroyContext, StopPool, DrainPool, JoinPool, mainVars
<1>2. ASSUME NEW w \in Worker, WorkerStep(w) PROVE input' = input /\ closing' = closing
  BY <1>2 DEF WorkerStep, WorkerLoop, WorkerBegin, WorkerRpc, LoadExit, WorkerRpcEnd,
     WorkerAbort, mainVars
<1>3. CASE UNCHANGED vars
  BY <1>3 DEF vars, mainVars
<1> QED
  BY <1>1, <1>2, <1>3 DEF Next

(* A thread keeps its message until it is done with it.                    *)
LEMMA CurrentStays ==
  ASSUME LInv, [Next]_vars, NEW t \in Thread, rpc[t] # "idle",
         t \in Worker => ~ WorkerBegin(t) /\ ~ WorkerRpcEnd(t)
  PROVE  Current(t)' = Current(t)
<1>s. held \in [Worker -> Nat] /\ Thread = Worker \cup {Main}
  BY Shapes
<1>1. CASE JobsStay
  BY <1>1 DEF JobsStay, Current
<1>2. CASE ReadMessage \/ ReadGarbage
  <2>1. held' = held /\ t # Main
    BY <1>2, ReadEffect DEF poolVars
  <2> QED
    BY <2>1 DEF Current
<1>3. CASE DispatchConcurrent
  BY <1>3, PushEffect DEF Current
<1>4. ASSUME NEW w \in Worker, WorkerBegin(w) PROVE Current(t)' = Current(t)
  <2>1. w # t /\ held' = [held EXCEPT ![w] = jobs[1]] /\ rd' = rd
    BY <1>4, TakeEffect DEF mainVars
  <2> QED
    BY <1>s, <2>1 DEF Current
<1>5. ASSUME NEW w \in Worker, WorkerRpcEnd(w) PROVE Current(t)' = Current(t)
  <2>1. w # t /\ held' = [held EXCEPT ![w] = NoJob] /\ rd' = rd
    BY <1>5, EndEffect
  <2> QED
    BY <1>s, <2>1 DEF Current
<1> QED
  BY JobMoves, <1>1, <1>2, <1>3, <1>4, <1>5

(* Answering once.  The message that is answered is nowhere else: not      *)
(* queued, not held by another thread, and not the one main executes.      *)
LEMMA AnswersStep ==
  ASSUME LInv, LInv', OnePlace, AnswersPlaced, AnsweredAtMostOnce, [Next]_vars
  PROVE  AnswersPlaced' /\ AnsweredAtMostOnce'
<1>s. /\ rd \in Nat /\ Len(replies) \in Nat /\ DOMAIN replies = 1..Len(replies)
      /\ replies \in Seq(Reply)
      /\ Main \in Thread /\ Worker \subseteq Thread /\ Thread = Worker \cup {Main}
      /\ Main \notin Worker /\ rpc \in [Thread -> RpcPc] /\ input' = input
  BY Shapes, InputStays
<1>r. rd' \in {rd, rd + 1}
  <2>1. CASE JobsStay
    BY <2>1 DEF JobsStay
  <2>2. CASE ReadMessage \/ ReadGarbage
    BY <2>2, ReadEffect
  <2>3. CASE DispatchConcurrent
    BY <2>3, PushEffect
  <2>4. ASSUME NEW w \in Worker, WorkerBegin(w) \/ WorkerRpcEnd(w) PROVE rd' = rd
    BY <2>4, TakeEffect, EndEffect DEF mainVars
  <2> QED
    BY JobMoves, <2>1, <2>2, <2>3, <2>4
<1>1. ASSUME NEW t \in Thread, rpc'[t] = "reply"
      PROVE  (Current(t) # NoJob /\ IsRequest(input[Current(t)]))'
  <2>1. rpc[t] \in {"peek", "reply"} /\ Current(t) # NoJob /\ IsRequest(input[Current(t)])
    BY <1>1, ThreadsGoOn DEF Onwards, AnswersPlaced
  <2>2. t \in Worker => ~ WorkerBegin(t) /\ ~ WorkerRpcEnd(t)
    BY <1>s, <1>1, TakeEffect, EndEffect
  <2>3. Current(t)' = Current(t)
    BY <2>1, <2>2, CurrentStays
  <2> QED
    BY <1>s, <2>1, <2>3 DEF IsRequest
<1>2. \A k \in DOMAIN replies : \E i \in 1..rd :
        /\ i = replies[k].id /\ Readable(i) /\ IsRequest(input[i])
        /\ PastAnswer(i) /\ PastAnswer(i)'
  <2>1. \A k \in DOMAIN replies : \E i \in 1..rd :
          /\ i = replies[k].id /\ Readable(i) /\ IsRequest(input[i]) /\ PastAnswer(i)
    BY <1>s DEF AnsweredAtMostOnce, AnswersPlaced
  <2>2. \A i \in 1..rd : PastAnswer(i) => PastAnswer(i)'
    BY PastAnswerStays
  <2> QED
    BY <2>1, <2>2
<1>3. CASE replies' = replies
  <2>1. \A k \in DOMAIN replies' : \E i \in 1..rd : i = replies'[k].id /\ PastAnswer(i)'
    BY <1>2, <1>3
  <2>2. AnsweredAtMostOnce'
    BY <1>s, <1>r, <1>2, <1>3 DEF AnsweredAtMostOnce, Readable, IsRequest
  <2>3. AnswersPlaced'
    BY <1>1, <2>1 DEF AnswersPlaced, PastAnswer
  <2> QED
    BY <2>2, <2>3
<1>4. ASSUME NEW t \in Thread, Executes(t), rpc[t] = "reply",
             rpc' = [rpc EXCEPT ![t] = "load"],
             replies' = Append(replies, [id |-> Current(t), status |-> status[t]])
      PROVE  AnswersPlaced' /\ AnsweredAtMostOnce'
  <2>i. PICK i \in 1..rd : i = Current(t) /\ input[i] \in Message
    BY <1>4, Shapes DEF Executes
  <2> DEFINE new == [id |-> i, status |-> status[t]]
  <2>1. /\ i \in 1..rd /\ input[i] \in Message /\ IsRequest(input[i]) /\ Readable(i)
        /\ UNCHANGED <<poolVars, mainVars>>
    <3>1. i \in 1..rd /\ input[i] \in Message /\ UNCHANGED <<poolVars, mainVars>>
      BY <1>4, <2>i DEF Executes
    <3>2. Readable(i)
      BY <3>1, InputsAssumption DEF Readable
    <3> QED
      BY <1>4, <2>i, <3>1, <3>2 DEF AnswersPlaced
  <2>2. /\ DOMAIN replies' = 1..(Len(replies) + 1)
        /\ replies'[Len(replies) + 1] = new
        /\ \A k \in DOMAIN replies : replies'[k] = replies[k]
    <3>1. new \in Reply
      BY <1>s, <2>1, Shapes DEF Reply, LInv, TypeOK, CtxTypeOK
    <3> QED
      BY <1>s, <1>4, <2>i, <3>1
  <2>3. \A k \in DOMAIN replies : replies[k].id # i
    <3>1. ~ PastAnswer(i)
      BY <1>s, <1>4, <2>i DEF PastAnswer, Current, LInv, MainPosition
    <3> QED
      BY <1>2, <3>1
  <2>4. PastAnswer(i)'
    <3>1. \A k \in 1..Len(jobs) : jobs[k] # i
      <4>1. CASE t = Main
        <5>1. ~ IsConcurrent(input[rd])
          BY <1>4, <4>1 DEF LInv, MainPosition
        <5> QED
          BY <2>i, <4>1, <5>1, Shapes DEF Current, Concurrent
      <4>2. CASE t \in Worker
        BY <1>s, <2>i, <4>2 DEF Current, OnePlace
      <4> QED
        BY <1>s, <4>1, <4>2
    <3>2. \A w \in Worker : held[w] = i => w = t
      <4>1. CASE t = Main
        <5>1. ~ IsConcurrent(input[rd]) /\ i = rd
          BY <1>4, <2>i, <4>1 DEF LInv, MainPosition, Current
        <5>2. \A w \in Worker : held[w] # NoJob => IsConcurrent(input[held[w]])
          BY DEF LInv, JobsAreMessages, Concurrent
        <5>3. i # NoJob
          BY <1>s
        <5> QED
          BY <5>1, <5>2, <5>3
      <4>2. CASE t \in Worker
        BY <1>s, <2>i, <2>1, <4>2 DEF Current, OnePlace
      <4> QED
        BY <1>s, <4>1, <4>2
    <3>3. i = rd => mpc \notin {"dispatch", "await"} /\ rpc'[Main] \notin {"exec", "peek", "reply"}
      <4>1. CASE t = Main
        BY <1>s, <1>4, <4>1 DEF LInv, MainPosition
      <4>2. ASSUME t \in Worker, i = rd
            PROVE  mpc \notin {"dispatch", "await"} /\ rpc[Main] = "idle" /\ t # Main
        <5>1. Concurrent(rd) /\ held[t] = rd /\ t # Main
          BY <1>s, <2>i, <2>1, <4>2, Shapes DEF Current
        <5> QED
          BY <4>2, <5>1 DEF Concurrent, LInv, MainPosition, OnePlace
      <4> QED
        BY <1>s, <1>4, <4>1, <4>2
    <3>4. UNCHANGED <<jobs, held, rd, mpc>> /\ rpc'[t] = "load"
      BY <1>s, <1>4, <2>1 DEF poolVars, mainVars
    <3> QED
      BY <3>1, <3>2, <3>3, <3>4 DEF PastAnswer
  <2>5. \A k \in DOMAIN replies' : k \in DOMAIN replies \/ k = Len(replies) + 1
    BY <1>s, <2>2
  <2>6. \A k \in DOMAIN replies' : \E j \in 1..rd : j = replies'[k].id /\ PastAnswer(j)'
    BY <1>2, <2>1, <2>2, <2>4, <2>5
  <2>7. \A k, l \in DOMAIN replies' : replies'[k].id = replies'[l].id => k = l
    BY <2>2, <2>3, <2>5 DEF AnsweredAtMostOnce
  <2>8. \A k \in DOMAIN replies' :
          replies'[k].id \in {j \in 1..rd : Readable(j) /\ IsRequest(input[j])}
    BY <1>2, <2>1, <2>2, <2>5
  <2>9. AnsweredAtMostOnce'
    BY <1>s, <2>1, <2>7, <2>8 DEF AnsweredAtMostOnce, Readable, IsRequest, mainVars
  <2> QED
    BY <1>1, <2>6, <2>9 DEF AnswersPlaced, PastAnswer
<1> QED
  BY AnswersWritten, <1>3, <1>4

-------------------------------------------------------------------------------
(* What a handler does to the flags and to the response.                   *)
LEMMA HandlerFlags ==
  ASSUME TypeOK, NEW t \in Thread, NEW i, NEW m \in Message, Exec(t, i, m)
  PROVE  /\ exitSeen' = exitSeen
         /\ ctxExit' => ctxExit \/ m.method = "exit"
         /\ initialized => initialized'
         /\ initialized' /\ ~ initialized =>
              m.method = "initialize" /\ ~ Malformed(m) /\ rpc'[t] = "peek"
         /\ m.method = "initialize" /\ ~ Malformed(m) => initialized'
         /\ log' # log \/ seen' # seen \/ open' # open => initialized
         /\ trace' # trace => initialized'
         /\ rpc'[t] = "peek" /\ ~ initialized' =>
              \/ status'[t] = "ServerNotInitialized"
              \/ m.method \in {"initialize", "initialized", "exit"}
         /\ \A u \in Thread \ {t} : status'[u] = status[u]
         /\ rpc'[t] = "peek" /\ status'[t] = "ServerNotInitialized" => ~ initialized
<1>s. /\ rpc \in [Thread -> RpcPc] /\ status \in [Thread -> Status] /\ rpc[t] = "exec"
      /\ initialized \in BOOLEAN
  BY DEF TypeOK, CtxTypeOK, Exec
<1> USE DEF Accepts, Served, Return, flagVars, docVars
<1>1. CASE Refuse(t, m)
  BY <1>s, <1>1 DEF Refuse
<1>2. CASE Unknown(t, m) \/ Reject(t, m)
  BY <1>s, <1>2 DEF Unknown, Reject
<1>3. CASE Initialize(t, m)
  BY <1>s, <1>3 DEF Initialize
<1>4. CASE Initialized(t, m) \/ SetTrace(t, m) \/ Exit(t, m) \/ Shutdown(t, m)
  BY <1>s, <1>4 DEF Initialized, SetTrace, Exit, Shutdown
<1>5. CASE Completion(t, i, m)
  BY <1>s, <1>5 DEF Completion
<1>6. CASE DidOpen(t, i, m) \/ DidClose(t, i, m) \/ DidSave(t, i, m)
  BY <1>s, <1>6 DEF DidOpen, DidClose, DidSave
<1>7. CASE DidChangeEdit(t, i, m) \/ DidChangeEnd(t, m)
  BY <1>s, <1>7 DEF DidChangeEdit, DidChangeEnd
<1> QED
  BY <1>1, <1>2, <1>3, <1>4, <1>5, <1>6, <1>7 DEF Exec, Handler

(* Only handlers change the flags of the Context, its document and what    *)
(* was seen of it.                                                         *)
LEMMA ContextChanges ==
  ASSUME LInv, [Next]_vars
  PROVE  UNCHANGED <<initialized, trace, ctxExit, open, log, seen>> \/ \E t \in Thread : Handles(t)
<1>1. CASE UNCHANGED ctxVars \/ AwaitEmpty \/ MainRpcEnd
  BY <1>1 DEF ctxVars, flagVars, docVars, AwaitEmpty, MainRpcEnd, StoreExit
<1>2. ASSUME NEW w \in Worker, WorkerBegin(w) \/ WorkerRpcEnd(w)
      PROVE  UNCHANGED <<initialized, trace, ctxExit, open, log, seen>>
  BY <1>2, TakeEffect, EndEffect DEF flagVars, docVars
<1>3. ASSUME NEW t \in Thread, LoadExit(t) PROVE UNCHANGED <<initialized, trace, ctxExit, open, log, seen>>
  BY <1>3 DEF LoadExit, flagVars, docVars
<1>4. ASSUME NEW t \in Thread, Executes(t)
      PROVE  UNCHANGED <<initialized, trace, ctxExit, open, log, seen>> \/ Handles(t)
  BY <1>4 DEF Executes, Handles, ExecuteRPC, Peek, Send, flagVars, docVars
<1> QED
  BY Steps, <1>1, <1>2, <1>3, <1>4

(* How the main thread moves.                                              *)
LEMMA MainMoves ==
  ASSUME LInv, [Next]_vars
  PROVE  \/ mpc' = mpc /\ rd' = rd /\ failed' = failed
         \/ ReadMessage \/ ReadGarbage \/ ReadEof
         \/ mpc = "check" /\ mpc' = (IF schedExit THEN "exited" ELSE "read")
                          /\ UNCHANGED <<rd, failed, ctxVars>>
         \/ mpc = "dispatch" /\ mpc' = "await" /\ UNCHANGED <<rd, failed, ctxVars>>
         \/ DispatchConcurrent \/ AwaitEmpty
         \/ mpc = "rpc" /\ mpc' = "check" /\ MainRpcEnd /\ UNCHANGED <<rd, failed>>
         \/ Exited /\ Exited' /\ UNCHANGED <<rd, failed, ctxVars>>
<1>1. CASE MainStep
  BY <1>1 DEF MainStep, CheckExit, StartPool, DispatchExclusive, MainRpc, LoadExit,
     MainRpcEnd, StoreExit, DestroyContext, StopPool, DrainPool, JoinPool, mainVars,
     Exited, LInv, MainPosition
<1>2. ASSUME NEW w \in Worker, WorkerStep(w)
      PROVE  \/ mpc' = mpc /\ rd' = rd /\ failed' = failed
             \/ Exited /\ Exited' /\ UNCHANGED <<rd, failed, ctxVars>>
  BY <1>2 DEF WorkerStep, WorkerLoop, WorkerBegin, WorkerRpc, LoadExit, WorkerRpcEnd,
     WorkerAbort, mainVars, Exited, LInv, MainPosition
<1>3. CASE UNCHANGED vars
  BY <1>3 DEF vars, mainVars
<1> QED
  BY <1>1, <1>2, <1>3 DEF Next

(* What has been read stays read.                                          *)
LEMMA ReadingGoesOn ==
  ASSUME LInv, [Next]_vars
  PROVE  /\ rd' \in {rd, rd + 1} /\ rd \in Nat /\ input' = input
         /\ ExitRead => ExitRead'
<1>1. rd' \in {rd, rd + 1}
  BY MainMoves, ReadEffect, PushEffect DEF ReadEof, AwaitEmpty
<1>2. rd \in Nat /\ input' = input
  BY Shapes, InputStays
<1> QED
  BY <1>1, <1>2 DEF ExitRead, IsA, Readable

-------------------------------------------------------------------------------
(* Only the end of a message stores the scheduler's exit flag.             *)
LEMMA ExitStored ==
  ASSUME [Next]_vars
  PROVE  schedExit' = schedExit \/ MainRpcEnd \/ \E w \in Worker : WorkerRpcEnd(w)
<1>1. CASE MainStep
  BY <1>1 DEF MainStep, ReadMessage, ReadGarbage, ReadEof, Fail, CheckExit, StartPool,
     DispatchConcurrent, DispatchExclusive, AwaitEmpty, MainRpc, LoadExit,
     DestroyContext, StopPool, DrainPool, JoinPool, mainVars
<1>2. ASSUME NEW w \in Worker, WorkerStep(w) PROVE schedExit' = schedExit \/ WorkerRpcEnd(w)
  BY <1>2 DEF WorkerStep, WorkerLoop, WorkerBegin, WorkerRpc, LoadExit, WorkerAbort, mainVars
<1>3. CASE UNCHANGED vars
  BY <1>3 DEF vars, mainVars
<1> QED
  BY <1>1, <1>2, <1>3 DEF Next

(* The flags that ask for the exit are copied from one another and go back *)
(* to the handler of `exit'.                                               *)
LEMMA ExitFlagsStep == ASSUME LInv, ExitFlags, [Next]_vars PROVE ExitFlags'
<1>s. /\ exitSeen \in [Thread -> BOOLEAN] /\ Main \in Thread /\ Worker \subseteq Thread
      /\ Main \notin Worker
  BY Shapes
<1> DEFINE Asked == ctxExit \/ schedExit \/ \E t \in Thread : exitSeen[t]
<1>1. Asked => ExitRead
  BY DEF ExitFlags
<1>2. Asked' => Asked \/ ExitRead'
  <2>1. CASE UNCHANGED <<ctxVars, schedExit>>
    BY <2>1 DEF ctxVars, flagVars, localVars
  <2>2. CASE AwaitEmpty
    BY <2>2 DEF AwaitEmpty, Enter, flagVars
  <2>3. CASE MainRpcEnd
    BY <1>s, <2>3 DEF MainRpcEnd, StoreExit, Leave, flagVars
  <2>4. ASSUME NEW w \in Worker, WorkerBegin(w) PROVE Asked' => Asked
    BY <2>4, TakeEffect DEF flagVars, mainVars
  <2>5. ASSUME NEW w \in Worker, WorkerRpcEnd(w) PROVE Asked' => Asked
    BY <1>s, <2>5, EndEffect DEF flagVars
  <2>6. ASSUME NEW t \in Thread, LoadExit(t) PROVE Asked' => Asked
    BY <1>s, <2>6 DEF LoadExit, flagVars, mainVars
  <2>7. ASSUME NEW t \in Thread, Executes(t) PROVE Asked' => Asked \/ ExitRead'
    <3>1. PICK i \in 1..rd : i = Current(t) /\ input[i] \in Message
      BY <2>7, Shapes DEF Executes
    <3>2. CASE Exec(t, i, input[i])
      <4>1. exitSeen' = exitSeen /\ (ctxExit' => ctxExit \/ input[i].method = "exit")
        BY <3>1, <3>2, HandlerFlags DEF LInv
      <4>2. input[i] # Unreadable /\ rd' = rd /\ input' = input /\ schedExit' = schedExit
        BY <2>7, <3>1, InputsAssumption DEF Executes, mainVars
      <4>3. input[i].method = "exit" => ExitRead'
        BY <3>1, <4>2 DEF ExitRead, IsA, Readable
      <4> QED
        BY <4>1, <4>2, <4>3
    <3>3. CASE Peek(t, input[i]) \/ Send(t, i)
      BY <1>s, <2>7, <3>3 DEF Executes, Peek, Send, flagVars, mainVars
    <3> QED
      BY <2>7, <3>1, <3>2, <3>3 DEF Executes, ExecuteRPC
  <2> QED
    BY Steps, ExitStored, <2>1, <2>2, <2>3, <2>4, <2>5, <2>6, <2>7
<1>3. mpc' = "rpc" => rpc'[Main] # "idle"
  <2>1. mpc' = "rpc" => mpc = "rpc" \/ AwaitEmpty
    BY MainMoves, ReadEffect, PushEffect DEF ReadEof, Fail, Exited
  <2>2. AwaitEmpty => rpc'[Main] = "exec"
    BY <1>s, Shapes DEF AwaitEmpty, Enter
  <2>3. mpc = "rpc" /\ mpc' = "rpc" => rpc'[Main] # "idle"
    BY <1>s, ThreadsGoOn DEF ExitFlags, Onwards
  <2> QED
    BY <2>1, <2>2, <2>3
<1> QED
  BY <1>1, <1>2, <1>3, ReadingGoesOn DEF ExitFlags

(* An `initialize' is executed before anything after it is read, unless    *)
(* the server ignores it because it has been asked to exit.                *)
LEMMA InitializeStep ==
  ASSUME LInv, ExitFlags, InitializeWorked, [Next]_vars PROVE InitializeWorked'
<1>s. /\ rd \in Nat /\ rd' \in {rd, rd + 1} /\ input' = input /\ Main \in Thread
      /\ Main \notin Worker
  BY ReadingGoesOn, Shapes
<1>1. \A i : (Initializes(i)' <=> Initializes(i)) /\ (ExitBefore(i)' <=> ExitBefore(i))
  BY <1>s DEF Initializes, ExitBefore, IsA, Readable, Malformed
<1>2. initialized => initialized'
  BY ContextChanges, HandlerFlags DEF Handles, Executes, LInv
<1> SUFFICES ASSUME NEW i \in 1..rd', Initializes(i), Through(i)'
             PROVE  initialized' \/ ExitBefore(i)
  BY <1>1 DEF InitializeWorked
<1>3. CASE i \in 1..rd /\ Through(i)
  BY <1>2, <1>3 DEF InitializeWorked
<1>4. CASE i = rd + 1
  <2>1. ReadMessage \/ ReadGarbage
    BY <1>s, <1>4, MainMoves, PushEffect DEF ReadEof, AwaitEmpty
  <2>2. rd' = rd + 1 /\ ReadMessage /\ mpc' # "dispatch"
    BY <1>s, <1>4, <2>1, ReadEffect DEF ReadGarbage, Initializes, IsA, Readable, Through
  <2>3. schedExit
    BY <2>2 DEF ReadMessage
  <2> QED
    BY <1>s, <1>4, <2>3 DEF ExitFlags, ExitRead, ExitBefore
<1>5. CASE i = rd /\ ~ Through(i)
  <2>1. IsA(rd, "initialize") /\ ~ Malformed(input[rd]) /\ ~ IsConcurrent(input[rd])
    BY <1>5 DEF Initializes, IsA, IsConcurrent
  <2>2. mpc \in {"dispatch", "await"} \/ rpc[Main] = "exec"
    BY <1>5 DEF Through
  <2>3. mpc \in {"dispatch", "await", "rpc"}
    BY <2>2 DEF LInv, MainPosition
  <2>4. rd' = rd
    BY <1>s, <2>3, MainMoves, ReadEffect, PushEffect DEF ReadEof, AwaitEmpty
  <2>5. mpc' \notin {"dispatch", "await"} /\ rpc'[Main] # "exec"
    BY <1>5, <2>4 DEF Through
  <2>6. ~ DispatchConcurrent
    BY <2>1 DEF DispatchConcurrent
  <2>7. ~ AwaitEmpty
    BY <1>s, <2>5, Shapes DEF AwaitEmpty, Enter
  <2>8. rpc[Main] = "exec" /\ rpc'[Main] = "peek"
    <3>1. mpc \notin {"dispatch", "await"}
      BY <2>5, <2>6, <2>7, MainMoves DEF ReadMessage, ReadGarbage, ReadEof, Exited
    <3>2. rpc[Main] = "exec"
      BY <2>2, <3>1
    <3>3. ~ (rpc'[Main] = "idle" /\ mpc' = "check")
      <4>1. MainRpcEnd => rpc[Main] = "store"
        BY DEF MainRpcEnd, StoreExit
      <4>2. mpc = "rpc" /\ (mpc' = "check" => MainRpcEnd)
        BY <2>3, <3>1, MainMoves, PushEffect DEF ReadMessage, ReadGarbage, ReadEof, AwaitEmpty, Exited
      <4> QED
        BY <3>2, <4>1, <4>2
    <3> QED
      BY <1>s, <2>5, <3>2, <3>3, ThreadsGoOn DEF Onwards
  <2>9. Handles(Main)
    BY <1>s, <2>8, ThreadsGoOn DEF Onwards
  <2>10. Exec(Main, rd, input[rd]) /\ input[rd] \in Message /\ TypeOK
    BY <2>9 DEF Handles, Executes, Current, LInv
  <2>11. input[rd].method = "initialize" /\ ~ Malformed(input[rd])
    BY <2>1 DEF IsA
  <2> QED
    BY <1>s, <2>10, <2>11, HandlerFlags
<1> QED
  BY <1>s, <1>3, <1>4, <1>5 DEF Through

(* The response of a thread is set by its handler and then kept.           *)
LEMMA StatusKept ==
  ASSUME LInv, [Next]_vars, NEW t \in Thread, rpc'[t] \in {"peek", "reply"}
  PROVE  /\ Current(t)' = Current(t)
         /\ \/ rpc[t] \in {"peek", "reply"} /\ status'[t] = status[t]
            \/ rpc'[t] = "peek" /\ Handles(t)
<1>s. /\ Thread = Worker \cup {Main} /\ Main \notin Worker
      /\ rpc \in [Thread -> RpcPc] /\ status \in [Thread -> Status]
  BY Shapes
<1>1. t \in Worker => ~ WorkerBegin(t) /\ ~ WorkerRpcEnd(t)
  BY <1>s, TakeEffect, EndEffect
<1>2. rpc[t] \in {"peek", "reply"} \/ (rpc[t] = "exec" /\ rpc'[t] = "peek" /\ Handles(t))
  BY <1>s, ThreadsGoOn DEF Onwards
<1>3. Current(t)' = Current(t)
  BY <1>1, <1>2, CurrentStays
<1>5. CASE rpc[t] \in {"peek", "reply"}
  <2>1. ASSUME UNCHANGED ctxVars PROVE status'[t] = status[t]
    BY <2>1 DEF ctxVars, localVars
  <2>2. ASSUME AwaitEmpty PROVE status'[t] = status[t]
    BY <2>2 DEF AwaitEmpty, Enter
  <2>3. ASSUME MainRpcEnd PROVE status'[t] = status[t]
    BY <1>s, <1>5, <2>3 DEF MainRpcEnd, StoreExit, Leave
  <2>4. ASSUME NEW w \in Worker, WorkerBegin(w) PROVE status'[t] = status[t]
    BY <2>4, TakeEffect
  <2>5. ASSUME NEW w \in Worker, WorkerRpcEnd(w) PROVE status'[t] = status[t]
    BY <1>s, <1>5, <2>5, EndEffect
  <2>6. ASSUME NEW u \in Thread, LoadExit(u) PROVE status'[t] = status[t]
    BY <2>6 DEF LoadExit
  <2>7. ASSUME NEW u \in Thread, Executes(u) PROVE status'[t] = status[t]
    <3>1. CASE Exec(u, Current(u), input[Current(u)])
      <4>1. t # u
        BY <1>5, <3>1 DEF Exec
      <4>2. TypeOK /\ input[Current(u)] \in Message
        BY <2>7 DEF Executes, LInv
      <4> QED
        BY <3>1, <4>1, <4>2, HandlerFlags
    <3>2. CASE Peek(u, input[Current(u)]) \/ Send(u, Current(u))
      BY <3>2 DEF Peek, Send
    <3> QED
      BY <2>7, <3>1, <3>2 DEF Executes, ExecuteRPC
  <2>8. status'[t] = status[t]
    BY <1>s, <1>5, Steps, <2>1, <2>2, <2>3, <2>4, <2>5, <2>6, <2>7
  <2> QED
    BY <1>3, <1>5, <2>8
<1> QED
  BY <1>2, <1>3, <1>5

(* A handler refuses only before `initialize'.                             *)
LEMMA RefusedByStranger ==
  ASSUME LInv, [Next]_vars, NEW t \in Thread,
         rpc'[t] \in {"peek", "reply"}, status'[t] = "ServerNotInitialized"
  PROVE  \/ rpc[t] \in {"peek", "reply"} /\ status[t] = "ServerNotInitialized"
         \/ Executes(t) /\ ~ initialized
<1>1. CASE rpc'[t] = "peek" /\ Handles(t)
  <2>1. TypeOK /\ Exec(t, Current(t), input[Current(t)]) /\ input[Current(t)] \in Message
    BY <1>1 DEF Handles, Executes, LInv
  <2>2. ~ initialized
    BY <1>1, <2>1, HandlerFlags
  <2> QED
    BY <1>1, <2>2 DEF Handles
<1> QED
  BY <1>1, StatusKept

(* A request is refused only by a server no `initialize' has reached.      *)
LEMMA RefusalsStep ==
  ASSUME LInv, InitializeWorked, RefusalsJustified, [Next]_vars
  PROVE  RefusalsJustified'
<1>s. /\ rd \in Nat /\ input' = input /\ DOMAIN replies = 1..Len(replies)
      /\ Len(replies) \in Nat /\ replies \in Seq(Reply)
  BY ReadingGoesOn, Shapes
<1>1. \A j : Justified(j) => Justified(j)'
  BY <1>s DEF Justified, Initializes, ExitBefore, IsA, Readable, Malformed
<1>2. ASSUME NEW t \in Thread, rpc'[t] \in {"peek", "reply"},
             status'[t] = "ServerNotInitialized"
      PROVE  \E j \in {Current(t)} : j = Current(t)' /\ Justified(j)'
  <2>1. ASSUME ~ initialized, Executes(t) PROVE Justified(Current(t))
    <3>1. Current(t) \in 1..rd
      BY <2>1, Shapes DEF Executes
    <3>2. \A i \in 1..(Current(t) - 1) : i \in 1..rd /\ Through(i)
      BY <1>s, <3>1 DEF Through
    <3> QED
      BY <2>1, <3>2 DEF InitializeWorked, Justified
  <2>2. Justified(Current(t))
    BY <1>2, <2>1, RefusedByStranger DEF RefusalsJustified
  <2> QED
    BY <1>1, <1>2, <2>2, StatusKept
<1>3. \A k \in DOMAIN replies' : replies'[k].status = "ServerNotInitialized" =>
        \E j \in {replies'[k].id} : Justified(j)'
  <2>1. \A k \in DOMAIN replies : replies[k].status = "ServerNotInitialized" =>
          Justified(replies[k].id)
    BY DEF RefusalsJustified
  <2>2. CASE replies' = replies
    BY <1>1, <2>1, <2>2
  <2>3. ASSUME NEW t \in Thread, rpc[t] = "reply",
               replies' = Append(replies, [id |-> Current(t), status |-> status[t]])
        PROVE  <1>3!:
    <3>1. /\ DOMAIN replies' = 1..(Len(replies) + 1)
          /\ replies'[Len(replies) + 1] = [id |-> Current(t), status |-> status[t]]
          /\ \A k \in DOMAIN replies : replies'[k] = replies[k]
      BY <1>s, <2>3
    <3>2. status[t] = "ServerNotInitialized" => Justified(Current(t))
      BY <2>3 DEF RefusalsJustified
    <3>3. \A k \in DOMAIN replies' : k \in DOMAIN replies \/ k = Len(replies) + 1
      BY <1>s, <3>1
    <3> QED
      BY <1>1, <2>1, <3>1, <3>2, <3>3
  <2> QED
    BY AnswersWritten, <2>2, <2>3
<1> QED
  BY <1>2, <1>3 DEF RefusalsJustified, Justified

(* The document is written by the main thread while it executes the last   *)
(* message.                                                                *)
LEMMA WritesOfMain ==
  ASSUME LInv, [Next]_vars
  PROVE  \/ log' = log
         \/ /\ mpc = "rpc" /\ rpc[Main] = "exec" /\ seen' = seen
            /\ UNCHANGED <<poolVars, mainVars>>
            /\ \E k \in Nat : log' = Append(log, [msg |-> rd, edit |-> k])
<1>1. ASSUME NEW t \in Thread, Handles(t), log' # log
      PROVE  /\ mpc = "rpc" /\ rpc[Main] = "exec" /\ seen' = seen
            /\ UNCHANGED <<poolVars, mainVars>>
            /\ \E k \in Nat : log' = Append(log, [msg |-> rd, edit |-> k])
  <2> DEFINE i == Current(t)
             m == input[i]
  <2>1. /\ i # NoJob /\ i \in DOMAIN input /\ m \in Message /\ Exec(t, i, m) /\ TypeOK
        /\ UNCHANGED <<poolVars, mainVars>>
    BY <1>1 DEF Handles, Executes, LInv
  <2>2. WriteOnce(t, i, m) \/ WriteEdit(t, i, m)
    BY <1>1, <2>1, HandlerEffect DEF Quiet, Snapshot
  <2>3. t = Main
    <3>1. ~ IsConcurrent(m)
      BY <2>2 DEF WriteOnce, WriteEdit, IsConcurrent
    <3>2. t \in Worker => i = held[t] /\ IsConcurrent(m)
      BY <2>1, Shapes DEF Current, LInv, JobsAreMessages, Concurrent
    <3> QED
      BY <3>1, <3>2, Shapes
  <2>4. rpc[Main] = "exec" /\ i = rd
    BY <2>1, <2>3 DEF Exec, Current
  <2>5. mpc = "rpc"
    BY <2>4 DEF LInv, MainPosition
  <2>6. 0 \in Nat /\ edit[t] + 1 \in Nat
    BY <2>1 DEF TypeOK, CtxTypeOK
  <2> QED
    BY <2>1, <2>2, <2>4, <2>5, <2>6 DEF WriteOnce, WriteEdit
<1> QED
  BY ContextChanges, <1>1

(* A message the main thread is through with stays behind.                 *)
LEMMA ThroughStays ==
  ASSUME LInv, [Next]_vars, NEW i \in 1..rd, Through(i) PROVE Through(i)'
<1>s. rd \in Nat /\ rd' \in {rd, rd + 1} /\ Main \in Thread /\ Main \notin Worker
  BY ReadingGoesOn, Shapes
<1> SUFFICES ASSUME i = rd, rd' = rd
             PROVE  mpc' \notin {"dispatch", "await"} /\ rpc'[Main] # "exec"
  BY <1>s DEF Through
<1>1. mpc \notin {"dispatch", "await"} /\ rpc[Main] # "exec"
  BY <1>s DEF Through
<1>2. ~ ReadMessage /\ ~ ReadGarbage
  BY <1>s, ReadEffect
<1>3. mpc' \notin {"dispatch", "await"}
  BY <1>1, <1>2, MainMoves, PushEffect DEF ReadEof, Fail, AwaitEmpty, Exited
<1> QED
  BY <1>1, <1>3, <1>s, ThreadsGoOn DEF Onwards

(* Only an `initialize' that was executed makes the server serve.          *)
LEMMA InitializedStep ==
  ASSUME LInv, ServedAfterInitialize, [Next]_vars
  PROVE  /\ initialized => initialized'
         /\ (initialized => \E i \in 1..rd : Initializes(i) /\ Through(i))'
<1>s. /\ rd \in Nat /\ rd' \in {rd, rd + 1} /\ input' = input
      /\ Thread = Worker \cup {Main} /\ rpc \in [Thread -> RpcPc]
  BY ReadingGoesOn, Shapes
<1>1. ASSUME NEW i \in 1..rd, Initializes(i) PROVE Initializes(i)'
  BY <1>s, <1>1 DEF Initializes, IsA, Readable, Malformed
<1>2. initialized => initialized'
  BY ContextChanges, HandlerFlags DEF Handles, Executes, LInv
<1>3. ASSUME initialized PROVE (\E i \in 1..rd : Initializes(i) /\ Through(i))'
  <2>1. PICK i \in 1..rd : Initializes(i) /\ Through(i)
    BY <1>3 DEF ServedAfterInitialize
  <2> QED
    BY <1>s, <1>1, <2>1, ThroughStays
<1>4. ASSUME ~ initialized, initialized'
      PROVE  (\E i \in 1..rd : Initializes(i) /\ Through(i))'
  <2>1. PICK t \in Thread : Handles(t)
    BY <1>4, ContextChanges
  <2>2. PICK i \in 1..rd : i = Current(t) /\ input[i] \in Message /\ Exec(t, i, input[i])
    BY <2>1, Shapes DEF Handles, Executes
  <2>3. input[i].method = "initialize" /\ ~ Malformed(input[i]) /\ rpc'[t] = "peek"
    BY <1>4, <2>2, HandlerFlags DEF LInv
  <2>4. t = Main /\ i = rd
    <3>1. t \in Worker => i = held[t] /\ IsConcurrent(input[i])
      BY <2>1, <2>2, Shapes DEF Handles, Executes, Current, LInv, JobsAreMessages, Concurrent
    <3> QED
      BY <1>s, <2>2, <2>3, <3>1 DEF IsConcurrent, Current
  <2>5. Initializes(rd)
    BY <2>2, <2>3, <2>4, InputsAssumption DEF Initializes, IsA, Readable
  <2>6. mpc = "rpc" /\ UNCHANGED mainVars
    BY <2>1, <2>2, <2>4 DEF Handles, Executes, Exec, LInv, MainPosition
  <2>7. Through(rd)' /\ rd' = rd /\ rd \in 1..rd
    BY <1>s, <2>2, <2>3, <2>4, <2>6 DEF Through, mainVars
  <2> QED
    BY <1>1, <2>5, <2>7
<1> QED
  BY <1>2, <1>3, <1>4

(* Until then no handler serves anything.                                  *)
LEMMA NothingServedStep ==
  ASSUME LInv, AnswersPlaced, ServedAfterInitialize, [Next]_vars, ~ initialized'
  PROVE  NothingServed'
<1>s. /\ input' = input /\ DOMAIN replies = 1..Len(replies)
      /\ Len(replies) \in Nat /\ replies \in Seq(Reply)
  BY ReadingGoesOn, Shapes
<1>1. ~ initialized /\ NothingServed
  BY InitializedStep DEF ServedAfterInitialize
<1>2. UNCHANGED <<log, seen, open, trace>>
  BY <1>1, ContextChanges, HandlerFlags DEF Handles, Executes, LInv
<1>3. \A i : IsA(i, "initialize") => IsA(i, "initialize")'
  BY <1>s DEF IsA, Readable
<1>4. ASSUME NEW t \in Thread, rpc'[t] \in {"peek", "reply"}
      PROVE  \/ status'[t] = "ServerNotInitialized"
             \/ input[Current(t)].method \in {"initialize", "initialized", "exit"}
  <2>1. CASE rpc[t] \in {"peek", "reply"} /\ status'[t] = status[t]
    BY <1>1, <2>1 DEF NothingServed
  <2>2. CASE rpc'[t] = "peek" /\ Handles(t)
    <3>1. TypeOK /\ Exec(t, Current(t), input[Current(t)]) /\ input[Current(t)] \in Message
      BY <2>2 DEF Handles, Executes, LInv
    <3> QED
      BY <2>2, <3>1, HandlerFlags
  <2> QED
    BY <1>4, <2>1, <2>2, StatusKept
<1>5. \A t \in Thread : rpc'[t] \in {"peek", "reply"} =>
        \/ status'[t] = "ServerNotInitialized"
        \/ input'[Current(t)'].method \in {"initialize", "initialized", "exit"}
  BY <1>s, <1>4, StatusKept
<1>6. \A k \in DOMAIN replies' :
        replies'[k].status = "ServerNotInitialized" \/ IsA(replies'[k].id, "initialize")
  <2>1. CASE replies' = replies
    BY <1>1, <2>1 DEF NothingServed
  <2>2. ASSUME NEW t \in Thread, Executes(t), rpc[t] = "reply",
               replies' = Append(replies, [id |-> Current(t), status |-> status[t]])
        PROVE  <1>6!:
    <3>1. /\ DOMAIN replies' = 1..(Len(replies) + 1)
          /\ replies'[Len(replies) + 1] = [id |-> Current(t), status |-> status[t]]
          /\ \A k \in DOMAIN replies : replies'[k] = replies[k]
      BY <1>s, <2>2
    <3>2. status[t] = "ServerNotInitialized" \/ IsA(Current(t), "initialize")
      <4>1. \/ status[t] = "ServerNotInitialized"
            \/ input[Current(t)].method \in {"initialize", "initialized", "exit"}
        BY <1>1, <2>2 DEF NothingServed
      <4>2. IsRequest(input[Current(t)]) /\ input[Current(t)] # Unreadable
        BY <2>2, InputsAssumption DEF AnswersPlaced, Executes
      <4> QED
        BY <4>1, <4>2 DEF IsA, Readable, IsRequest, RequestMethod
    <3>3. \A k \in DOMAIN replies' : k \in DOMAIN replies \/ k = Len(replies) + 1
      BY <1>s, <3>1
    <3> QED
      BY <1>1, <3>1, <3>2, <3>3 DEF NothingServed
  <2> QED
    BY AnswersWritten, <2>1, <2>2
<1> QED
  BY <1>1, <1>2, <1>s, <1>3, <1>5, <1>6 DEF NothingServed

LEMMA ServedStep ==
  ASSUME LInv, AnswersPlaced, ServedAfterInitialize, [Next]_vars
  PROVE  ServedAfterInitialize'
<1>s. rd \in Nat /\ input' = input
  BY ReadingGoesOn
<1>1. \A i : Initializes(i) => Initializes(i)'
  BY <1>s DEF Initializes, IsA, Readable, Malformed
<1>2. \A p \in DOMAIN log' : \E i \in 1..(log'[p].msg - 1) : Initializes(i)
  <2>1. CASE log' = log
    BY <2>1 DEF ServedAfterInitialize
  <2>2. ASSUME NEW k \in Nat, log' # log, rpc[Main] = "exec",
               log' = Append(log, [msg |-> rd, edit |-> k])
        PROVE  <1>2!:
    <3>1. initialized
      BY <2>2, ContextChanges, HandlerFlags DEF Handles, Executes, LInv
    <3>2. PICK i \in 1..rd : Initializes(i) /\ Through(i)
      BY <3>1 DEF ServedAfterInitialize
    <3>3. i \in 1..(rd - 1)
      BY <1>s, <2>2, <3>2 DEF Through
    <3>4. /\ \A p \in DOMAIN log' : p \in DOMAIN log \/ p = Len(log) + 1
          /\ log'[Len(log) + 1].msg = rd
          /\ \A p \in DOMAIN log : log'[p] = log[p]
      <4>1. log \in Seq(Write) /\ [msg |-> rd, edit |-> k] \in Write
        BY <1>s DEF LInv, TypeOK, CtxTypeOK, Write
      <4> QED
        BY <2>2, <4>1
    <3> QED
      BY <3>2, <3>3, <3>4 DEF ServedAfterInitialize
  <2> QED
    BY <2>1, <2>2, WritesOfMain
<1> QED
  BY <1>1, <1>2, InitializedStep, NothingServedStep DEF ServedAfterInitialize

(* A write that is the next change of its message, or none, keeps the      *)
(* changes in their turn.                                                  *)
LEMMA WriteInTurn ==
  ASSUME LInv, ChangesInTurn, [Next]_vars, NEW e \in Nat,
         log' = Append(log, [msg |-> rd, edit |-> e]),
         e > 0 => /\ IsA(rd, "didChange")
                  /\ e <= Len(input[rd].edits) /\ input[rd].edits[e] = "ok",
         e > 1 => log # <<>> /\ log[Len(log)] = [msg |-> rd, edit |-> e - 1]
  PROVE  /\ (\A p \in DOMAIN log : log[p].edit > 0 => AppliedInTurn(p, log[p].msg, log[p].edit))'
         /\ log' # <<>> /\ log'[Len(log')] = [msg |-> rd, edit |-> e]
<1>1. /\ log \in Seq(Write) /\ Len(log) \in Nat /\ DOMAIN log = 1..Len(log)
      /\ rd \in Nat /\ input' = input
  BY ReadingGoesOn, LogTyped DEF LInv, TypeOK, CtxTypeOK
<1>2. [msg |-> rd, edit |-> e] \in Write
  BY <1>1 DEF Write
<1>3. /\ log' # <<>> /\ Len(log') = Len(log) + 1 /\ DOMAIN log' = 1..(Len(log) + 1)
      /\ log'[Len(log) + 1] = [msg |-> rd, edit |-> e]
      /\ \A p \in DOMAIN log : log'[p] = log[p]
  BY <1>1, <1>2
<1>4. ASSUME NEW p \in DOMAIN log', log'[p].edit > 0
      PROVE  AppliedInTurn(p, log[p].msg, log[p].edit)'
  <2>1. CASE p \in DOMAIN log
    <3>1. AppliedInTurn(p, log[p].msg, log[p].edit) /\ log'[p] = log[p]
      BY <1>3, <1>4, <2>1 DEF ChangesInTurn
    <3>2. p > 1 => log'[p - 1] = log[p - 1]
      BY <1>1, <1>3, <2>1
    <3> QED
      BY <1>1, <3>1, <3>2 DEF AppliedInTurn, IsA, Readable
  <2>2. CASE p = Len(log) + 1
    <3>1. e > 1 => p > 1 /\ log'[p - 1] = [msg |-> rd, edit |-> e - 1]
      <4>1. log # <<>> => Len(log) > 0 /\ Len(log) \in DOMAIN log
        BY <1>1
      <4> QED
        BY <1>1, <1>3, <2>2, <4>1
    <3>2. log'[p].msg = rd /\ log'[p].edit = e /\ e > 0
      BY <1>3, <1>4, <2>2
    <3>3. \A j : j = rd => /\ IsA(j, "didChange")' /\ e <= Len(input'[j].edits)
                          /\ input'[j].edits[e] = "ok"
      BY <1>1, <3>2 DEF IsA, Readable
    <3>4. \A j, k : j = rd /\ k = e => AppliedInTurn(p, j, k)'
      BY <3>1, <3>2, <3>3 DEF AppliedInTurn
    <3> QED
      BY <3>2, <3>4
  <2> QED
    BY <1>1, <1>3, <2>1, <2>2
<1> QED
  BY <1>3, <1>4

(* Whoever leaves the document alone leaves the main thread where it is in *)
(* the changes of its message, or past them.                               *)
LEMMA NoChange ==
  ASSUME LInv, ChangesInTurn, [Next]_vars, log' = log, edit'[Main] = edit[Main],
         rpc'[Main] = rpc[Main] \/ rpc'[Main] \notin {"exec", "idle"}
  PROVE  ChangesInTurn'
<1>1. rd' = rd \/ rpc[Main] = "idle"
  BY MainMoves, ReadEffect, PushEffect DEF ReadEof, AwaitEmpty
<1>2. input' = input
  BY InputStays
<1>3. (\A p \in DOMAIN log : log[p].edit > 0 => AppliedInTurn(p, log[p].msg, log[p].edit))'
  BY <1>2 DEF ChangesInTurn, AppliedInTurn, IsA, Readable
<1> QED
  BY <1>1, <1>3 DEF ChangesInTurn

LEMMA ChangesStep == ASSUME LInv, ChangesInTurn, [Next]_vars PROVE ChangesInTurn'
<1>s. /\ Thread = Worker \cup {Main} /\ Main \notin Worker
      /\ rpc \in [Thread -> RpcPc] /\ edit \in [Thread -> Nat]
  BY Shapes DEF LInv, TypeOK, CtxTypeOK
<1>1. CASE UNCHANGED ctxVars
  BY <1>1, NoChange DEF ctxVars, docVars, localVars
<1>2. CASE AwaitEmpty
  <2>1. /\ log' = log /\ edit' = edit /\ rpc'[Main] = "exec" /\ rpc[Main] = "idle"
        /\ input' = input
    BY <1>2, <1>s DEF AwaitEmpty, Enter, docVars, LInv, MainPosition
  <2> QED
    BY <2>1 DEF ChangesInTurn, AppliedInTurn, IsA, Readable
<1>3. CASE MainRpcEnd
  <2>1. /\ log' = log /\ edit'[Main] = 0 /\ rpc'[Main] = "idle" /\ input' = input
    BY <1>3, <1>s DEF MainRpcEnd, StoreExit, Leave, docVars
  <2> QED
    BY <2>1 DEF ChangesInTurn, AppliedInTurn, IsA, Readable
<1>4. ASSUME NEW w \in Worker, WorkerBegin(w) PROVE ChangesInTurn'
  BY <1>4, <1>s, TakeEffect, NoChange DEF docVars
<1>5. ASSUME NEW w \in Worker, WorkerRpcEnd(w) PROVE ChangesInTurn'
  BY <1>5, <1>s, EndEffect, NoChange DEF docVars
<1>6. ASSUME NEW t \in Thread, LoadExit(t) PROVE ChangesInTurn'
  BY <1>6, <1>s, NoChange DEF LoadExit, docVars
<1>7. ASSUME NEW t \in Thread, Executes(t), ~ Handles(t) PROVE ChangesInTurn'
  BY <1>7, <1>s, NoChange DEF Executes, Handles, ExecuteRPC, Peek, Send, docVars
<1>8. ASSUME NEW t \in Thread, Handles(t) PROVE ChangesInTurn'
  <2> DEFINE i == Current(t)
             m == input[i]
  <2>1. /\ i # NoJob /\ i \in DOMAIN input /\ m \in Message /\ Exec(t, i, m) /\ TypeOK
        /\ UNCHANGED <<poolVars, mainVars>> /\ rpc[t] = "exec"
    BY <1>8 DEF Handles, Executes, LInv, Exec
  <2>2. CASE Quiet(t) \/ Snapshot(t, i, m)
    BY <1>s, <2>2, NoChange DEF Quiet, Snapshot
  <2>3. CASE WriteOnce(t, i, m) \/ WriteEdit(t, i, m)
    <3>1. t = Main /\ i = rd
      <4>1. ~ IsConcurrent(m)
        BY <2>3 DEF WriteOnce, WriteEdit, IsConcurrent
      <4>2. t \in Worker => i = held[t] /\ IsConcurrent(m)
        BY <2>1, Shapes DEF Current, LInv, JobsAreMessages, Concurrent
      <4> QED
        BY <1>s, <4>1, <4>2 DEF Current
    <3>2. CASE WriteOnce(t, i, m)
      <4>1. rpc'[Main] = "peek" /\ log' = Append(log, [msg |-> rd, edit |-> 0])
        BY <1>s, <3>1, <3>2 DEF WriteOnce
      <4>2. (\A p \in DOMAIN log : log[p].edit > 0 => AppliedInTurn(p, log[p].msg, log[p].edit))'
        <5>1. 0 \in Nat /\ ~ (0 > 0) /\ ~ (0 > 1)
          OBVIOUS
        <5> QED
          BY <4>1, <5>1, WriteInTurn
      <4> QED
        BY <4>1, <4>2 DEF ChangesInTurn
    <3>3. CASE WriteEdit(t, i, m)
      <4> DEFINE e == edit[Main] + 1
      <4>1. /\ rpc'[Main] = "exec" /\ edit'[Main] = e /\ rd' = rd
            /\ log' = Append(log, [msg |-> rd, edit |-> e])
        BY <1>s, <2>1, <3>1, <3>3 DEF WriteEdit, mainVars
      <4>2. e \in Nat /\ (e > 1 => edit[Main] > 0) /\ e - 1 = edit[Main]
        BY <1>s
      <4>3. e <= Len(input[rd].edits) /\ input[rd].edits[e] = "ok"
        <5>1. Len(m.edits) \in Nat
          BY <2>1 DEF Message
        <5> QED
          BY <1>s, <3>1, <3>3, <5>1 DEF WriteEdit
      <4>4. IsA(rd, "didChange")
        BY <2>1, <3>1, <3>3, InputsAssumption DEF WriteEdit, IsA, Readable
      <4>5. e > 1 => log # <<>> /\ log[Len(log)] = [msg |-> rd, edit |-> e - 1]
        BY <2>1, <3>1, <4>2 DEF ChangesInTurn
      <4>6. /\ (\A p \in DOMAIN log : log[p].edit > 0 => AppliedInTurn(p, log[p].msg, log[p].edit))'
            /\ log' # <<>> /\ log'[Len(log')] = [msg |-> rd, edit |-> e]
        <5> HIDE DEF e
        <5> QED
          BY <4>1, <4>2, <4>3, <4>4, <4>5, WriteInTurn
      <4> QED
        BY <4>1, <4>6 DEF ChangesInTurn
    <3> QED
      BY <2>3, <3>2, <3>3
  <2> QED
    BY <2>1, <2>2, <2>3, HandlerEffect
<1> QED
  BY Steps, <1>1, <1>2, <1>3, <1>4, <1>5, <1>6, <1>7, <1>8

(* The server stops on an exit, or on too many failures in a row.          *)
LEMMA ExitStep ==
  ASSUME LInv, ExitFlags, FailuresCounted, ExitJustified, [Next]_vars
  PROVE  FailuresCounted' /\ ExitJustified'
<1>s. /\ rd \in Nat /\ failed \in Nat /\ rd' \in {rd, rd + 1} /\ rd <= Len(input)
      /\ Len(input) \in Nat
      /\ input' = input /\ closing' = closing /\ (ExitRead => ExitRead')
      /\ (mpc = "read" => failed <= MaxFailed) /\ MaxFailed \in Nat
  BY ReadingGoesOn, Shapes, InputStays, MaxFailedAssumption DEF LInv, MainPosition
<1>1. CASE rd' = rd /\ failed' = failed
  <2>1. FailuresCounted' /\ (AtEof => AtEof')
    BY <1>s, <1>1 DEF FailuresCounted, AtEof, Readable
  <2>2. CASE Exited
    BY <1>s, <1>1, <2>1, <2>2 DEF ExitJustified, ExitRead, AtEof, Readable, IsA
  <2>3. CASE ~ Exited /\ Exited'
    <3>1. schedExit
      BY <1>s, <1>1, <2>3, MainMoves, PushEffect DEF ReadMessage, ReadEof, ReadGarbage, Fail,
         AwaitEmpty, Exited
    <3> QED
      BY <1>s, <2>1, <3>1 DEF ExitFlags, ExitRead, ExitJustified
  <2> QED
    BY <2>1, <2>2, <2>3 DEF ExitJustified
<1>2. CASE ReadMessage
  <2>1. rd' = rd + 1 /\ failed' = 0 /\ mpc' \in {"check", "dispatch"}
    BY <1>2 DEF ReadMessage
  <2> QED
    BY <1>s, <2>1 DEF FailuresCounted, ExitJustified, Exited
<1>3. CASE ReadGarbage \/ ReadEof
  <2>1. /\ mpc = "read" /\ failed' = failed + 1
        /\ mpc' = IF failed' > MaxFailed THEN "exited" ELSE "read"
    BY <1>3 DEF ReadGarbage, ReadEof, Fail
  <2>2. FailuresCounted'
    <3>1. CASE ReadEof
      BY <1>s, <3>1 DEF ReadEof, FailuresCounted, AtEof
    <3>2. CASE ReadGarbage
      <4>1. rd' = rd + 1 /\ rd < Len(input) /\ ~ Readable(rd + 1)
        BY <3>2 DEF ReadGarbage, Readable
      <4>2. failed <= rd /\ \A i \in (rd - failed + 1)..rd : ~ Readable(i)
        BY <1>s, <4>1 DEF FailuresCounted, AtEof
      <4>3. failed' <= rd' /\ \A i \in (rd' - failed' + 1)..rd' : ~ Readable(i)
        BY <1>s, <2>1, <4>1, <4>2
      <4> QED
        BY <1>s, <4>3 DEF FailuresCounted, Readable
    <3> QED
      BY <1>3, <3>1, <3>2
  <2>3. CASE failed' > MaxFailed
    <3>1. failed' = MaxFailed + 1
      BY <1>s, <2>1, <2>3
    <3>2. AtEof' \/ (rd' > MaxFailed /\ \A i \in (rd' - MaxFailed)..rd' : ~ Readable(i)')
      <4>1. AtEof' \/ (failed' <= rd' /\ \A i \in (rd' - failed' + 1)..rd' : ~ Readable(i)')
        BY <2>2 DEF FailuresCounted, Readable
      <4>2. rd' \in Nat /\ rd' - failed' + 1 = rd' - MaxFailed /\ (failed' <= rd' => rd' > MaxFailed)
        BY <1>s, <3>1
      <4> QED
        BY <4>1, <4>2
    <3> QED
      BY <2>2, <3>2 DEF ExitJustified, Readable
  <2>4. CASE ~ (failed' > MaxFailed)
    BY <2>1, <2>2, <2>4 DEF ExitJustified, Exited
  <2> QED
    BY <2>3, <2>4
<1> QED
  BY <1>1, <1>2, <1>3, MainMoves, PushEffect DEF AwaitEmpty

-------------------------------------------------------------------------------
(* What was seen changes only for a message a thread of the pool holds.    *)
LEMMA SeenByHolders ==
  ASSUME LInv, [Next]_vars, NEW c \in DOMAIN input
  PROVE  \/ seen'[c] = seen[c]
         \/ log' = log /\ held' = held /\ \E w \in Worker : held[w] = c
<1>1. ASSUME NEW t \in Thread, Handles(t), seen'[c] # seen[c]
      PROVE  log' = log /\ held' = held /\ \E w \in Worker : held[w] = c
  <2> DEFINE i == Current(t)
             m == input[i]
  <2>1. /\ i # NoJob /\ i \in DOMAIN input /\ m \in Message /\ Exec(t, i, m) /\ TypeOK
        /\ UNCHANGED <<poolVars, mainVars>>
    BY <1>1 DEF Handles, Executes, LInv
  <2>2. Snapshot(t, i, m)
    BY <1>1, <2>1, HandlerEffect DEF Quiet, WriteOnce, WriteEdit
  <2>3. c = i /\ log' = log
    BY <1>1, <2>2 DEF Snapshot, LInv, TypeOK
  <2>4. t # Main
    <3>1. IsConcurrent(m)
      BY <2>2 DEF Snapshot, IsConcurrent
    <3>2. t = Main => i = rd /\ mpc = "rpc"
      BY <2>1 DEF Exec, Current, LInv, MainPosition
    <3> QED
      BY <3>1, <3>2 DEF LInv, MainPosition
  <2> QED
    BY <2>1, <2>3, <2>4, Shapes DEF Current, poolVars
<1> QED
  BY ContextChanges, <1>1

(* Nobody new overtakes a message once it writes.                          *)
LEMMA EarlyShrinks ==
  ASSUME LInv, [Next]_vars, NEW i \in DOMAIN input, Wrote(i),
         \A k \in 1..Len(jobs) : i < jobs[k],
         NEW c \in 1..(i - 1), c \in Early(i)'
  PROVE  c \in Early(i)
<1>s. /\ c \in Nat /\ i \in Nat /\ c < i /\ c # NoJob /\ c \in DOMAIN input
      /\ held \in [Worker -> Nat] /\ Len(jobs) \in Nat
  BY Shapes
<1>1. CASE \E w \in Worker : held'[w] = c
  <2>1. PICK w \in Worker : held'[w] = c
    BY <1>1
  <2>2. held'[w] = held[w]
    <3>1. CASE JobsStay \/ ReadMessage \/ ReadGarbage \/ DispatchConcurrent
      BY <3>1, ReadEffect, PushEffect DEF JobsStay, poolVars
    <3>2. ASSUME NEW v \in Worker, WorkerBegin(v) PROVE held'[w] = held[w]
      <4>1. held' = [held EXCEPT ![v] = jobs[1]] /\ 1 \in 1..Len(jobs)
        BY <1>s, <3>2, TakeEffect
      <4>2. jobs[1] # c
        BY <1>s, <4>1, Shapes
      <4> QED
        BY <1>s, <2>1, <4>1, <4>2
    <3>3. ASSUME NEW v \in Worker, WorkerRpcEnd(v) PROVE held'[w] = held[w]
      BY <1>s, <2>1, <3>3, EndEffect
    <3> QED
      BY JobMoves, <3>1, <3>2, <3>3
  <2> QED
    BY <2>1, <2>2 DEF Early
<1>2. CASE \E p \in 1..seen'[c] : log'[p].msg = i
  <2>1. PICK p \in 1..seen'[c] : log'[p].msg = i
    BY <1>2
  <2>2. CASE seen'[c] = seen[c]
    <3>1. seen[c] # NotSeen /\ seen[c] \in Nat
      <4>1. seen[c] \in Nat \cup {NotSeen}
        BY <1>s DEF LInv, TypeOK
      <4> QED
        BY <2>1, <2>2, <4>1
    <3>2. seen[c] <= Len(log) /\ Len(log) \in Nat
      BY <1>s, <3>1, LogTyped DEF LInv, SeenByMessages
    <3>3. p \in 1..Len(log)
      BY <2>1, <2>2, <3>1, <3>2
    <3>4. log'[p] = log[p]
      <4>1. log \in Seq(Write)
        BY DEF LInv, TypeOK, CtxTypeOK
      <4>2. ASSUME NEW k \in Nat, log' = Append(log, [msg |-> rd, edit |-> k])
            PROVE  log'[p] = log[p]
        <5>1. [msg |-> rd, edit |-> k] \in Write
          BY Shapes DEF Write
        <5> QED
          BY <3>3, <4>1, <4>2, <5>1
      <4> QED
        BY <4>2, WritesOfMain
    <3> QED
      BY <2>1, <2>2, <3>4 DEF Early
  <2> QED
    BY <1>s, <2>2, SeenByHolders DEF Early
<1> QED
  BY <1>1, <1>2 DEF Early

(* The messages held are at most one per thread.                           *)
LEMMA FewHeld ==
  ASSUME NEW S, \A c \in S : \E w \in Worker : held[w] = c
  PROVE  IsFiniteSet(S) /\ Cardinality(S) <= Cardinality(Worker)
<1> DEFINE H == {held[w] : w \in Worker}
<1>1. IsFiniteSet(H) /\ Cardinality(H) <= Cardinality(Worker)
  <2> DEFINE F == [w \in Worker |-> held[w]]
  <2>1. F \in [Worker -> H] /\ \A h \in H : \E w \in Worker : F[w] = h
    OBVIOUS
  <2>2. F \in Surjection(Worker, H)
    BY <2>1, Fun_IsSurj
  <2> QED
    BY <2>2, WorkerAssumption, FS_Surjection
<1>2. S \subseteq H
  OBVIOUS
<1>3. IsFiniteSet(S) /\ Cardinality(S) <= Cardinality(H)
  BY <1>1, <1>2, FS_Subset
<1>4. Cardinality(S) \in Nat /\ Cardinality(H) \in Nat /\ Cardinality(Worker) \in Nat
  BY <1>1, <1>3, WorkerAssumption, FS_CardinalityType
<1> QED
  BY <1>1, <1>3, <1>4

(* There are finitely many earlier messages.                               *)
LEMMA EarlyFinite == ASSUME NEW i \in Nat PROVE IsFiniteSet(Early(i))
<1>1. IsFiniteSet(1..(i - 1))
  BY FS_Interval
<1>2. Early(i) \subseteq 1..(i - 1)
  BY DEF Early
<1> QED
  BY <1>1, <1>2, FS_Subset

(* A message that writes found the queue empty, so it overtakes at most    *)
(* the messages the threads held then.                                     *)
LEMMA OvertakingStep ==
  ASSUME LInv, Overtaking, [Next]_vars PROVE Overtaking'
<1>s. /\ rd \in Nat /\ input' = input /\ \A i \in DOMAIN input : i \in Nat
      /\ Len(jobs) \in Nat
  BY ReadingGoesOn, Shapes
<1> SUFFICES ASSUME NEW i \in DOMAIN input, Wrote(i)'
             PROVE  /\ (\A k \in 1..Len(jobs) : i < jobs[k])'
                    /\ (Cardinality(Early(i)) <= Cardinality(Worker))'
  BY <1>s DEF Overtaking
<1>1. CASE Wrote(i)
  <2>1. /\ \A k \in 1..Len(jobs) : i < jobs[k]
        /\ Cardinality(Early(i)) <= Cardinality(Worker)
    BY <1>1 DEF Overtaking
  <2>2. \A k \in 1..Len(jobs') : i < jobs'[k]
    <3>1. CASE JobsStay \/ ReadMessage \/ ReadGarbage
      BY <2>1, <3>1, ReadEffect DEF JobsStay, poolVars
    <3>2. CASE DispatchConcurrent
      <4>1. /\ mpc = "dispatch" /\ jobs'[Len(jobs) + 1] = rd /\ Len(jobs') = Len(jobs) + 1
            /\ \A k \in 1..Len(jobs) : jobs'[k] = jobs[k]
        BY <3>2, PushEffect
      <4>2. i < rd
        BY <1>1, <4>1 DEF Wrote, LInv, WritesSoFar
      <4>3. \A k \in 1..Len(jobs') : k \in 1..Len(jobs) \/ k = Len(jobs) + 1
        BY <1>s, <4>1
      <4> QED
        BY <2>1, <4>1, <4>2, <4>3
    <3>3. ASSUME NEW w \in Worker, WorkerBegin(w) PROVE <2>2!:
      BY <2>1, <3>3, TakeEffect
    <3>4. ASSUME NEW w \in Worker, WorkerRpcEnd(w) PROVE <2>2!:
      BY <2>1, <3>4, EndEffect
    <3> QED
      BY JobMoves, <3>1, <3>2, <3>3, <3>4
  <2>3. Early(i)' \subseteq Early(i)
    <3>1. \A c \in Early(i)' : c \in 1..(i - 1)
      BY DEF Early
    <3> QED
      BY <1>1, <2>1, <3>1, EarlyShrinks
  <2>4. IsFiniteSet(Early(i))
    BY <1>s, EarlyFinite
  <2>5. IsFiniteSet(Early(i)') /\ Cardinality(Early(i)') <= Cardinality(Early(i))
    BY <2>3, <2>4, FS_Subset
  <2>6. /\ Cardinality(Early(i)') \in Nat /\ Cardinality(Early(i)) \in Nat
        /\ Cardinality(Worker) \in Nat
    BY <2>4, <2>5, WorkerAssumption, FS_CardinalityType
  <2> QED
    BY <2>1, <2>2, <2>5, <2>6
<1>2. CASE ~ Wrote(i)
  <2>1. log' = log
    <3>1. ASSUME mpc = "rpc", UNCHANGED mainVars,
                 NEW k \in Nat, log' = Append(log, [msg |-> rd, edit |-> k])
          PROVE  FALSE
      <4>1. log \in Seq(Write) /\ [msg |-> rd, edit |-> k] \in Write
        BY <1>s DEF LInv, TypeOK, CtxTypeOK, Write
      <4>2. \A p \in DOMAIN log' : p \in DOMAIN log \/ log'[p].msg = rd
        BY <3>1, <4>1
      <4>3. \A p \in DOMAIN log : log'[p] = log[p]
        BY <3>1, <4>1
      <4>4. i # rd /\ (mpc' = "rpc" => i # rd')
        BY <1>2, <3>1 DEF Wrote, mainVars
      <4>5. \E p \in DOMAIN log' : log'[p].msg = i
        BY <4>4 DEF Wrote
      <4> QED
        BY <1>2, <4>2, <4>3, <4>4, <4>5 DEF Wrote
    <3> QED
      BY <3>1, WritesOfMain
  <2>2. AwaitEmpty /\ i = rd
    <3>1. mpc' = "rpc" /\ i = rd' /\ (mpc # "rpc" \/ i # rd)
      BY <1>2, <2>1 DEF Wrote
    <3> QED
      BY <3>1, MainMoves, ReadEffect, PushEffect DEF ReadEof, Fail, AwaitEmpty, Exited
  <2>3. UNCHANGED <<jobs, held, seen>> /\ jobs = <<>>
    BY <2>2 DEF AwaitEmpty, PoolEmpty, poolVars
  <2>4. \A c \in Early(i)' : \E w \in Worker : held[w] = c
    <3>1. ASSUME NEW c \in 1..(i - 1), NEW p \in 1..seen[c], log[p].msg = i PROVE FALSE
      <4>1. c \in DOMAIN input
        BY <1>s, Shapes
      <4>2. seen[c] \in Nat \cup {NotSeen}
        BY <4>1 DEF LInv, TypeOK
      <4>3. seen[c] \in Nat /\ seen[c] # NotSeen
        BY <4>2
      <4>4. seen[c] <= Len(log) /\ Len(log) \in Nat /\ DOMAIN log = 1..Len(log)
        BY <4>1, <4>3, LogTyped DEF LInv, SeenByMessages
      <4>5. p \in DOMAIN log
        BY <4>3, <4>4
      <4> QED
        BY <1>2, <3>1, <4>5 DEF Wrote
    <3> QED
      BY <2>1, <2>3, <3>1 DEF Early
  <2>5. Cardinality(Early(i)') <= Cardinality(Worker)
    BY <2>4, FewHeld
  <2>6. \A k \in 1..Len(jobs') : i < jobs'[k]
    BY <2>3
  <2> QED
    BY <2>5, <2>6
<1> QED
  BY <1>1, <1>2

-------------------------------------------------------------------------------
(* Before the first message nothing is read, queued, written or answered.  *)
LEMMA InitSInv == Init => SInv
<1> SUFFICES ASSUME Init PROVE SInv
  OBVIOUS
<1>1. /\ jobs = <<>> /\ held = [w \in Worker |-> NoJob] /\ rd = 0 /\ failed = 0
      /\ mpc = "read" /\ ~ schedExit /\ ~ ctxExit /\ ~ initialized
      /\ log = <<>> /\ ~ open /\ trace = "messages" /\ edit = [t \in Thread |-> 0]
      /\ replies = <<>> /\ seen = [i \in DOMAIN input |-> NotSeen]
      /\ rpc = [t \in Thread |-> "idle"] /\ exitSeen = [t \in Thread |-> FALSE]
  BY DEF Init, PoolInit, CtxInit
<1>2. OnePlace /\ AnswersPlaced /\ AnsweredAtMostOnce
  BY <1>1 DEF OnePlace, AnswersPlaced, AnsweredAtMostOnce
<1>3. ExitFlags /\ InitializeWorked /\ RefusalsJustified /\ ServedAfterInitialize
  BY <1>1 DEF ExitFlags, InitializeWorked, RefusalsJustified, ServedAfterInitialize,
              NothingServed
<1>4. ChangesInTurn
  BY <1>1, ThreadAssumption DEF ChangesInTurn
<1>5. FailuresCounted /\ ExitJustified
  BY <1>1 DEF FailuresCounted, ExitJustified, Exited
<1>6. Overtaking
  BY <1>1 DEF Overtaking, Wrote
<1> QED
  BY <1>2, <1>3, <1>4, <1>5, <1>6 DEF SInv

(* Every step of every thread keeps the invariant.                         *)
LEMMA StepSInv == LInv /\ LInv' /\ SInv /\ [Next]_vars => SInv'
<1> SUFFICES ASSUME LInv, LInv', SInv, [Next]_vars PROVE SInv'
  OBVIOUS
<1> USE DEF SInv
<1>1. OnePlace'
  BY OnePlaceStep
<1>2. AnswersPlaced' /\ AnsweredAtMostOnce'
  BY AnswersStep
<1>3. ExitFlags' /\ InitializeWorked' /\ RefusalsJustified' /\ ServedAfterInitialize'
  BY ExitFlagsStep, InitializeStep, RefusalsStep, ServedStep
<1>4. ChangesInTurn'
  BY ChangesStep
<1>5. FailuresCounted' /\ ExitJustified'
  BY ExitStep
<1>6. Overtaking'
  BY OvertakingStep
<1> QED
  BY <1>1, <1>2, <1>3, <1>4, <1>5, <1>6

(* The session's invariant holds in every state of every behaviour.        *)
THEOREM SessionInvariance == Spec => []SInv
<1>1. Spec => []LInv
  BY Invariance
<1> QED
  BY <1>1, InitSInv, StepSInv, PTL DEF Spec

(* A request that was read is answered once at most, and nothing else is   *)
(* answered, whichever thread executes it (Context::ExecuteRPC).           *)
THEOREM AnswersAreUnique == Spec => []AnsweredAtMostOnce
<1>1. SInv => AnsweredAtMostOnce
  BY DEF SInv
<1> QED
  BY <1>1, SessionInvariance, PTL

(* The document is written in the client's order, message by message and   *)
(* change by change: what a refused notification leaves in it is its first *)
(* changes (route/textDocument_didChange.cc).                              *)
THEOREM DocumentInClientOrder == Spec => []EditsInOrder
<1>1. LInv /\ SInv => EditsInOrder
  BY DEF LInv, SInv, ChangesInTurn, EditsInOrder
<1> QED
  BY <1>1, Invariance, SessionInvariance, PTL

(* ServerNotInitialized goes only to requests sent before `initialize', or *)
(* after an `exit'; nothing is served before one has been executed, and no *)
(* write is of a message sent before it (Context.cc:61).                   *)
THEOREM LifecycleIsRespected == Spec => []LifecycleRespected
<1>1. SInv => LifecycleRespected
  <2> SUFFICES ASSUME SInv PROVE LifecycleRespected
    OBVIOUS
  <2>1. \A k \in DOMAIN replies : replies[k].status = "ServerNotInitialized" =>
          Justified(replies[k].id)
    BY DEF SInv, RefusalsJustified
  <2>2. /\ initialized => \E i \in 1..rd : Initializes(i)
        /\ ~ initialized => NothingServed
        /\ \A p \in DOMAIN log : \E i \in 1..(log[p].msg - 1) : Initializes(i)
    BY DEF SInv, ServedAfterInitialize
  <2> QED
    BY <2>1, <2>2 DEF LifecycleRespected, Justified
<1> QED
  BY <1>1, SessionInvariance, PTL

(* The server stops serving on an `exit' it has read, at the end of the    *)
(* stream or after MaxFailed + 1 unreadable messages in a row.             *)
THEOREM ExitIsJustified == Spec => []ExitJustified
<1>1. SInv => ExitJustified
  BY DEF SInv
<1> QED
  BY <1>1, SessionInvariance, PTL

(* A message that writes is seen too early by at most one completion per   *)
(* thread: Scheduler::Schedule waits for an empty queue, not for the jobs  *)
(* the threads hold.                                                       *)
THEOREM WritesOvertakeFew == Spec => []OvertakesFew
<1>1. LInv /\ SInv => OvertakesFew
  <2> SUFFICES ASSUME LInv, SInv, NEW i \in DOMAIN input
               PROVE  Cardinality(SeenTooEarly(i)) <= Cardinality(Worker)
    BY DEF OvertakesFew
  <2>s. i \in Nat /\ i <= Len(input) /\ Len(input) \in Nat /\ DOMAIN input = 1..Len(input)
    BY Shapes
  <2>1. \A c \in SeenTooEarly(i) : c \in Early(i) /\ Wrote(i)
    <3>1. ASSUME NEW c \in 1..(i - 1), NEW p \in 1..seen[c], log[p].msg = i
          PROVE  p \in DOMAIN log
      <4>1. c \in DOMAIN input
        BY <2>s
      <4>2. seen[c] \in Nat \cup {NotSeen}
        BY <4>1 DEF LInv, TypeOK
      <4>3. seen[c] \in Nat /\ seen[c] # NotSeen
        BY <4>2
      <4>4. seen[c] <= Len(log) /\ Len(log) \in Nat /\ DOMAIN log = 1..Len(log)
        BY <4>1, <4>3, LogTyped DEF LInv, SeenByMessages
      <4> QED
        BY <4>3, <4>4
    <3> QED
      BY <3>1 DEF SeenTooEarly, Early, Wrote
  <2>2. CASE SeenTooEarly(i) = {}
    <3>1. Cardinality({}) = 0 /\ Cardinality(Worker) \in Nat
      BY WorkerAssumption, FS_EmptySet, FS_CardinalityType
    <3> QED
      BY <2>2, <3>1
  <2>3. CASE Wrote(i)
    <3>1. Cardinality(Early(i)) <= Cardinality(Worker)
      BY <2>3 DEF SInv, Overtaking
    <3>2. IsFiniteSet(Early(i))
      BY <2>s, EarlyFinite
    <3>3. /\ IsFiniteSet(SeenTooEarly(i))
          /\ Cardinality(SeenTooEarly(i)) <= Cardinality(Early(i))
      BY <2>1, <3>2, FS_Subset
    <3>4. /\ Cardinality(Early(i)) \in Nat /\ Cardinality(SeenTooEarly(i)) \in Nat
          /\ Cardinality(Worker) \in Nat
      BY <3>2, <3>3, WorkerAssumption, FS_CardinalityType
    <3> QED
      BY <3>1, <3>3, <3>4
  <2> QED
    BY <2>1, <2>2, <2>3
<1> QED
  BY <1>1, Invariance, SessionInvariance, PTL
===============================================================================
