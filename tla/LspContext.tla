------------------------------ MODULE LspContext ------------------------------
(***************************************************************************)
(* The request context of the language server (lib/src/lsp/server/Context  *)
(* and the handlers of lib/src/lsp/support/route): the flags the handlers  *)
(* set, the document store they write, and ExecuteRPC, which any thread    *)
(* may run, several at a time.                                             *)
(*                                                                         *)
(* A message is what ReadRequest returns.  Its payload is abstracted to    *)
(* what decides a branch: `value' is the trace level it carries, "absent"  *)
(* if it carries none, "invalid" if the handler's Verify function rejects  *)
(* it; `edits' are the content changes of a didChange, each with a range   *)
(* that resolves ("ok") or not ("bad").  There is one document; its state  *)
(* is the log of the writes that succeeded.                                *)
(***************************************************************************)
EXTENDS Integers, Sequences

CONSTANT Thread             \* every thread that executes messages

VARIABLES
  initialized,              \* m_is_lsp_initialized
  canTrace,                 \* m_can_send_trace
  trace,                    \* m_trace
  ctxExit,                  \* m_exit_requested of the Context
  open,                     \* the document is in m_files
  log,                      \* its writes so far: which message, which edit of it
  seen,                     \* per message: how much of log GetFile returned to it
  replies,                  \* the responses on the output stream, in order
  rpc,                      \* per thread: where it is in the job
  edit,                     \* per thread: content changes already applied
  status,                   \* per thread: the response being built
  exitSeen                  \* per thread: the local `exit_requested'

flagVars == <<initialized, canTrace, trace, ctxExit>>
docVars == <<open, log>>
localVars == <<rpc, edit, status, exitSeen>>
ctxVars == <<flagVars, docVars, seen, replies, localVars>>

TraceValue == {"off", "messages", "verbose"}
RequestMethod == {"initialize", "shutdown", "completion", "unknownRequest"}
NotificationMethod ==
  {"initialized", "setTrace", "exit", "didOpen", "didChange", "didClose",
   "didSave", "unknownNotification"}
Method == RequestMethod \cup NotificationMethod

Message == [method : Method,
            value  : TraceValue \cup {"absent", "invalid"},
            edits  : Seq({"ok", "bad"})]

Status == {"result", "InvalidRequest", "MethodNotFound", "ServerNotInitialized"}
NotSeen == -1

(* "idle": no job; "exec": in a handler; "peek": about to copy the exit    *)
(* flag; "reply": about to send; "load", "store": the scheduler's update   *)
(* of its own exit flag.                                                   *)
RpcPc == {"idle", "exec", "peek", "reply", "load", "store"}

CtxInit ==
  /\ initialized = FALSE
  /\ canTrace = FALSE
  /\ trace = "messages"
  /\ ctxExit = FALSE
  /\ open = FALSE
  /\ log = <<>>
  /\ replies = <<>>
  /\ rpc = [t \in Thread |-> "idle"]
  /\ edit = [t \in Thread |-> 0]
  /\ status = [t \in Thread |-> "result"]
  /\ exitSeen = [t \in Thread |-> FALSE]

Write == [msg : Nat, edit : Nat]
Reply == [id : Nat, status : Status]

CtxTypeOK ==
  /\ initialized \in BOOLEAN
  /\ canTrace \in BOOLEAN
  /\ trace \in TraceValue
  /\ ctxExit \in BOOLEAN
  /\ open \in BOOLEAN
  /\ log \in Seq(Write)
  /\ replies \in Seq(Reply)
  /\ rpc \in [Thread -> RpcPc]
  /\ edit \in [Thread -> Nat]
  /\ status \in [Thread -> Status]
  /\ exitSeen \in [Thread -> BOOLEAN]

-------------------------------------------------------------------------------
IsRequest(m) == m.method \in RequestMethod

(* The Verify functions; exit, initialized and shutdown have none.         *)
Malformed(m) ==
  \/ /\ m.value = "invalid"
     /\ m.method \in {"initialize", "setTrace", "completion", "didOpen",
                      "didChange", "didClose", "didSave"}
  \/ /\ m.value = "absent"
     /\ m.method = "setTrace"

(* Before `initialize' the context serves only the lifecycle messages.     *)
ServedToStrangers(m) ==
  initialized \/ m.method \in {"initialize", "initialized", "exit", "completion"}

Served(m) == initialized \/ m.method \in {"initialize", "initialized", "exit"}

(* The scheduler calls ExecuteRPC on thread t; the call and the job end.   *)
Enter(t) ==
  /\ rpc' = [rpc EXCEPT ![t] = "exec"]
  /\ UNCHANGED <<edit, status, exitSeen>>

Leave(t) ==
  /\ rpc' = [rpc EXCEPT ![t] = "idle"]
  /\ edit' = [edit EXCEPT ![t] = 0]
  /\ status' = [status EXCEPT ![t] = "result"]
  /\ exitSeen' = [exitSeen EXCEPT ![t] = FALSE]

(* The handler of t's message returns, with status s for a request.        *)
Return(t, s) ==
  /\ rpc' = [rpc EXCEPT ![t] = "peek"]
  /\ status' = [status EXCEPT ![t] = s]
  /\ UNCHANGED <<edit, exitSeen>>

-------------------------------------------------------------------------------
(* Message i = m, executed by thread t: ExecuteLSPRequest and              *)
(* ExecuteLSPNotification, then the handler.                               *)

Refuse(t, m) ==
  /\ ~ Served(m)
  /\ Return(t, "ServerNotInitialized")
  /\ UNCHANGED <<flagVars, docVars, seen>>

Unknown(t, m) ==
  /\ Served(m)
  /\ m.method \in {"unknownRequest", "unknownNotification"}
  /\ Return(t, "MethodNotFound")
  /\ UNCHANGED <<flagVars, docVars, seen>>

Reject(t, m) ==
  /\ Served(m)
  /\ Malformed(m)
  /\ Return(t, IF m.method = "initialize" THEN "InvalidRequest" ELSE "result")
  /\ UNCHANGED <<flagVars, docVars, seen>>

Accepts(m, method) == Served(m) /\ ~ Malformed(m) /\ m.method = method

(* Only the log sink reads the trace level, so setting it and setting the  *)
(* initialized flag are one step.                                          *)
Initialize(t, m) ==
  /\ Accepts(m, "initialize")
  /\ trace' = IF m.value = "absent" THEN trace ELSE m.value
  /\ initialized' = TRUE
  /\ Return(t, "result")
  /\ UNCHANGED <<canTrace, ctxExit, docVars, seen>>

Initialized(t, m) ==
  /\ Accepts(m, "initialized")
  /\ canTrace' = TRUE
  /\ Return(t, "result")
  /\ UNCHANGED <<initialized, trace, ctxExit, docVars, seen>>

SetTrace(t, m) ==
  /\ Accepts(m, "setTrace")
  /\ trace' = m.value
  /\ Return(t, "result")
  /\ UNCHANGED <<initialized, canTrace, ctxExit, docVars, seen>>

Exit(t, m) ==
  /\ Accepts(m, "exit")
  /\ ctxExit' = TRUE
  /\ Return(t, "result")
  /\ UNCHANGED <<initialized, canTrace, trace, docVars, seen>>

Shutdown(t, m) ==
  /\ Accepts(m, "shutdown")
  /\ Return(t, "result")
  /\ UNCHANGED <<flagVars, docVars, seen>>

(* GetFile under the store's mutex; the rest works on the snapshot.        *)
Completion(t, i, m) ==
  /\ Accepts(m, "completion")
  /\ seen' = [seen EXCEPT ![i] = Len(log)]
  /\ Return(t, "result")
  /\ UNCHANGED <<flagVars, docVars>>

WriteDoc(i, k) == log' = Append(log, [msg |-> i, edit |-> k])

DidOpen(t, i, m) ==
  /\ Accepts(m, "didOpen")
  /\ open' = TRUE
  /\ IF open THEN UNCHANGED log ELSE WriteDoc(i, 0)
  /\ Return(t, "result")
  /\ UNCHANGED <<flagVars, seen>>

DidClose(t, i, m) ==
  /\ Accepts(m, "didClose")
  /\ open' = FALSE
  /\ IF open THEN WriteDoc(i, 0) ELSE UNCHANGED log
  /\ Return(t, "result")
  /\ UNCHANGED <<flagVars, seen>>

DidSave(t, i, m) ==
  /\ Accepts(m, "didSave")
  /\ IF open THEN WriteDoc(i, 0) ELSE UNCHANGED log
  /\ Return(t, "result")
  /\ UNCHANGED <<flagVars, open, seen>>

(* Each content change is a store call of its own; the loop stops at the   *)
(* first that fails, with the earlier ones in the store.                   *)
DidChangeEdit(t, i, m) ==
  /\ Accepts(m, "didChange")
  /\ edit[t] < Len(m.edits)
  /\ open /\ m.edits[edit[t] + 1] = "ok"
  /\ WriteDoc(i, edit[t] + 1)
  /\ edit' = [edit EXCEPT ![t] = @ + 1]
  /\ UNCHANGED <<flagVars, open, seen, rpc, status, exitSeen>>

DidChangeEnd(t, m) ==
  /\ Accepts(m, "didChange")
  /\ \/ edit[t] = Len(m.edits)
     \/ edit[t] < Len(m.edits) /\ (~ open \/ m.edits[edit[t] + 1] = "bad")
  /\ Return(t, "result")
  /\ UNCHANGED <<flagVars, docVars, seen>>

Handler(t, i, m) ==
  \/ Refuse(t, m) \/ Unknown(t, m) \/ Reject(t, m)
  \/ Initialize(t, m) \/ Initialized(t, m) \/ SetTrace(t, m) \/ Exit(t, m)
  \/ Shutdown(t, m) \/ Completion(t, i, m)
  \/ DidOpen(t, i, m) \/ DidClose(t, i, m) \/ DidSave(t, i, m)
  \/ DidChangeEdit(t, i, m) \/ DidChangeEnd(t, m)

Exec(t, i, m) ==
  /\ rpc[t] = "exec"
  /\ Handler(t, i, m)
  /\ UNCHANGED replies

(* exit_requested = m_exit_requested, before the response goes out         *)
Peek(t, m) ==
  /\ rpc[t] = "peek"
  /\ exitSeen' = [exitSeen EXCEPT ![t] = ctxExit]
  /\ rpc' = [rpc EXCEPT ![t] = IF IsRequest(m) THEN "reply" ELSE "load"]
  /\ UNCHANGED <<flagVars, docVars, seen, replies, edit, status>>

(* The whole frame is written under m_os_lock.                             *)
Send(t, i) ==
  /\ rpc[t] = "reply"
  /\ replies' = Append(replies, [id |-> i, status |-> status[t]])
  /\ rpc' = [rpc EXCEPT ![t] = "load"]
  /\ UNCHANGED <<flagVars, docVars, seen, edit, status, exitSeen>>

ExecuteRPC(t, i, m) == Exec(t, i, m) \/ Peek(t, m) \/ Send(t, i)
===============================================================================
