------------------------------ MODULE ThreadPool ------------------------------
(***************************************************************************)
(* The worker pool of the language server (lib/src/lsp/server/ThreadPool): *)
(* a FIFO of jobs behind a mutex, threads that poll it, and a stop request *)
(* the threads look at between two jobs.                                   *)
(*                                                                         *)
(* This module declares the pool's state and one operator per critical     *)
(* section of the class; the modules that own a pool (PoolUse, LspServer)  *)
(* conjoin them into their actions.  A job is a positive number chosen by  *)
(* the owner.  Each operator is one step: what the code does under         *)
(* m_queue_mutex, or one read of the stop token.                           *)
(***************************************************************************)
EXTENDS Naturals, Sequences, FiniteSets

CONSTANT Worker             \* the threads, max(hardware_concurrency(), 1) of them

ASSUME WorkerAssumption == IsFiniteSet(Worker) /\ Worker # {}

VARIABLES
  jobs,                     \* m_jobs
  wpc,                      \* where each thread is in ThreadLoop
  held,                     \* the local variable `job' of each thread
  stopReq                   \* the stop state of the threads

poolVars == <<jobs, wpc, held, stopReq>>

NoJob == 0

(* "unborn": before Start; "check": at the loop condition; "fetch": past   *)
(* it, before the lock; "run": inside job(st); "done": left the loop.      *)
WorkerPc == {"unborn", "check", "fetch", "run", "done"}

PoolInit ==
  /\ jobs = <<>>
  /\ wpc = [w \in Worker |-> "unborn"]
  /\ held = [w \in Worker |-> NoJob]
  /\ stopReq = FALSE

PoolTypeOK ==
  /\ jobs \in Seq(Nat \ {NoJob})
  /\ wpc \in [Worker -> WorkerPc]
  /\ held \in [Worker -> Nat]
  /\ stopReq \in BOOLEAN

-------------------------------------------------------------------------------
(* The owner's calls.                                                      *)

PoolStarted == \E w \in Worker : wpc[w] # "unborn"

PoolStart ==
  /\ ~ PoolStarted
  /\ wpc' = [w \in Worker |-> "check"]
  /\ UNCHANGED <<jobs, held, stopReq>>

PoolPush(j) ==
  /\ jobs' = Append(jobs, j)
  /\ UNCHANGED <<wpc, held, stopReq>>

PoolEmpty == jobs = <<>>

(* Stop raises every thread's stop flag while it holds m_queue_mutex, so   *)
(* no thread takes a job between the first flag and the last.              *)
PoolRequestStop ==
  /\ stopReq' = TRUE
  /\ UNCHANGED <<jobs, wpc, held>>

(* m_threads.clear() joins: it returns when every loop has been left.      *)
PoolJoined == \A w \in Worker : wpc[w] \in {"unborn", "done"}

-------------------------------------------------------------------------------
(* ThreadLoop.                                                             *)

(* while (!st.stop_requested())                                            *)
WorkerCheckIgnoringStop(w) ==
  /\ wpc[w] = "check"
  /\ wpc' = [wpc EXCEPT ![w] = "fetch"]
  /\ UNCHANGED <<jobs, held, stopReq>>

WorkerCheck(w) ==
  /\ wpc[w] = "check"
  /\ wpc' = [wpc EXCEPT ![w] = IF stopReq THEN "done" ELSE "fetch"]
  /\ UNCHANGED <<jobs, held, stopReq>>

(* m_jobs.empty(): unlock, sleep, continue                                 *)
WorkerIdle(w) ==
  /\ wpc[w] = "fetch"
  /\ PoolEmpty
  /\ wpc' = [wpc EXCEPT ![w] = "check"]
  /\ UNCHANGED <<jobs, held, stopReq>>

(* front() and pop() under the lock                                        *)
WorkerTakeWithoutPop(w) ==
  /\ wpc[w] = "fetch"
  /\ ~ PoolEmpty
  /\ held' = [held EXCEPT ![w] = Head(jobs)]
  /\ wpc' = [wpc EXCEPT ![w] = "run"]
  /\ UNCHANGED <<jobs, stopReq>>

WorkerTakeNewest(w) ==
  /\ wpc[w] = "fetch"
  /\ ~ PoolEmpty
  /\ held' = [held EXCEPT ![w] = jobs[Len(jobs)]]
  /\ jobs' = SubSeq(jobs, 1, Len(jobs) - 1)
  /\ wpc' = [wpc EXCEPT ![w] = "run"]
  /\ UNCHANGED stopReq

WorkerTake(w) ==
  /\ wpc[w] = "fetch"
  /\ ~ PoolEmpty
  /\ held' = [held EXCEPT ![w] = Head(jobs)]
  /\ jobs' = Tail(jobs)
  /\ wpc' = [wpc EXCEPT ![w] = "run"]
  /\ UNCHANGED stopReq

WorkerFinishForGood(w) ==
  /\ wpc[w] = "run"
  /\ wpc' = [wpc EXCEPT ![w] = "done"]
  /\ held' = [held EXCEPT ![w] = NoJob]
  /\ UNCHANGED <<jobs, stopReq>>

(* job(st) returned                                                        *)
WorkerFinish(w) ==
  /\ wpc[w] = "run"
  /\ wpc' = [wpc EXCEPT ![w] = "check"]
  /\ held' = [held EXCEPT ![w] = NoJob]
  /\ UNCHANGED <<jobs, stopReq>>
===============================================================================
