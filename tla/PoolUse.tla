------------------------------- MODULE PoolUse --------------------------------
(***************************************************************************)
(* A thread pool and the one thread that owns it: Start, any number of     *)
(* Schedule and WaitForAll calls, then the destructor, which is Stop.  The *)
(* scheduler of the language server uses its pool in exactly this order.   *)
(***************************************************************************)
EXTENDS ThreadPool

CONSTANT MaxJobs            \* bound: the owner schedules at most this many jobs

ASSUME MaxJobsAssumption == MaxJobs \in Nat

VARIABLES
  opc,                      \* the call the owner is in
  submitted,                \* the jobs are 1..submitted, in Schedule order
  finished                  \* the jobs whose call has returned

vars == <<poolVars, opc, submitted, finished>>

OwnerPc == {"new", "open", "waiting", "draining", "joining", "gone"}

(* What the variables range over.                                        *)
TypeOK ==
  /\ PoolTypeOK
  /\ opc \in OwnerPc
  /\ submitted \in 0..MaxJobs
  /\ finished \subseteq 1..submitted

Init ==
  /\ PoolInit
  /\ opc = "new"
  /\ submitted = 0
  /\ finished = {}

-------------------------------------------------------------------------------
Start ==
  /\ opc = "new"
  /\ PoolStart
  /\ opc' = "open"
  /\ UNCHANGED <<submitted, finished>>

Schedule ==
  /\ opc = "open"
  /\ submitted < MaxJobs
  /\ PoolPush(submitted + 1)
  /\ submitted' = submitted + 1
  /\ UNCHANGED <<opc, finished>>

(* WaitForAll spins on Empty: it returns when the queue is empty, whether  *)
(* or not the jobs taken from it have ended.                               *)
WaitForAll ==
  /\ opc = "open"
  /\ opc' = "waiting"
  /\ UNCHANGED <<poolVars, submitted, finished>>

WaitForAllReturns ==
  /\ opc = "waiting"
  /\ PoolEmpty
  /\ opc' = "open"
  /\ UNCHANGED <<poolVars, submitted, finished>>

(* Stop: raise the flags, spin until the queue is empty, join.             *)
RequestStop ==
  /\ opc = "open"
  /\ PoolRequestStop
  /\ opc' = "draining"
  /\ UNCHANGED <<submitted, finished>>

DrainWithoutLooking ==
  /\ opc = "draining"
  /\ opc' = "joining"
  /\ UNCHANGED <<poolVars, submitted, finished>>

Drain ==
  /\ opc = "draining"
  /\ PoolEmpty
  /\ opc' = "joining"
  /\ UNCHANGED <<poolVars, submitted, finished>>

JoinWithoutWaiting ==
  /\ opc = "joining"
  /\ opc' = "gone"
  /\ UNCHANGED <<poolVars, submitted, finished>>

Join ==
  /\ opc = "joining"
  /\ PoolJoined
  /\ opc' = "gone"
  /\ UNCHANGED <<poolVars, submitted, finished>>

Finish(w) ==
  /\ WorkerFinish(w)
  /\ finished' = finished \cup {held[w]}
  /\ UNCHANGED <<opc, submitted>>

Loop(w) ==
  /\ WorkerCheck(w) \/ WorkerIdle(w) \/ WorkerTake(w)
  /\ UNCHANGED <<opc, submitted, finished>>

Owner ==
  \/ Start \/ Schedule \/ WaitForAll \/ WaitForAllReturns
  \/ RequestStop \/ Drain \/ Join

Thread(w) == Loop(w) \/ Finish(w)

Next == Owner \/ \E w \in Worker : Thread(w)

Spec == Init /\ [][Next]_vars

(* The operating system runs every thread, jobs return, and the owner's    *)
(* spin loops and join go on; the owner need not schedule or stop.         *)
Fairness ==
  /\ \A w \in Worker : WF_vars(Thread(w))
  /\ WF_vars(WaitForAllReturns)
  /\ WF_vars(Drain)
  /\ WF_vars(Join)

FairSpec == Spec /\ Fairness

-------------------------------------------------------------------------------
(* Every scheduled job is in exactly one place: the queue holds the last   *)
(* ones in order, each earlier one is held by one thread or has ended.     *)
Started == submitted - Len(jobs)

QueueIsTheRest ==
  /\ Len(jobs) <= submitted
  /\ \A k \in 1..Len(jobs) : jobs[k] = Started + k

HeldOrFinished ==
  /\ \A j \in 1..Started : j \in finished \/ \E w \in Worker : held[w] = j
  /\ \A w \in Worker : held[w] \notin finished
  /\ \A w, v \in Worker : held[w] = held[v] /\ held[w] # NoJob => w = v

(* No job is lost and none is run twice, whatever the threads do.          *)
JobsAccounted == QueueIsTheRest /\ HeldOrFinished

(* When the destructor has returned, every job that was ever scheduled has *)
(* run to its end (Stop's drain loop and the join).                        *)
GoneMeansAllFinished == opc = "gone" => finished = 1..submitted

(* The threads that may still take a job are those past their stop check.  *)
PastTheCheck == {w \in Worker : wpc[w] = "fetch"}

(* Stop spins on a queue that the stopped threads no longer empty: once    *)
(* more jobs wait than threads are past their check, it never returns.     *)
Stuck == opc = "draining" /\ Len(jobs) > Cardinality(PastTheCheck)

StuckForever == [][Stuck => Stuck']_vars

(* The pool is a JobQueue.                                                 *)
HeldJobs == {held[w] : w \in Worker} \ {NoJob}

Promise == INSTANCE JobQueue WITH
  Job     <- 1..MaxJobs,
  waiting <- jobs,
  running <- HeldJobs,
  ended   <- finished,
  gone    <- (opc = "gone")

ImplementsJobQueue == Promise!Spec

(* Unless Stop interferes, every scheduled job is eventually run.          *)
EveryJobFinishes ==
  \A j \in 1..MaxJobs : (submitted >= j) ~> (j \in finished \/ stopReq)

(* Stop returns if the queue is empty when, or after, it is called.        *)
StopReturnsIfDrained == (opc = "draining" /\ PoolEmpty) ~> (opc = "gone")
===============================================================================
