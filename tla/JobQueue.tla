------------------------------- MODULE JobQueue -------------------------------
(***************************************************************************)
(* What the thread pool promises its owner, without threads: jobs start in *)
(* the order they were submitted, each of them once, several may run at    *)
(* the same time and end in any order, and the pool is gone only when      *)
(* nothing waits and nothing runs.                                         *)
(***************************************************************************)
EXTENDS Naturals, Sequences

CONSTANT Job

VARIABLES
  waiting,                  \* submitted, not started: oldest first
  running,                  \* started, not ended
  ended,                    \* ended
  gone                      \* the pool has been destroyed

vars == <<waiting, running, ended, gone>>

Init ==
  /\ waiting = <<>>
  /\ running = {}
  /\ ended = {}
  /\ gone = FALSE

IsWaiting(j) == \E i \in 1..Len(waiting) : waiting[i] = j

Submit(j) ==
  /\ ~ gone
  /\ ~ IsWaiting(j)
  /\ j \notin running \cup ended
  /\ waiting' = Append(waiting, j)
  /\ UNCHANGED <<running, ended, gone>>

Begin ==
  /\ ~ gone
  /\ waiting # <<>>
  /\ running' = running \cup {Head(waiting)}
  /\ waiting' = Tail(waiting)
  /\ UNCHANGED <<ended, gone>>

End(j) ==
  /\ j \in running
  /\ running' = running \ {j}
  /\ ended' = ended \cup {j}
  /\ UNCHANGED <<waiting, gone>>

Destroy ==
  /\ waiting = <<>>
  /\ running = {}
  /\ gone' = TRUE
  /\ UNCHANGED <<waiting, running, ended>>

Next ==
  \/ \E j \in Job : Submit(j) \/ End(j)
  \/ Begin
  \/ Destroy

Spec == Init /\ [][Next]_vars
===============================================================================
