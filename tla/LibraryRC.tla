------------------------------ MODULE LibraryRC ------------------------------
(***************************************************************************)
(* Reference-counted initialisation of the toolchain's libraries:          *)
(* core/cli/Start.cc and include/no3/Interpreter.hh.  Threads of a program *)
(* that links libno3 open the library, copy, move, assign and drop the     *)
(* handles.  A thread uses a handle of its own: no two use one at a time.  *)
(***************************************************************************)
EXTENDS Integers, FiniteSets

CONSTANTS
    Caller,     \* threads that call the library
    Handle,     \* places for RCInitializationContext objects
    Libraries,  \* number of libraries PerformInitialize brings up, in order
    Word,       \* size of size_t
    MaxLost     \* bound: references lost by assignment, and initialisations of
                \* a library that failures leave behind

ASSUME RCAssumption ==
    /\ IsFiniteSet(Handle)
    /\ Libraries \in Nat \ {0}
    /\ MaxLost \in Nat
    /\ Word \in Nat /\ Word > MaxLost + 2 * Cardinality(Handle) + 1

VARIABLES
    counter,    \* RCInitializationContextCounter
    handle,     \* "none", "active" or "inactive" (moved from)
    libs,       \* initialisations minus deinitialisations of each library
    pc,         \* what each thread is in the middle of
    leaked,     \* history: references that were assigned over
    forgotten   \* history: a failure reset a counter that had counted others

rcVars == <<counter, handle, libs, pc, leaked, forgotten>>

\* What the variables range over.
RCTypeOK ==
    /\ counter \in 0..(Word - 1)
    /\ handle \in [Handle -> {"none", "active", "inactive"}]
    /\ libs \in [1..Libraries -> Int]
    /\ pc \in [Caller -> {"idle", "init", "failed", "deinit"}]
    /\ leaked \in 0..MaxLost /\ forgotten \in BOOLEAN

RCInit ==
    /\ counter = 0
    /\ handle = [h \in Handle |-> "none"]
    /\ libs = [l \in 1..Libraries |-> 0]
    /\ pc = [t \in Caller |-> "idle"]
    /\ leaked = 0 /\ forgotten = FALSE

Active == { h \in Handle : handle[h] = "active" }

Go(t, from, to) == pc[t] = from /\ pc' = [pc EXCEPT ![t] = to]

NewHandle(h, state) == handle[h] = "none" /\ handle' = [handle EXCEPT ![h] = state]

Increment == counter' = (counter + 1) % Word

NothingLost == UNCHANGED <<leaked, forgotten>>
-----------------------------------------------------------------------------
\* OpenLibrary by the thread that finds the counter at 0, ...
OpenFirst(t) ==
    /\ Go(t, "idle", "init")
    /\ (counter + 1) % Word = 1 /\ Increment
    /\ UNCHANGED <<handle, libs>> /\ NothingLost

\* ... and by every other: it has its handle at once.
OpenAgain(t) ==
    /\ pc[t] = "idle"
    /\ (counter + 1) % Word # 1 /\ Increment
    /\ \E h \in Handle : NewHandle(h, "active")
    /\ UNCHANGED <<libs, pc>> /\ NothingLost

\* PerformInitialize, all of it under the mutex.
PerformInitialize(t) ==
    /\ Go(t, "init", "idle")
    /\ libs' = [l \in 1..Libraries |-> libs[l] + 1]
    /\ \E h \in Handle : NewHandle(h, "active")
    /\ UNCHANGED counter /\ NothingLost

\* One library fails: those before it stay initialised.
FailInitialize(t) ==
    /\ libs[1] < MaxLost
    /\ Go(t, "init", "failed")
    /\ \E bad \in 1..Libraries :
         libs' = [l \in 1..Libraries |-> IF l < bad THEN libs[l] + 1 ELSE libs[l]]
    /\ UNCHANGED <<counter, handle>> /\ NothingLost

\* The mutex is free again when the counter is reset.
ReturnNull(t) ==
    /\ Go(t, "failed", "idle")
    /\ counter' = 0
    /\ forgotten' = (counter # 1)
    /\ UNCHANGED <<handle, libs, leaked>>
-----------------------------------------------------------------------------
Adopt(h) == IF handle[h] = "active" THEN Increment ELSE UNCHANGED counter

CopyConstruct(from, to) ==
    /\ handle[from] # "none"
    /\ NewHandle(to, handle[from])
    /\ Adopt(from)
    /\ UNCHANGED <<libs, pc>> /\ NothingLost

MoveConstructAsCopy(from, to) ==
    /\ handle[from] # "none" /\ handle[to] = "none"
    /\ handle' = [handle EXCEPT ![to] = handle[from]]
    /\ UNCHANGED <<counter, libs, pc>> /\ NothingLost

MoveConstruct(from, to) ==
    /\ handle[from] # "none" /\ handle[to] = "none"
    /\ handle' = [handle EXCEPT ![to] = handle[from], ![from] = "inactive"]
    /\ UNCHANGED <<counter, libs, pc>> /\ NothingLost

\* Neither assignment gives back what the assigned handle held.
AssignOver(from, to) ==
    /\ from # to
    /\ handle[from] # "none" /\ handle[to] # "none"
    /\ leaked' = IF handle[to] = "active" THEN leaked + 1 ELSE leaked
    /\ leaked' <= MaxLost
    /\ UNCHANGED <<libs, pc, forgotten>>

CopyAssign(from, to) ==
    /\ AssignOver(from, to)
    /\ handle' = [handle EXCEPT ![to] = handle[from]]
    /\ Adopt(from)

MoveAssign(from, to) ==
    /\ AssignOver(from, to)
    /\ handle' = [handle EXCEPT ![to] = handle[from], ![from] = "inactive"]
    /\ UNCHANGED counter

DestroyThenRead(t, h) ==
    /\ pc[t] = "idle" /\ handle[h] # "none"
    /\ handle' = [handle EXCEPT ![h] = "none"]
    /\ counter' = IF handle[h] = "active" THEN (counter - 1) % Word ELSE counter
    /\ pc' = IF counter' = 0 THEN [pc EXCEPT ![t] = "deinit"] ELSE pc
    /\ UNCHANGED libs /\ NothingLost

\* The destructor; the thread that takes the counter to 0 goes on to
\* deinitialise.
Destroy(t, h) ==
    /\ pc[t] = "idle" /\ handle[h] # "none"
    /\ handle' = [handle EXCEPT ![h] = "none"]
    /\ counter' = IF handle[h] = "active" THEN (counter - 1) % Word ELSE counter
    /\ pc' = IF handle[h] = "active" /\ counter' = 0
             THEN [pc EXCEPT ![t] = "deinit"] ELSE pc
    /\ UNCHANGED libs /\ NothingLost

PerformDeinitialize(t) ==
    /\ Go(t, "deinit", "idle")
    /\ libs' = [l \in 1..Libraries |-> libs[l] - 1]
    /\ UNCHANGED <<counter, handle>> /\ NothingLost

Call ==
    \/ \E t \in Caller :
         \/ OpenFirst(t) \/ OpenAgain(t)
         \/ PerformInitialize(t) \/ FailInitialize(t) \/ ReturnNull(t)
         \/ PerformDeinitialize(t)
         \/ \E h \in Handle : Destroy(t, h)
    \/ \E from, to \in Handle :
         \/ CopyConstruct(from, to) \/ MoveConstruct(from, to)
         \/ CopyAssign(from, to) \/ MoveAssign(from, to)

\* Bound: what follows once handles are forgotten is not explored.
RCNext == ~forgotten /\ Call

RCSpec == RCInit /\ [][RCNext]_rcVars
-----------------------------------------------------------------------------
In(state) == { t \in Caller : pc[t] = state }
Quiet == \A t \in Caller : pc[t] = "idle"

\* The counter is the number of live handles, of threads whose opening is
\* under way and of references that were assigned over: no step of the many
\* threads loses or gains a count, but for the reset after a failure.
CountsHandles ==
    forgotten \/
    counter = Cardinality(Active) + Cardinality(In("init") \cup In("failed")) + leaked

\* However the opening of one thread falls between the last drop of another
\* and its deinitialisation, the calls balance: once no thread is in the
\* middle of one, the last library, and with it all, is up exactly once if a
\* handle is left or was assigned over, and down if none was.
QuietMeansBalanced ==
    Quiet /\ ~forgotten =>
      libs[Libraries] = IF Active # {} \/ leaked > 0 THEN 1 ELSE 0
=============================================================================
