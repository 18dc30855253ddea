----------------------------- MODULE PackageInit -----------------------------
(***************************************************************************)
(* The init command: init/Run.cc from the choice of a directory on, and    *)
(* init/InitPackage.cc.  Several processes run it at once in one output    *)
(* directory, and each may be killed between two steps.                    *)
(*                                                                         *)
(* A directory is a candidate: a name, and the number of the suffix behind *)
(* it, 0 for none.  Its files are created in the order 1, 2, ...           *)
(***************************************************************************)
EXTENDS Naturals, FiniteSets

CONSTANTS
    Process,
    Base,           \* names of packages, as directories have them
    MaxAttempts,    \* 0xffff in the code
    Files           \* number of files of a package, 11 in the code

ASSUME InitAssumption ==
    MaxAttempts \in Nat /\ Files \in Nat \ {0}

Candidate == Base \X (0..MaxAttempts)

VARIABLES
    base,       \* the name each process was given
    exists,     \* the candidates that exist
    files,      \* of each candidate, the files that exist
    old,        \* history: the candidates that existed at the start
    pc,         \* what each process does next
    attempts,   \* the number of the candidate it looks at, then of its package
    next        \* the file it creates next

vars == <<base, exists, files, old, pc, attempts, next>>

\* Its package_path.
Path(p) == <<base[p], attempts[p]>>

Running == {"choose", "create", "check", "look", "make", "write", "repository", "remove"}

\* What the variables range over.
TypeOK ==
    /\ base \in [Process -> Base]
    /\ old \subseteq Candidate /\ exists \subseteq Candidate
    /\ files \in [Candidate -> SUBSET (1..Files)]
    /\ \A c \in Candidate \ exists : files[c] = {}
    /\ pc \in [Process -> Running \cup {"done", "failed", "killed"}]
    /\ attempts \in [Process -> 0..MaxAttempts]
    /\ next \in [Process -> 1..Files]

Init ==
    /\ base \in [Process -> Base]
    /\ old \in SUBSET Candidate /\ exists = old
    /\ files = [c \in Candidate |-> IF c \in old THEN 1..Files ELSE {}]
    /\ pc = [p \in Process |-> "choose"]
    /\ attempts = [p \in Process |-> 0]
    /\ next = [p \in Process |-> 1]

Go(p, from, to) == pc[p] = from /\ pc' = [pc EXCEPT ![p] = to]

Unchanged == UNCHANGED <<base, exists, files, old>>
-----------------------------------------------------------------------------
TryNextOverLast(p) ==
    /\ pc[p] = "choose" /\ Path(p) \in exists
    /\ IF attempts[p] < MaxAttempts
       THEN attempts' = [attempts EXCEPT ![p] = @ + 1] /\ UNCHANGED pc
       ELSE Go(p, "choose", "create") /\ UNCHANGED attempts
    /\ Unchanged /\ UNCHANGED next

\* GetNewPackagePath, one candidate at a time.
TryNext(p) ==
    /\ pc[p] = "choose" /\ Path(p) \in exists
    /\ IF attempts[p] < MaxAttempts
       THEN attempts' = [attempts EXCEPT ![p] = @ + 1] /\ UNCHANGED pc
       ELSE Go(p, "choose", "failed") /\ UNCHANGED attempts
    /\ Unchanged /\ UNCHANGED next

Choose(p) ==
    /\ Path(p) \notin exists
    /\ Go(p, "choose", "create")
    /\ Unchanged /\ UNCHANGED <<attempts, next>>

\* CreatePackage looks again; from here on a failure removes the directory.
CreatePackage(p) ==
    /\ \/ Path(p) \notin exists /\ Go(p, "create", "check")
       \/ Path(p) \in exists /\ Go(p, "create", "remove")
    /\ Unchanged /\ UNCHANGED <<attempts, next>>

\* CreateLocalFile: the file must not exist, ...
CheckFile(p) ==
    /\ \/ next[p] \notin files[Path(p)] /\ Go(p, "check", "look")
       \/ next[p] \in files[Path(p)] /\ Go(p, "check", "remove")
    /\ Unchanged /\ UNCHANGED <<attempts, next>>

\* ... its directory is looked for and made (the directories inside the
\* package are not told apart from it), ...
LookForDirectory(p) ==
    /\ \/ Path(p) \in exists /\ Go(p, "look", "write")
       \/ Path(p) \notin exists /\ Go(p, "look", "make")
    /\ Unchanged /\ UNCHANGED <<attempts, next>>

\* ... where one that appeared in between counts as a failure, ...
MakeDirectory(p) ==
    /\ IF Path(p) \in exists THEN Go(p, "make", "remove") ELSE Go(p, "make", "write")
    /\ exists' = exists \cup {Path(p)}
    /\ UNCHANGED <<base, files, old, attempts, next>>

WriteFileButLast(p) ==
    /\ Path(p) \in exists
    /\ IF next[p] = Files
       THEN Go(p, "write", "repository") /\ UNCHANGED <<next, files>>
       ELSE /\ Go(p, "write", "check") /\ next' = [next EXCEPT ![p] = @ + 1]
            /\ files' = [files EXCEPT ![Path(p)] = @ \cup {next[p]}]
    /\ UNCHANGED <<base, exists, old, attempts>>

\* ... and it is opened with truncation, whoever made it in the meantime.  The
\* directory may have been removed since.
WriteFile(p) ==
    /\ Path(p) \in exists
    /\ files' = [files EXCEPT ![Path(p)] = @ \cup {next[p]}]
    /\ IF next[p] = Files
       THEN Go(p, "write", "repository") /\ UNCHANGED next
       ELSE Go(p, "write", "check") /\ next' = [next EXCEPT ![p] = @ + 1]
    /\ UNCHANGED <<base, exists, old, attempts>>

LostDirectory(p) ==
    /\ Path(p) \notin exists
    /\ Go(p, "write", "remove")
    /\ Unchanged /\ UNCHANGED <<attempts, next>>

\* git_repository_init makes the directories it lacks.
InitPackageRepository(p) ==
    /\ Go(p, "repository", "done")
    /\ exists' = exists \cup {Path(p)}
    /\ UNCHANGED <<base, files, old, attempts, next>>

\* The file system refuses a check, a creation or the repository; a removal it
\* never refuses.
Refuse(p) ==
    /\ \/ Go(p, "choose", "failed")
       \/ \E step \in {"create", "check", "look", "make", "write", "repository"} :
            Go(p, step, "remove")
    /\ Unchanged /\ UNCHANGED <<attempts, next>>

\* The command removes what it finds at its path, and fails.
RemoveAll(p) ==
    /\ Go(p, "remove", "failed")
    /\ exists' = exists \ {Path(p)}
    /\ files' = [files EXCEPT ![Path(p)] = {}]
    /\ UNCHANGED <<base, old, attempts, next>>

Kill(p) ==
    /\ pc[p] \in Running
    /\ pc' = [pc EXCEPT ![p] = "killed"]
    /\ Unchanged /\ UNCHANGED <<attempts, next>>

Step(p) ==
    \/ TryNext(p) \/ Choose(p) \/ CreatePackage(p)
    \/ CheckFile(p) \/ LookForDirectory(p) \/ MakeDirectory(p)
    \/ WriteFile(p) \/ LostDirectory(p)
    \/ InitPackageRepository(p) \/ Refuse(p) \/ RemoveAll(p)

Next == \E p \in Process : Step(p) \/ Kill(p)

Spec == Init /\ [][Next]_vars
-----------------------------------------------------------------------------
Complete(c) == c \in exists /\ files[c] = 1..Files

\* What was there before is still there and whole, however many commands run,
\* fail, clean up after themselves or are killed.
OldPackagesUntouched == \A c \in old : Complete(c)

Shares(p) == \E q \in Process \ {p} : Path(q) = Path(p) /\ pc[q] # "choose"

\* "Successfully initialized the package at" (init/Run.cc:293): what a command
\* reported done is whole and stays so, and one that reports failure has left
\* nothing of its own, unless another command found the same directory free.
OutcomeIsTrue ==
    \A p \in Process : ~Shares(p) =>
      /\ pc[p] = "done" => Complete(Path(p))
      /\ pc[p] = "failed" => Path(p) \in old \/ Path(p) \notin exists
=============================================================================
