------------------------------ MODULE InitProofs ------------------------------
(***************************************************************************)
(* For every number of init commands, of names and of attempts, of files   *)
(* per package and of kills: what was in the output directory before stays *)
(* there, whole, and a command that shares its path with no other reports  *)
(* what it has done.  For every table of identifiers and all words: the    *)
(* licence it suggests or writes down is the nearest there is, and the     *)
(* texts and the manifest of a package are whole.                          *)
(*                                                                         *)
(* A command writes and removes only where it points once it has chosen,   *)
(* and it chooses what does not exist, so nothing that was there before.   *)
(* That it never points there is the invariant; where the directory exists *)
(* again later, because another command made it, does not matter.          *)
(*                                                                         *)
(* That Levenstein's table holds edit distances takes most of the module:  *)
(* any pairing of two texts' characters that do not cross costs at least   *)
(* what the table says, and one costs no more.                             *)
(***************************************************************************)
EXTENDS InitCommand, Recursion


PointsAway == \A p \in Process : pc[p] \in Running \ {"choose"} => Path(p) \notin old

IInv == TypeOK /\ old \subseteq exists /\ OldPackagesUntouched /\ PointsAway

(* Where a process points is a candidate.                                  *)
LEMMA PathIsCandidate ==
  ASSUME TypeOK, NEW p \in Process
  PROVE  Path(p) \in Candidate
BY DEF TypeOK, Path, Candidate

(* It holds at first.                                                      *)
LEMMA InitIInv == Init => IInv
<1> SUFFICES ASSUME Init PROVE IInv
  OBVIOUS
<1>1. TypeOK
  BY InitAssumption DEF Init, TypeOK, Running, Candidate
<1>2. OldPackagesUntouched
  BY DEF Init, OldPackagesUntouched, Complete, Candidate
<1> QED
  BY <1>1, <1>2 DEF Init, IInv, PointsAway

(* The types survive every step.                                           *)
LEMMA TypesStep ==
  ASSUME TypeOK, NEW p \in Process, Step(p) \/ Kill(p)
  PROVE  TypeOK'
<1> USE DEF TypeOK, Go, Unchanged, Running
<1>p. Path(p) \in Candidate
  BY PathIsCandidate
<1>1. CASE TryNext(p)
  BY <1>1, InitAssumption DEF TryNext
<1>2. CASE Choose(p)
  BY <1>2 DEF Choose
<1>3. CASE CreatePackage(p)
  BY <1>3 DEF CreatePackage
<1>4. CASE CheckFile(p)
  BY <1>4 DEF CheckFile
<1>5. CASE LookForDirectory(p)
  BY <1>5 DEF LookForDirectory
<1>6. CASE MakeDirectory(p)
  BY <1>6, <1>p DEF MakeDirectory
<1>7. CASE WriteFile(p)
  <2>1. files' \in [Candidate -> SUBSET (1..Files)]
    BY <1>7, <1>p DEF WriteFile
  <2>2. \A c \in Candidate \ exists' : files'[c] = {}
    BY <1>7, <1>p DEF WriteFile
  <2>3. next' \in [Process -> 1..Files]
    BY <1>7, InitAssumption DEF WriteFile
  <2> QED
    BY <1>7, <2>1, <2>2, <2>3 DEF WriteFile
<1>8. CASE LostDirectory(p)
  BY <1>8 DEF LostDirectory
<1>9. CASE InitPackageRepository(p)
  BY <1>9, <1>p DEF InitPackageRepository
<1>10. CASE Refuse(p)
  BY <1>10 DEF Refuse
<1>11. CASE RemoveAll(p)
  BY <1>11, <1>p DEF RemoveAll
<1>12. CASE Kill(p)
  BY <1>12 DEF Kill
<1> QED
  BY <1>1, <1>2, <1>3, <1>4, <1>5, <1>6, <1>7, <1>8, <1>9, <1>10, <1>11, <1>12 DEF Step

(* A command points away from what was there when it chooses and does not  *)
(* point elsewhere afterwards.                                             *)
LEMMA PointsAwayStep ==
  ASSUME IInv, NEW p \in Process, Step(p) \/ Kill(p)
  PROVE  PointsAway'
<1> SUFFICES ASSUME NEW q \in Process, (pc[q] \in Running \ {"choose"})'
             PROVE  Path(q)' \notin old'
  BY DEF PointsAway
<1> USE DEF IInv, TypeOK, PointsAway, Go, Unchanged, Running, Path
<1>1. CASE TryNext(p)
  BY <1>1 DEF TryNext
<1>2. CASE Choose(p)
  BY <1>2 DEF Choose
<1>3. CASE Step(p) /\ ~TryNext(p) /\ ~Choose(p)
  <2>1. UNCHANGED <<base, old, attempts>>
    BY <1>3 DEF Step, CreatePackage, CheckFile, LookForDirectory, MakeDirectory, WriteFile,
                LostDirectory, InitPackageRepository, Refuse, RemoveAll
  <2>2. pc[q] \in Running \ {"choose"}
    BY <1>3 DEF Step, CreatePackage, CheckFile, LookForDirectory, MakeDirectory, WriteFile,
                LostDirectory, InitPackageRepository, Refuse, RemoveAll
  <2> QED
    BY <2>1, <2>2
<1>4. CASE Kill(p)
  BY <1>4 DEF Kill
<1> QED
  BY <1>1, <1>2, <1>3, <1>4

(* Only where the command points is anything made, written or removed.     *)
LEMMA OldStep ==
  ASSUME IInv, NEW p \in Process, Step(p) \/ Kill(p)
  PROVE  old' \subseteq exists' /\ OldPackagesUntouched'
<1> USE DEF IInv, TypeOK, OldPackagesUntouched, Complete, Go, Unchanged
<1>p. Path(p) \in Candidate
  BY PathIsCandidate
<1>1. CASE MakeDirectory(p)
  BY <1>1 DEF MakeDirectory
<1>2. CASE InitPackageRepository(p)
  BY <1>2 DEF InitPackageRepository
<1>3. CASE WriteFile(p)
  <2>1. Path(p) \notin old
    BY <1>3 DEF WriteFile, PointsAway, Running
  <2> QED
    BY <1>3, <1>p, <2>1 DEF WriteFile
<1>4. CASE RemoveAll(p)
  <2>1. Path(p) \notin old
    BY <1>4 DEF RemoveAll, PointsAway, Running
  <2> QED
    BY <1>4, <1>p, <2>1 DEF RemoveAll
<1>5. CASE UNCHANGED <<exists, files, old>>
  BY <1>5
<1>6. \/ MakeDirectory(p) \/ InitPackageRepository(p) \/ WriteFile(p) \/ RemoveAll(p)
      \/ UNCHANGED <<exists, files, old>>
  BY DEF Step, TryNext, Choose, CreatePackage, CheckFile, LookForDirectory,
         LostDirectory, Refuse, Kill
<1> QED
  BY <1>1, <1>2, <1>3, <1>4, <1>5, <1>6

(* And from one step to the next.                                          *)
LEMMA StepIInv == IInv /\ [Next]_vars => IInv'
<1>1. ASSUME IInv, NEW p \in Process, Step(p) \/ Kill(p) PROVE IInv'
  BY <1>1, TypesStep, PointsAwayStep, OldStep DEF IInv
<1>2. ASSUME IInv, UNCHANGED vars PROVE IInv'
  BY <1>2 DEF IInv, vars, TypeOK, OldPackagesUntouched, Complete, PointsAway, Path
<1> QED
  BY <1>1, <1>2 DEF Next

-----------------------------------------------------------------------------
(* What a command does where no other points, step by step: it has made    *)
(* nothing yet, then its files up to the next, then all of them.           *)
Progress(p) ==
  /\ pc[p] = "create" => Path(p) \notin exists
  /\ pc[p] \in {"check", "look", "make", "write"} => files[Path(p)] = 1..(next[p] - 1)
  /\ pc[p] = "write" => Path(p) \in exists
  /\ pc[p] \in {"repository", "done"} => Complete(Path(p))
  /\ pc[p] = "failed" => Path(p) \in old \/ Path(p) \notin exists

FirstFile == \A p \in Process : pc[p] \in {"choose", "create"} => next[p] = 1

(* What exists was there before, or a command that has chosen points there.*)
MadeByCommands ==
  \A c \in exists \ old : \E q \in Process : pc[q] # "choose" /\ Path(q) = c

OInv == FirstFile /\ MadeByCommands /\ \A p \in Process : Shares(p) \/ Progress(p)

(* A step of a command touches nothing but where it points, and where it   *)
(* points once it has chosen is final.                                     *)
LEMMA OwnDirectory ==
  ASSUME TypeOK, NEW p \in Process, Step(p) \/ Kill(p)
  PROVE  /\ UNCHANGED <<base, old>>
         /\ \A q \in Process \ {p} :
              /\ pc'[q] = pc[q] /\ next'[q] = next[q] /\ attempts'[q] = attempts[q]
              /\ Path(q)' = Path(q)
         /\ \A c \in Candidate \ {Path(p)} :
              (c \in exists' <=> c \in exists) /\ files'[c] = files[c]
         /\ pc[p] # "choose" => pc'[p] # "choose"
         /\ pc[p] = "choose" => UNCHANGED <<exists, files>>
         /\ pc'[p] # "choose" => Path(p)' = Path(p)
<1> USE DEF TypeOK, Go, Unchanged, Path
<1>1. CASE TryNext(p)
  BY <1>1 DEF TryNext
<1>2. CASE Choose(p) \/ CreatePackage(p) \/ CheckFile(p) \/ LookForDirectory(p)
           \/ LostDirectory(p) \/ Refuse(p)
  BY <1>2 DEF Choose, CreatePackage, CheckFile, LookForDirectory, LostDirectory, Refuse
<1>3. CASE MakeDirectory(p) \/ InitPackageRepository(p)
  BY <1>3 DEF MakeDirectory, InitPackageRepository
<1>4. CASE WriteFile(p)
  BY <1>4 DEF WriteFile
<1>5. CASE RemoveAll(p)
  BY <1>5 DEF RemoveAll
<1>6. CASE Kill(p)
  BY <1>6 DEF Kill, Running
<1> QED
  BY <1>1, <1>2, <1>3, <1>4, <1>5, <1>6 DEF Step

(* Directories are made only by commands that have chosen them.            *)
LEMMA MadeStep ==
  ASSUME IInv, OInv, NEW p \in Process, Step(p) \/ Kill(p)
  PROVE  FirstFile' /\ MadeByCommands'
<1>t. TypeOK
  BY DEF IInv
<1>1. FirstFile'
  <2>1. pc'[p] \in {"choose", "create"} => next'[p] = next[p] /\ pc[p] = "choose"
    BY <1>t DEF TypeOK, Go, Unchanged, Step, TryNext, Choose, CreatePackage, CheckFile,
       LookForDirectory, MakeDirectory, WriteFile, LostDirectory, InitPackageRepository,
       Refuse, RemoveAll, Kill
  <2> QED
    BY <1>t, <2>1, OwnDirectory DEF OInv, FirstFile
<1>2. MadeByCommands'
  <2> SUFFICES ASSUME NEW c \in exists' \ old'
               PROVE  \E q \in Process : pc'[q] # "choose" /\ Path(q)' = c
    BY DEF MadeByCommands
  <2>1. CASE c \in exists
    <3>1. PICK q \in Process : pc[q] # "choose" /\ Path(q) = c
      BY <1>t, <2>1, OwnDirectory DEF OInv, MadeByCommands
    <3> QED
      BY <1>t, <3>1, OwnDirectory
  <2>2. CASE c \notin exists
    <3>1. TypeOK'
      BY <1>t, TypesStep
    <3>2. c \in Candidate
      BY <3>1 DEF TypeOK
    <3> QED
      BY <1>t, <2>2, <3>2, OwnDirectory
  <2> QED
    BY <2>1, <2>2
<1> QED
  BY <1>1, <1>2

(* Two commands that point to one directory go on doing so.                *)
LEMMA SharingStays ==
  ASSUME TypeOK, NEW p \in Process, Step(p) \/ Kill(p), NEW q \in Process,
         q # p \/ pc[p] # "choose", Shares(q)
  PROVE  Shares(q)'
<1>1. PICK r \in Process \ {q} : Path(r) = Path(q) /\ pc[r] # "choose"
  BY DEF Shares
<1>2. Path(r)' = Path(r) /\ pc'[r] # "choose" /\ Path(q)' = Path(q)
  BY <1>1, OwnDirectory
<1> QED
  BY <1>1, <1>2 DEF Shares

(* A command alone in its directory gets on there.                         *)
LEMMA OwnProgress ==
  ASSUME IInv, OInv, NEW p \in Process, Step(p) \/ Kill(p), ~ Shares(p)'
  PROVE  Progress(p)'
<1>t. TypeOK
  BY DEF IInv
<1>p. Path(p) \in Candidate
  BY <1>t, PathIsCandidate
<1>o. pc[p] # "choose" => Progress(p)
  BY <1>t, SharingStays DEF OInv
<1>a. pc'[p] # "choose" => Path(p)' = Path(p)
  BY <1>t, OwnDirectory
<1>f. pc[p] = "choose" /\ pc'[p] # "choose" => Path(p) \in old \/ Path(p) \notin exists
  <2>1. ASSUME pc[p] = "choose", pc'[p] # "choose", Path(p) \in exists \ old PROVE FALSE
    <3>1. PICK q \in Process : pc[q] # "choose" /\ Path(q) = Path(p)
      BY <2>1 DEF OInv, MadeByCommands
    <3>2. q # p /\ pc'[q] # "choose" /\ Path(q)' = Path(p)'
      BY <1>t, <1>a, <2>1, <3>1, OwnDirectory
    <3> QED
      BY <3>2 DEF Shares
  <2> QED
    BY <2>1
<1> USE <1>t, <1>p, <1>o, <1>a DEF TypeOK, Go, Unchanged, Progress, Complete
<1>1. CASE TryNext(p)
  BY <1>1, <1>f, OwnDirectory DEF TryNext
<1>2. CASE Choose(p)
  BY <1>2 DEF Choose
<1>3. CASE CreatePackage(p)
  <2>1. next'[p] = 1 /\ files' = files /\ exists' = exists /\ pc'[p] \in {"check", "remove"}
    BY <1>3 DEF CreatePackage, OInv, FirstFile
  <2>2. pc'[p] = "check" => files[Path(p)] = {}
    BY <1>3 DEF CreatePackage
  <2>3. 1..(1 - 1) = {}
    OBVIOUS
  <2> QED
    BY <2>1, <2>2, <2>3
<1>4. CASE CheckFile(p) \/ LookForDirectory(p) \/ LostDirectory(p)
  BY <1>4 DEF CheckFile, LookForDirectory, LostDirectory
<1>5. CASE MakeDirectory(p) \/ InitPackageRepository(p)
  BY <1>5 DEF MakeDirectory, InitPackageRepository
<1>6. CASE WriteFile(p)
  <2>1. files'[Path(p)] = 1..next[p] /\ next[p] \in 1..Files /\ exists' = exists
    BY <1>6, InitAssumption DEF WriteFile
  <2>2. CASE next[p] = Files
    BY <1>6, <2>1, <2>2 DEF WriteFile
  <2>3. CASE next[p] # Files
    <3>1. pc'[p] = "check" /\ next'[p] = next[p] + 1
      BY <1>6, <2>3 DEF WriteFile
    <3>2. next'[p] - 1 = next[p]
      BY <2>1, <3>1, InitAssumption
    <3> QED
      BY <2>1, <3>1, <3>2
  <2> QED
    BY <2>2, <2>3
<1>7. CASE Refuse(p)
  BY <1>7, <1>f DEF Refuse
<1>8. CASE RemoveAll(p)
  BY <1>8 DEF RemoveAll
<1>9. CASE Kill(p)
  BY <1>9 DEF Kill
<1> QED
  BY <1>1, <1>2, <1>3, <1>4, <1>5, <1>6, <1>7, <1>8, <1>9 DEF Step

(* And nobody else disturbs it.                                            *)
LEMMA OthersProgress ==
  ASSUME IInv, OInv, NEW p \in Process, Step(p) \/ Kill(p), NEW q \in Process \ {p},
         ~ Shares(q)'
  PROVE  Progress(q)'
<1>t. TypeOK
  BY DEF IInv
<1>1. Progress(q)
  BY <1>t, SharingStays DEF OInv
<1>2. pc'[q] = pc[q] /\ next'[q] = next[q] /\ Path(q)' = Path(q) /\ old' = old
  BY <1>t, OwnDirectory
<1>3. (Path(q) \in exists' <=> Path(q) \in exists) /\ files'[Path(q)] = files[Path(q)]
  <2>1. CASE pc'[p] = "choose"
    BY <1>t, <2>1, OwnDirectory
  <2>2. CASE pc'[p] # "choose"
    <3>1. Path(p)' # Path(q)' /\ Path(p)' = Path(p)
      BY <1>t, <2>2, OwnDirectory DEF Shares
    <3>2. Path(q) \in Candidate \ {Path(p)}
      BY <1>t, <1>2, <3>1, PathIsCandidate
    <3> QED
      BY <1>t, <3>2, OwnDirectory
  <2> QED
    BY <2>1, <2>2
<1> QED
  BY <1>1, <1>2, <1>3 DEF Progress, Complete

(* At first no command has done anything.                                  *)
LEMMA InitOInv == Init => OInv
  BY InitAssumption DEF Init, OInv, FirstFile, MadeByCommands, Progress

(* It gets on, and is not disturbed.                                       *)
LEMMA StepOInv == IInv /\ OInv /\ [Next]_vars => OInv'
<1>1. ASSUME IInv, OInv, NEW p \in Process, Step(p) \/ Kill(p) PROVE OInv'
  <2>1. \A q \in Process : (Shares(q) \/ Progress(q))'
    BY <1>1, OwnProgress, OthersProgress
  <2> QED
    BY <1>1, <2>1, MadeStep DEF OInv
<1>2. ASSUME OInv, UNCHANGED vars PROVE OInv'
  BY <1>2 DEF OInv, vars, FirstFile, MadeByCommands, Progress, Shares, Complete, Path
<1> QED
  BY <1>1, <1>2 DEF Next

-----------------------------------------------------------------------------
(* The commands, their options and the output directory do to packages     *)
(* nothing but what PackageInit says.                                      *)
LEMMA CommandInitIs == CommandInit => Init
BY DEF CommandInit

(* In every step.                                                          *)
LEMMA CommandStepIs == [CommandNext]_allVars => [Next]_vars
<1> SUFFICES ASSUME [CommandNext]_allVars PROVE [Next]_vars
  OBVIOUS
<1>1. ASSUME NEW p \in Process, Perform(p) PROVE [Next]_vars
  BY <1>1 DEF Perform, ShowHelp, RefuseOptions, RefuseLicense, AcceptOptions, LookForOutput,
              MakeOutput, RefuseOutput, Package, Next
<1>2. ASSUME NEW p \in Process, KillCommand(p) PROVE [Next]_vars
  BY <1>2 DEF KillCommand, Next
<1>3. CASE UNCHANGED allVars
  BY <1>3 DEF allVars
<1> QED
  BY <1>1, <1>2, <1>3 DEF CommandNext

(* init implements the creation of packages: whatever its options, it is   *)
(* one of the behaviours of PackageInit (init/Run.cc:259-294).             *)
THEOREM CommandsCreatePackages == CommandSpec => Spec
<1> QED
  BY CommandInitIs, CommandStepIs, PTL DEF CommandSpec, Spec

(* What was in the output directory before is still there, and whole, with *)
(* any number of commands at work in it, failing, cleaning up after        *)
(* themselves or killed (init/Run.cc:69-90, 283-294).                      *)
THEOREM OldPackagesStay == Spec => []OldPackagesUntouched
<1>1. IInv => OldPackagesUntouched
  BY DEF IInv
<1> QED
  BY InitIInv, StepIInv, <1>1, PTL DEF Spec

(* The same of the whole command.                                          *)
THEOREM InitKeepsOldPackages == CommandSpec => []OldPackagesUntouched
<1> QED
  BY CommandsCreatePackages, OldPackagesStay, PTL

(* What a command reports is true (init/Run.cc:283-294): a package it      *)
(* reports done is whole, and where it reports failure it has left nothing *)
(* of its own, unless another command found the same directory free.       *)
THEOREM OutcomesAreTrue == Spec => []OutcomeIsTrue
<1>1. Init => IInv /\ OInv
  BY InitIInv, InitOInv
<1>2. IInv /\ OInv /\ [Next]_vars => (IInv /\ OInv)'
  BY StepIInv, StepOInv
<1>3. OInv => OutcomeIsTrue
  BY DEF OInv, Progress, OutcomeIsTrue
<1> QED
  BY <1>1, <1>2, <1>3, PTL DEF Spec

(* The same of the whole command.                                          *)
THEOREM InitReportsTheTruth == CommandSpec => []OutcomeIsTrue
<1> QED
  BY CommandsCreatePackages, OutcomesAreTrue, PTL
-----------------------------------------------------------------------------
(* The distance of two texts                                               *)

Text == Seq(Int)

(* The least of three.                                                     *)
LEMMA LeastOfThree ==
  ASSUME NEW x \in Nat, NEW y \in Nat, NEW z \in Nat
  PROVE  /\ Min({x, y, z}) \in {x, y, z} /\ Min({x, y, z}) \in Nat
         /\ Min({x, y, z}) <= x /\ Min({x, y, z}) <= y /\ Min({x, y, z}) <= z
<1> DEFINE S == {x, y, z}
<1>1. S \subseteq Nat /\ S # {} /\ x \in S /\ y \in S /\ z \in S
  OBVIOUS
<1> HIDE DEF S
<1>2. Min(S) \in S /\ \A w \in S : Min(S) <= w
  BY <1>1, MinIs
<1> QED
  BY <1>1, <1>2 DEF S

(* d is what Levenstein tabulates: from each two places to the ends.       *)
Distances(a, b, d) ==
  /\ d \in [(0..Len(a)) \X (0..Len(b)) -> Nat]
  /\ \A i \in 0..Len(a) : \A j \in 0..Len(b) :
       d[<<i, j>>] = IF i = Len(a) THEN Len(b) - j
                     ELSE IF j = Len(b) THEN Len(a) - i
                     ELSE IF a[i + 1] = b[j + 1] THEN d[<<i + 1, j + 1>>]
                     ELSE 1 + Min({d[<<i, j + 1>>], d[<<i + 1, j>>], d[<<i + 1, j + 1>>]})

(* What it returns is the distance of the whole texts.                     *)
LEMMA LevensteinIs ==
  ASSUME NEW a \in Text, NEW b \in Text
  PROVE  \E d : Distances(a, b, d) /\ Levenstein(a, b) = d[<<0, 0>>]
<1> DEFINE m == Len(a)
           n == Len(b)
           D == (0..m) \X (0..n)
           E(g, i, j) == IF i = m THEN n - j
                         ELSE IF j = n THEN m - i
                         ELSE IF a[i + 1] = b[j + 1] THEN g[<<i + 1, j + 1>>]
                         ELSE 1 + Min({g[<<i, j + 1>>], g[<<i + 1, j>>], g[<<i + 1, j + 1>>]})
           F == [g \in [D -> Nat] |-> [at \in D |-> E(g, at[1], at[2])]]
           r == [at \in D |-> (m - at[1]) + (n - at[2])]
           IsTable(d) == d = [at \in D |-> E(d, at[1], at[2])]
           d == CHOOSE g : IsTable(g)
<1>1. m \in Nat /\ n \in Nat
  BY DEF Text
<1> HIDE DEF m, n
<1>2. /\ \A i \in 0..m : \A j \in 0..n : <<i, j>> \in D
      /\ \A at \in D : at[1] \in 0..m /\ at[2] \in 0..n /\ at = <<at[1], at[2]>>
  OBVIOUS
<1>3. \A i \in 0..m : i # m => i + 1 \in 0..m
  BY <1>1
<1>4. \A j \in 0..n : j # n => j + 1 \in 0..n
  BY <1>1
<1>a. \A i \in 0..m : \A j \in 0..n : m - i \in Nat /\ n - j \in Nat
  BY <1>1
<1>b. r \in [D -> Nat] /\ \A i \in 0..m : \A j \in 0..n : r[<<i, j>>] = (m - i) + (n - j)
  BY <1>1, <1>a
<1> HIDE DEF D, r
<1>5. ASSUME NEW g \in [D -> Nat], NEW i \in 0..m, NEW j \in 0..n PROVE E(g, i, j) \in Nat
  <2>1. m - i \in Nat /\ n - j \in Nat
    BY <1>a
  <2>2. CASE i = m \/ j = n
    BY <2>1, <2>2
  <2>3. CASE i # m /\ j # n
    <3> DEFINE x == g[<<i, j + 1>>]
               y == g[<<i + 1, j>>]
               z == g[<<i + 1, j + 1>>]
    <3>1. x \in Nat /\ y \in Nat /\ z \in Nat
      BY <1>2, <1>3, <1>4, <2>3
    <3> HIDE DEF x, y, z
    <3>2. 1 + Min({x, y, z}) \in Nat
      BY <3>1, LeastOfThree
    <3>3. E(g, i, j) = IF a[i + 1] = b[j + 1] THEN z ELSE 1 + Min({x, y, z})
      BY <2>3 DEF x, y, z
    <3> QED
      BY <3>1, <3>2, <3>3
  <2> QED
    BY <2>2, <2>3
<1>6. ASSUME NEW g, NEW h, NEW i \in 0..m, NEW j \in 0..n,
             \A y \in D : r[y] < r[<<i, j>>] => g[y] = h[y]
      PROVE  E(g, i, j) = E(h, i, j)
  <2>1. CASE i = m \/ j = n
    BY <2>1
  <2>2. CASE i # m /\ j # n
    <3>1. i + 1 \in 0..m /\ j + 1 \in 0..n
      BY <1>3, <1>4, <2>2
    <3>2. /\ r[<<i, j + 1>>] < r[<<i, j>>] /\ r[<<i + 1, j>>] < r[<<i, j>>]
          /\ r[<<i + 1, j + 1>>] < r[<<i, j>>]
      BY <1>1, <1>b, <3>1
    <3>3. /\ g[<<i, j + 1>>] = h[<<i, j + 1>>] /\ g[<<i + 1, j>>] = h[<<i + 1, j>>]
          /\ g[<<i + 1, j + 1>>] = h[<<i + 1, j + 1>>]
      BY <1>2, <1>6, <3>1, <3>2
    <3> QED
      BY <2>2, <3>3
  <2> QED
    BY <2>1, <2>2
<1>7. F \in [[D -> Nat] -> [D -> Nat]] /\ \A g \in [D -> Nat] : \A at \in D : F[g][at] = E(g, at[1], at[2])
  <2> HIDE DEF E
  <2>1. \A g \in [D -> Nat] : \A at \in D : E(g, at[1], at[2]) \in Nat
    BY <1>2, <1>5
  <2> QED
    BY <2>1
<1>8. \A g, h \in [D -> Nat] : \A x \in D :
        (\A y \in D : r[y] < r[x] => g[y] = h[y]) => F[g][x] = F[h][x]
  <2> SUFFICES ASSUME NEW g \in [D -> Nat], NEW h \in [D -> Nat], NEW x \in D,
                      \A y \in D : r[y] < r[x] => g[y] = h[y]
               PROVE  F[g][x] = F[h][x]
    OBVIOUS
  <2> HIDE DEF E, F
  <2>1. PICK i \in 0..m, j \in 0..n : x = <<i, j>> /\ x[1] = i /\ x[2] = j
    BY <1>2
  <2>2. E(g, i, j) = E(h, i, j)
    BY <1>6, <2>1
  <2> QED
    BY <1>7, <2>1, <2>2
<1>9. Descends(F, D, Nat, r)
  <2> HIDE DEF F
  <2> QED
    BY <1>7, <1>8, <1>b DEF Descends
<1>10. Tells(F, D, Nat)
  <2> HIDE DEF F
  <2>1. Nat # {}
    OBVIOUS
  <2> QED
    BY <1>9, <2>1, RecursionHasFixpoint
<1>11. PICK c \in [D -> Nat] : c = F[c]
  BY <1>10 DEF Tells
<1>12. IsTable(c)
  BY <1>11
<1>13. IsTable(d)
  <2> HIDE DEF IsTable
  <2> QED
    BY <1>12
<1>14. Levenstein(a, b) = d[<<0, 0>>]
  BY DEF Levenstein, D, m, n
<1>15. \A i \in 0..m : \A j \in 0..n : d[<<i, j>>] = E(d, i, j)
  <2> HIDE DEF d
  <2> QED
    BY <1>2, <1>13
<1>16. DOMAIN d = D /\ d = [at \in D |-> d[at]]
  <2> HIDE DEF d
  <2>1. d = [at \in D |-> E(d, at[1], at[2])]
    BY <1>13
  <2> HIDE DEF E
  <2>2. DOMAIN d = D
    BY <2>1
  <2> QED
    BY <2>1, <2>2
<1> HIDE DEF d
<1>17. \A k \in Nat : \A i \in 0..m : \A j \in 0..n : r[<<i, j>>] <= k => d[<<i, j>>] \in Nat
  <2> DEFINE T == {k \in Nat : \A i \in 0..m : \A j \in 0..n : r[<<i, j>>] <= k => d[<<i, j>>] \in Nat}
  <2>0. ASSUME NEW i \in 0..m, NEW j \in 0..n, i = m \/ j = n PROVE d[<<i, j>>] \in Nat
    BY <1>15, <1>a, <2>0
  <2>1. 0 \in T
    <3> SUFFICES ASSUME NEW i \in 0..m, NEW j \in 0..n, r[<<i, j>>] <= 0 PROVE d[<<i, j>>] \in Nat
      OBVIOUS
    <3>1. (m - i) + (n - j) <= 0
      BY <1>b
    <3>2. i = m
      BY <1>1, <3>1
    <3> QED
      BY <2>0, <3>2
  <2>2. ASSUME NEW k \in Nat, k \in T PROVE k + 1 \in T
    <3> SUFFICES ASSUME NEW i \in 0..m, NEW j \in 0..n, r[<<i, j>>] <= k + 1, i # m, j # n
                 PROVE  d[<<i, j>>] \in Nat
      BY <2>0
    <3>1. i + 1 \in 0..m /\ j + 1 \in 0..n
      BY <1>3, <1>4
    <3>2. r[<<i, j>>] = (m - i) + (n - j)
      BY <1>b
    <3>3. /\ r[<<i, j + 1>>] = (m - i) + (n - (j + 1))
          /\ r[<<i + 1, j>>] = (m - (i + 1)) + (n - j)
          /\ r[<<i + 1, j + 1>>] = (m - (i + 1)) + (n - (j + 1))
      BY <1>b, <3>1
    <3>4. r[<<i, j + 1>>] <= k /\ r[<<i + 1, j>>] <= k /\ r[<<i + 1, j + 1>>] <= k
      BY <1>1, <3>2, <3>3
    <3> DEFINE x == d[<<i, j + 1>>]
               y == d[<<i + 1, j>>]
               z == d[<<i + 1, j + 1>>]
    <3>5. x \in Nat /\ y \in Nat /\ z \in Nat
      BY <2>2, <3>1, <3>4
    <3>6. d[<<i, j>>] = IF a[i + 1] = b[j + 1] THEN z ELSE 1 + Min({x, y, z})
      BY <1>15
    <3> HIDE DEF x, y, z
    <3>7. 1 + Min({x, y, z}) \in Nat
      <4>1. Min({x, y, z}) \in Nat
        BY <3>5, LeastOfThree
      <4> QED
        BY ONLY <4>1
    <3> QED
      BY <3>5, <3>6, <3>7
  <2> HIDE DEF T
  <2>3. \A k \in Nat : k \in T
    BY <2>1, <2>2, InductionOnNat
  <2> QED
    BY <2>3 DEF T
<1>18. d \in [D -> Nat]
  <2> SUFFICES ASSUME NEW at \in D PROVE d[at] \in Nat
    BY <1>16
  <2>1. PICK i \in 0..m, j \in 0..n : at = <<i, j>>
    BY <1>2
  <2>2. r[at] \in Nat /\ r[at] <= r[at]
    BY <1>b
  <2> QED
    BY <1>17, <2>1, <2>2
<1>19. Distances(a, b, d)
  BY <1>15, <1>18 DEF Distances, D, m, n
<1> QED
  BY <1>14, <1>19
-----------------------------------------------------------------------------
(* Pairings of what stands behind two places                               *)

(* Two pairs never cross, and never share a place.                         *)
Straight(R) == \A p, q \in R : p[1] < q[1] <=> p[2] < q[2]

Grid(a, b, i, j) == ((i + 1)..Len(a)) \X ((j + 1)..Len(b))

Pairings(a, b, i, j) == {R \in SUBSET Grid(a, b, i, j) : Straight(R)}

Unlike(a, b, R) == {p \in R : a[p[1]] # b[p[2]]}

(* What a pairing saves of deleting and inserting everything.              *)
Saves(a, b, R) == 2 * Cardinality(R) - Cardinality(Unlike(a, b, R))

Costs(a, b, i, j, R) == (Len(a) - i) + (Len(b) - j) - Saves(a, b, R)

(* Of the pairs of places behind two others there are finitely many.       *)
LEMMA GridIs ==
  ASSUME NEW a \in Text, NEW b \in Text, NEW i \in 0..Len(a), NEW j \in 0..Len(b)
  PROVE  /\ IsFiniteSet(Grid(a, b, i, j))
         /\ \A p \in Grid(a, b, i, j) :
              /\ p = <<p[1], p[2]>> /\ p[1] \in 1..Len(a) /\ p[2] \in 1..Len(b)
              /\ i < p[1] /\ j < p[2]
         /\ i = Len(a) \/ j = Len(b) => Grid(a, b, i, j) = {}
<1> DEFINE m == Len(a)
           n == Len(b)
           G == Grid(a, b, i, j)
<1>1. m \in Nat /\ n \in Nat
  BY DEF Text
<1> HIDE DEF m, n
<1>2. IsFiniteSet((i + 1)..m) /\ IsFiniteSet((j + 1)..n)
  BY <1>1, FS_Interval
<1>3. IsFiniteSet(((i + 1)..m) \X ((j + 1)..n))
  BY <1>2, FS_Product
<1>4. \A p \in ((i + 1)..m) \X ((j + 1)..n) : p = <<p[1], p[2]>> /\ p[1] \in (i + 1)..m /\ p[2] \in (j + 1)..n
  OBVIOUS
<1>5. i = m \/ j = n => ((i + 1)..m) \X ((j + 1)..n) = {}
  BY <1>1
<1>6. (i + 1)..m \subseteq 1..m /\ (j + 1)..n \subseteq 1..n
  BY <1>1
<1>7. (\A x \in (i + 1)..m : i < x) /\ (\A y \in (j + 1)..n : j < y)
  BY <1>1
<1> QED
  BY <1>3, <1>4, <1>5, <1>6, <1>7 DEF Grid, m, n

(* What pairings save is a number.                                         *)
LEMMA SavesIs ==
  ASSUME NEW a \in Text, NEW b \in Text, NEW i \in 0..Len(a), NEW j \in 0..Len(b),
         NEW R \in SUBSET Grid(a, b, i, j)
  PROVE  /\ IsFiniteSet(R) /\ Cardinality(R) \in Nat
         /\ IsFiniteSet(Unlike(a, b, R)) /\ Cardinality(Unlike(a, b, R)) \in Nat
         /\ Saves(a, b, R) \in Int
<1>1. IsFiniteSet(R)
  BY GridIs, FS_Subset
<1>2. Unlike(a, b, R) \in SUBSET R
  BY DEF Unlike
<1>3. IsFiniteSet(Unlike(a, b, R))
  BY <1>1, <1>2, FS_Subset
<1>4. Cardinality(R) \in Nat /\ Cardinality(Unlike(a, b, R)) \in Nat
  BY <1>1, <1>3, FS_CardinalityType
<1> QED
  BY <1>1, <1>3, <1>4 DEF Saves

(* No pair, nothing saved.                                                 *)
LEMMA EmptySaves ==
  ASSUME NEW a, NEW b PROVE Saves(a, b, {}) = 0
<1>1. Unlike(a, b, {}) = {}
  BY DEF Unlike
<1>2. Cardinality({}) = 0
  BY FS_EmptySet
<1> QED
  BY <1>1, <1>2 DEF Saves

(* One pair less.                                                          *)
LEMMA SavesOfOne ==
  ASSUME NEW a \in Text, NEW b \in Text, NEW i \in 0..Len(a), NEW j \in 0..Len(b),
         NEW R \in SUBSET Grid(a, b, i, j), NEW p \in R
  PROVE  Saves(a, b, R) = Saves(a, b, R \ {p}) + (IF a[p[1]] = b[p[2]] THEN 2 ELSE 1)
<1> DEFINE U == Unlike(a, b, R)
           S == R \ {p}
<1>1. S \in SUBSET Grid(a, b, i, j)
  OBVIOUS
<1>2. /\ IsFiniteSet(R) /\ Cardinality(R) \in Nat
      /\ IsFiniteSet(U) /\ Cardinality(U) \in Nat
  BY SavesIs
<1>3. Cardinality(S) = Cardinality(R) - 1
  BY <1>2, FS_RemoveElement
<1>4. Unlike(a, b, S) = U \ {p} /\ (p \in U <=> a[p[1]] # b[p[2]])
  BY DEF Unlike
<1>5. Cardinality(U \ {p}) = IF p \in U THEN Cardinality(U) - 1 ELSE Cardinality(U)
  BY <1>2, FS_RemoveElement
<1> DEFINE r == Cardinality(R)
           u == Cardinality(U)
<1>6. /\ r \in Nat /\ u \in Nat /\ Cardinality(S) = r - 1
      /\ Cardinality(Unlike(a, b, S)) = IF a[p[1]] = b[p[2]] THEN u ELSE u - 1
      /\ Saves(a, b, R) = 2 * r - u
      /\ Saves(a, b, S) = 2 * Cardinality(S) - Cardinality(Unlike(a, b, S))
  BY <1>2, <1>3, <1>4, <1>5 DEF Saves
<1> HIDE DEF r, u, S, U
<1>7. CASE a[p[1]] = b[p[2]]
  BY <1>6, <1>7 DEF S
<1>8. CASE a[p[1]] # b[p[2]]
  BY <1>6, <1>8 DEF S
<1> QED
  BY <1>7, <1>8

(* What is left of a pairing without the two characters that come first.   *)
LEMMA Shorter ==
  ASSUME NEW a \in Text, NEW b \in Text, NEW i \in 0..(Len(a) - 1), NEW j \in 0..(Len(b) - 1),
         NEW R \in Pairings(a, b, i, j)
  PROVE  \/ R \in Pairings(a, b, i + 1, j)
         \/ R \in Pairings(a, b, i, j + 1)
         \/ <<i + 1, j + 1>> \in R /\ R \ {<<i + 1, j + 1>>} \in Pairings(a, b, i + 1, j + 1)
<1> DEFINE m == Len(a)
           n == Len(b)
           x == i + 1
           y == j + 1
<1>1. m \in Nat /\ n \in Nat
  BY DEF Text
<1>2. R \subseteq (x..m) \X (y..n) /\ Straight(R)
  BY DEF Pairings, Grid
<1>3. i \in Nat /\ j \in Nat /\ x \in 1..m /\ y \in 1..n
  BY <1>1
<1> HIDE DEF m, n, x, y
<1>4. \A p \in R : p = <<p[1], p[2]>> /\ p[1] \in x..m /\ p[2] \in y..n
  BY <1>2
<1>5. \A k \in x..m : k # x => k \in (x + 1)..m
  BY <1>1, <1>3
<1>6. \A k \in y..n : k # y => k \in (y + 1)..n
  BY <1>1, <1>3
<1>7. CASE \A p \in R : p[1] # x
  <2>1. R \subseteq ((x + 1)..m) \X (y..n)
    BY <1>4, <1>5, <1>7
  <2> QED
    BY <1>2, <2>1 DEF Pairings, Grid, m, n, x, y
<1>8. CASE \A p \in R : p[2] # y
  <2>1. R \subseteq (x..m) \X ((y + 1)..n)
    BY <1>4, <1>6, <1>8
  <2> QED
    BY <1>2, <2>1 DEF Pairings, Grid, m, n, x, y
<1>9. ASSUME NEW p \in R, p[1] = x, NEW q \in R, q[2] = y
      PROVE  <<x, y>> \in R /\ R \ {<<x, y>>} \subseteq ((x + 1)..m) \X ((y + 1)..n)
  <2>1. ~(q[1] < p[1])
    BY <1>1, <1>3, <1>4, <1>9
  <2>2. ~(q[2] < p[2])
    BY <1>2, <2>1 DEF Straight
  <2>3. p[2] = y
    BY <1>1, <1>3, <1>4, <1>9, <2>2
  <2>4. p = <<x, y>>
    BY <1>4, <1>9, <2>3
  <2>5. ASSUME NEW s \in R, s[1] = x \/ s[2] = y PROVE s = p
    <3>1. ~(s[1] < p[1]) /\ ~(s[2] < p[2]) /\ p[1] = x /\ p[2] = y
      BY <1>1, <1>3, <1>4, <1>9, <2>3
    <3>2. (p[1] < s[1] <=> p[2] < s[2])
      BY <1>2 DEF Straight
    <3>3. s[1] = x /\ s[2] = y
      BY <1>1, <1>3, <1>4, <2>5, <3>1, <3>2
    <3> QED
      BY <1>4, <2>4, <3>3
  <2>6. ASSUME NEW s \in R \ {<<x, y>>} PROVE s \in ((x + 1)..m) \X ((y + 1)..n)
    <3>1. s[1] # x /\ s[2] # y
      BY <2>4, <2>5, <2>6
    <3>2. s[1] \in (x + 1)..m /\ s[2] \in (y + 1)..n /\ s = <<s[1], s[2]>>
      BY <1>4, <1>5, <1>6, <3>1
    <3> QED
      BY <3>2
  <2> QED
    BY <2>4, <2>6
<1>10. \A S \in SUBSET R : Straight(S)
  BY <1>2 DEF Straight
<1>11. CASE (\E p \in R : p[1] = x) /\ (\E q \in R : q[2] = y)
  <2>1. <<x, y>> \in R /\ R \ {<<x, y>>} \subseteq ((x + 1)..m) \X ((y + 1)..n)
    BY <1>9, <1>11
  <2>2. Straight(R \ {<<x, y>>})
    BY <1>10
  <2> QED
    BY <2>1, <2>2 DEF Pairings, Grid, m, n, x, y
<1> QED
  BY <1>7, <1>8, <1>11

(* The same for two places that are alike: one pair at most is lost.       *)
LEMMA ShorterByBoth ==
  ASSUME NEW a \in Text, NEW b \in Text, NEW i \in 0..(Len(a) - 1), NEW j \in 0..(Len(b) - 1),
         NEW R \in Pairings(a, b, i, j)
  PROVE  \E S \in Pairings(a, b, i + 1, j + 1) : Saves(a, b, R) <= Saves(a, b, S) + 2
<1> DEFINE m == Len(a)
           n == Len(b)
           x == i + 1
           y == j + 1
<1>0. m \in Nat /\ n \in Nat
  BY DEF Text
<1>1. i \in 0..m /\ j \in 0..n /\ x \in 1..m /\ y \in 1..n /\ x \in 0..m /\ y \in 0..n
  BY <1>0
<1>2. R \in SUBSET Grid(a, b, i, j) /\ Straight(R) /\ R \subseteq (x..m) \X (y..n)
  BY DEF Pairings, Grid
<1>3. ASSUME NEW S \in SUBSET R, S \subseteq ((x + 1)..m) \X ((y + 1)..n)
      PROVE  S \in Pairings(a, b, i + 1, j + 1)
  <2>1. Straight(S)
    BY <1>2 DEF Straight
  <2> QED
    BY <1>3, <2>1 DEF Pairings, Grid
<1>4. \A p \in R : Saves(a, b, R) <= Saves(a, b, R \ {p}) + 2
  <2> SUFFICES ASSUME NEW p \in R PROVE Saves(a, b, R) <= Saves(a, b, R \ {p}) + 2
    OBVIOUS
  <2>1. Saves(a, b, R) = Saves(a, b, R \ {p}) + (IF a[p[1]] = b[p[2]] THEN 2 ELSE 1)
    BY <1>1, <1>2, SavesOfOne
  <2>2. R \ {p} \in SUBSET Grid(a, b, i, j)
    BY <1>2
  <2>3. Saves(a, b, R \ {p}) \in Int
    BY <1>1, <2>2, SavesIs
  <2> QED
    BY <2>1, <2>3
<1>5. Saves(a, b, R) \in Int
  BY <1>1, <1>2, SavesIs
<1> HIDE DEF m, n, x, y
<1>6. \A p \in R : p = <<p[1], p[2]>> /\ p[1] \in x..m /\ p[2] \in y..n
  BY <1>2
<1>7. \A k \in x..m : k # x => k \in (x + 1)..m
  BY <1>0, <1>1
<1>8. \A k \in y..n : k # y => k \in (y + 1)..n
  BY <1>0, <1>1
<1> DEFINE Touches(p) == p[1] = x \/ p[2] = y
<1>9. ASSUME NEW p \in R, NEW q \in R, Touches(p), Touches(q) PROVE p = q
  <2>1. (p[1] < q[1] <=> p[2] < q[2]) /\ (q[1] < p[1] <=> q[2] < p[2])
    BY <1>2 DEF Straight
  <2>2. p[1] = q[1] /\ p[2] = q[2]
    BY <1>0, <1>1, <1>6, <1>9, <2>1
  <2> QED
    BY <1>6, <2>2
<1>10. ASSUME NEW S \in SUBSET R, \A p \in S : ~Touches(p)
       PROVE  S \in Pairings(a, b, i + 1, j + 1)
  <2>1. S \subseteq ((x + 1)..m) \X ((y + 1)..n)
    BY <1>6, <1>7, <1>8, <1>10
  <2> QED
    BY <1>3, <2>1
<1>11. CASE \A p \in R : ~Touches(p)
  <2>1. R \in Pairings(a, b, i + 1, j + 1)
    BY <1>10, <1>11
  <2>2. Saves(a, b, R) <= Saves(a, b, R) + 2
    BY <1>5
  <2> QED
    BY <2>1, <2>2
<1>12. ASSUME NEW p \in R, Touches(p)
       PROVE  R \ {p} \in Pairings(a, b, i + 1, j + 1)
  <2>1. \A q \in R \ {p} : ~Touches(q)
    BY <1>9, <1>12
  <2> HIDE DEF Touches
  <2> QED
    BY <1>10, <2>1
<1> HIDE DEF Touches
<1> QED
  BY <1>4, <1>11, <1>12

(* No pairing costs less than the table says.                              *)
LEMMA NoneIsCheaper ==
  ASSUME NEW a \in Text, NEW b \in Text, NEW d, Distances(a, b, d)
  PROVE  \A i \in 0..Len(a) : \A j \in 0..Len(b) : \A R \in Pairings(a, b, i, j) :
           d[<<i, j>>] <= Costs(a, b, i, j, R)
<1> DEFINE m == Len(a)
           n == Len(b)
           Bound(i, j) == \A R \in Pairings(a, b, i, j) : d[<<i, j>>] <= Costs(a, b, i, j, R)
           T == {k \in Nat : \A i \in 0..m : \A j \in 0..n : (m - i) + (n - j) <= k => Bound(i, j)}
<1>1. m \in Nat /\ n \in Nat
  BY DEF Text
<1>2. ASSUME NEW i \in 0..m, NEW j \in 0..n, i = m \/ j = n PROVE Bound(i, j)
  <2> SUFFICES ASSUME NEW R \in Pairings(a, b, i, j) PROVE d[<<i, j>>] <= Costs(a, b, i, j, R)
    OBVIOUS
  <2>1. R = {}
    BY <1>2, GridIs DEF Pairings
  <2>2. Costs(a, b, i, j, R) = (m - i) + (n - j)
    <3>1. Saves(a, b, R) = 0
      BY <2>1, EmptySaves
    <3> QED
      BY <1>1, <3>1 DEF Costs
  <2>3. d[<<i, j>>] = IF i = m THEN n - j ELSE m - i
    BY <1>2 DEF Distances
  <2> QED
    BY <1>1, <1>2, <2>2, <2>3
<1>3. 0 \in T
  <2> SUFFICES ASSUME NEW i \in 0..m, NEW j \in 0..n, (m - i) + (n - j) <= 0 PROVE Bound(i, j)
    OBVIOUS
  <2>1. i = m
    BY <1>1
  <2> HIDE DEF Bound
  <2> QED
    BY <1>2, <2>1
<1>4. ASSUME NEW k \in Nat, k \in T PROVE k + 1 \in T
  <2> SUFFICES ASSUME NEW i \in 0..(m - 1), NEW j \in 0..(n - 1), (m - i) + (n - j) <= k + 1
               PROVE  Bound(i, j)
    <3> HIDE DEF Bound
    <3>1. \A i \in 0..m : i # m => i \in 0..(m - 1)
      BY <1>1
    <3>2. \A j \in 0..n : j # n => j \in 0..(n - 1)
      BY <1>1
    <3> QED
      BY <1>2, <3>1, <3>2
  <2> SUFFICES ASSUME NEW R \in Pairings(a, b, i, j) PROVE d[<<i, j>>] <= Costs(a, b, i, j, R)
    OBVIOUS
  <2>1. /\ i \in 0..m /\ j \in 0..n /\ i + 1 \in 0..m /\ j + 1 \in 0..n /\ i # m /\ j # n
        /\ i \in Int /\ j \in Int
    BY <1>1
  <2>2. /\ (m - (i + 1)) + (n - j) <= k /\ (m - i) + (n - (j + 1)) <= k
        /\ (m - (i + 1)) + (n - (j + 1)) <= k
    BY <1>1, <2>1
  <2>3. Bound(i + 1, j) /\ Bound(i, j + 1) /\ Bound(i + 1, j + 1)
    <3> HIDE DEF Bound
    <3> QED
      BY <1>4, <2>1, <2>2
  <2> DEFINE x == d[<<i, j + 1>>]
             y == d[<<i + 1, j>>]
             z == d[<<i + 1, j + 1>>]
             e == d[<<i, j>>]
  <2>4. x \in Nat /\ y \in Nat /\ z \in Nat /\ e \in Nat
    BY <2>1 DEF Distances
  <2>5. e = IF a[i + 1] = b[j + 1] THEN z ELSE 1 + Min({x, y, z})
    BY <2>1 DEF Distances
  <2>6. R \in SUBSET Grid(a, b, i, j)
    BY DEF Pairings
  <2>7. Saves(a, b, R) \in Int
    BY <2>1, <2>6, SavesIs
  <2>8. \A S \in Pairings(a, b, i + 1, j) : y <= (m - (i + 1)) + (n - j) - Saves(a, b, S)
    BY <2>3 DEF Costs
  <2>9. \A S \in Pairings(a, b, i, j + 1) : x <= (m - i) + (n - (j + 1)) - Saves(a, b, S)
    BY <2>3 DEF Costs
  <2>10. \A S \in Pairings(a, b, i + 1, j + 1) :
           z <= (m - (i + 1)) + (n - (j + 1)) - Saves(a, b, S) /\ Saves(a, b, S) \in Int
    <3> SUFFICES ASSUME NEW S \in Pairings(a, b, i + 1, j + 1)
                 PROVE  z <= (m - (i + 1)) + (n - (j + 1)) - Saves(a, b, S) /\ Saves(a, b, S) \in Int
      OBVIOUS
    <3>1. S \in SUBSET Grid(a, b, i + 1, j + 1)
      BY DEF Pairings
    <3>2. Saves(a, b, S) \in Int
      BY <2>1, <3>1, SavesIs
    <3> QED
      BY <2>3, <3>2 DEF Costs
  <2>11. SUFFICES e <= (m - i) + (n - j) - Saves(a, b, R)
    BY DEF Costs
  <2> HIDE DEF x, y, z, e, m, n
  <2>12. CASE a[i + 1] = b[j + 1]
    <3>1. i \in 0..(Len(a) - 1) /\ j \in 0..(Len(b) - 1)
      BY DEF m, n
    <3>2. PICK S \in Pairings(a, b, i + 1, j + 1) : Saves(a, b, R) <= Saves(a, b, S) + 2
      BY <3>1, ShorterByBoth
    <3>3. e = z
      BY <2>5, <2>12
    <3> QED
      BY <1>1, <2>1, <2>4, <2>7, <2>10, <3>2, <3>3
  <2>13. CASE a[i + 1] # b[j + 1]
    <3>1. e <= 1 + x /\ e <= 1 + y /\ e <= 1 + z
      <4>1. Min({x, y, z}) \in Nat /\ Min({x, y, z}) <= x /\ Min({x, y, z}) <= y /\ Min({x, y, z}) <= z
        BY <2>4, LeastOfThree
      <4>2. e = 1 + Min({x, y, z})
        BY <2>5, <2>13
      <4> QED
        BY <2>4, <4>1, <4>2
    <3>2. \/ R \in Pairings(a, b, i + 1, j)
          \/ R \in Pairings(a, b, i, j + 1)
          \/ <<i + 1, j + 1>> \in R /\ R \ {<<i + 1, j + 1>>} \in Pairings(a, b, i + 1, j + 1)
      <4>1. i \in 0..(Len(a) - 1) /\ j \in 0..(Len(b) - 1)
        BY DEF m, n
      <4> QED
        BY <4>1, Shorter
    <3>3. CASE R \in Pairings(a, b, i + 1, j)
      BY <1>1, <2>1, <2>4, <2>7, <2>8, <3>1, <3>3
    <3>4. CASE R \in Pairings(a, b, i, j + 1)
      BY <1>1, <2>1, <2>4, <2>7, <2>9, <3>1, <3>4
    <3>5. ASSUME NEW p \in R, p = <<i + 1, j + 1>>, R \ {p} \in Pairings(a, b, i + 1, j + 1)
          PROVE  e <= (m - i) + (n - j) - Saves(a, b, R)
      <4>1. Saves(a, b, R) = Saves(a, b, R \ {p}) + (IF a[p[1]] = b[p[2]] THEN 2 ELSE 1)
        <5>1. i \in 0..Len(a) /\ j \in 0..Len(b)
          BY <2>1 DEF m, n
        <5> QED
          BY <2>6, <5>1, SavesOfOne
      <4>2. p[1] = i + 1 /\ p[2] = j + 1
        BY <3>5
      <4>3. Saves(a, b, R) = Saves(a, b, R \ {p}) + 1
        BY <2>13, <4>1, <4>2
      <4>4. z <= (m - (i + 1)) + (n - (j + 1)) - Saves(a, b, R \ {p}) /\ Saves(a, b, R \ {p}) \in Int
        BY <2>10, <3>5
      <4> QED
        BY <1>1, <2>1, <2>4, <3>1, <4>3, <4>4
    <3> QED
      BY <3>2, <3>3, <3>4, <3>5
  <2> QED
    BY <2>12, <2>13
<1> HIDE DEF T, Bound
<1>5. \A k \in Nat : k \in T
  BY <1>3, <1>4, InductionOnNat
<1>6. ASSUME NEW i \in 0..m, NEW j \in 0..n PROVE Bound(i, j)
  <2>1. (m - i) + (n - j) \in Nat
    BY <1>1
  <2>2. (m - i) + (n - j) <= (m - i) + (n - j)
    BY <2>1
  <2> QED
    BY <1>5, <2>1, <2>2 DEF T
<1> QED
  BY <1>6 DEF Bound, m, n

(* Some pairing costs no more.                                             *)
LEMMA SomeIsAsCheap ==
  ASSUME NEW a \in Text, NEW b \in Text, NEW d, Distances(a, b, d)
  PROVE  \A i \in 0..Len(a) : \A j \in 0..Len(b) : \E R \in Pairings(a, b, i, j) :
           d[<<i, j>>] = Costs(a, b, i, j, R)
<1> DEFINE m == Len(a)
           n == Len(b)
           Bound(i, j) == \E R \in Pairings(a, b, i, j) : d[<<i, j>>] = Costs(a, b, i, j, R)
           T == {k \in Nat : \A i \in 0..m : \A j \in 0..n : (m - i) + (n - j) <= k => Bound(i, j)}
<1>1. m \in Nat /\ n \in Nat
  BY DEF Text
<1>2. ASSUME NEW i \in 0..m, NEW j \in 0..n, i = m \/ j = n PROVE Bound(i, j)
  <2>1. {} \in Pairings(a, b, i, j)
    BY DEF Pairings, Straight
  <2>2. Costs(a, b, i, j, {}) = (m - i) + (n - j)
    BY <1>1, EmptySaves DEF Costs
  <2>3. d[<<i, j>>] = IF i = m THEN n - j ELSE m - i
    BY <1>2 DEF Distances
  <2>4. d[<<i, j>>] = Costs(a, b, i, j, {})
    BY <1>1, <1>2, <2>2, <2>3
  <2> QED
    BY <2>1, <2>4
<1>3. 0 \in T
  <2> SUFFICES ASSUME NEW i \in 0..m, NEW j \in 0..n, (m - i) + (n - j) <= 0 PROVE Bound(i, j)
    OBVIOUS
  <2>1. i = m
    BY <1>1
  <2> HIDE DEF Bound
  <2> QED
    BY <1>2, <2>1
<1>4. ASSUME NEW k \in Nat, k \in T PROVE k + 1 \in T
  <2> SUFFICES ASSUME NEW i \in 0..(m - 1), NEW j \in 0..(n - 1), (m - i) + (n - j) <= k + 1
               PROVE  Bound(i, j)
    <3> HIDE DEF Bound
    <3>1. \A i \in 0..m : i # m => i \in 0..(m - 1)
      BY <1>1
    <3>2. \A j \in 0..n : j # n => j \in 0..(n - 1)
      BY <1>1
    <3> QED
      BY <1>2, <3>1, <3>2
  <2>1. /\ i \in 0..m /\ j \in 0..n /\ i + 1 \in 0..m /\ j + 1 \in 0..n /\ i # m /\ j # n
        /\ i \in Int /\ j \in Int
    BY <1>1
  <2>2. /\ (m - (i + 1)) + (n - j) <= k /\ (m - i) + (n - (j + 1)) <= k
        /\ (m - (i + 1)) + (n - (j + 1)) <= k
    BY <1>1, <2>1
  <2>3. Bound(i + 1, j) /\ Bound(i, j + 1) /\ Bound(i + 1, j + 1)
    <3> HIDE DEF Bound
    <3> QED
      BY <1>4, <2>1, <2>2
  <2> DEFINE x == d[<<i, j + 1>>]
             y == d[<<i + 1, j>>]
             z == d[<<i + 1, j + 1>>]
             e == d[<<i, j>>]
  <2>4. x \in Nat /\ y \in Nat /\ z \in Nat /\ e \in Nat
    BY <2>1 DEF Distances
  <2>5. e = IF a[i + 1] = b[j + 1] THEN z ELSE 1 + Min({x, y, z})
    BY <2>1 DEF Distances
  <2>6. PICK Y \in Pairings(a, b, i + 1, j) : y = (m - (i + 1)) + (n - j) - Saves(a, b, Y)
    BY <2>3 DEF Costs
  <2>7. PICK X \in Pairings(a, b, i, j + 1) : x = (m - i) + (n - (j + 1)) - Saves(a, b, X)
    BY <2>3 DEF Costs
  <2>8. PICK Z \in Pairings(a, b, i + 1, j + 1) : z = (m - (i + 1)) + (n - (j + 1)) - Saves(a, b, Z)
    BY <2>3 DEF Costs
  <2> DEFINE p == <<i + 1, j + 1>>
             W == Z \cup {p}
  <2> HIDE DEF x, y, z, e
  <2>9. X \in Pairings(a, b, i, j) /\ Y \in Pairings(a, b, i, j)
    <3>1. Grid(a, b, i + 1, j) \subseteq Grid(a, b, i, j) /\ Grid(a, b, i, j + 1) \subseteq Grid(a, b, i, j)
      <4>1. ((i + 1) + 1)..m \subseteq (i + 1)..m /\ ((j + 1) + 1)..n \subseteq (j + 1)..n
        BY <1>1, <2>1
      <4> QED
        BY <4>1 DEF Grid
    <3> QED
      BY <3>1 DEF Pairings
  <2>10. W \in Pairings(a, b, i, j) /\ W \ {p} = Z /\ p \in W
    <3>1. i + 1 \in (i + 1)..m /\ j + 1 \in (j + 1)..n
      BY <1>1
    <3>2. ((i + 1) + 1)..m \subseteq (i + 1)..m /\ ((j + 1) + 1)..n \subseteq (j + 1)..n
      BY <1>1, <2>1
    <3>3. Grid(a, b, i + 1, j + 1) \subseteq Grid(a, b, i, j) /\ p \in Grid(a, b, i, j)
      BY <3>1, <3>2 DEF Grid
    <3>4. Z \subseteq Grid(a, b, i + 1, j + 1) /\ Straight(Z)
      BY DEF Pairings
    <3>5. i + 1 \in 0..Len(a) /\ j + 1 \in 0..Len(b)
      BY <2>1
    <3>6. \A q \in Z : /\ i + 1 < q[1] /\ j + 1 < q[2] /\ q[1] \in Nat /\ q[2] \in Nat
      <4>1. \A q \in Grid(a, b, i + 1, j + 1) :
              i + 1 < q[1] /\ j + 1 < q[2] /\ q[1] \in 1..Len(a) /\ q[2] \in 1..Len(b)
        BY <3>5, GridIs
      <4>2. \A place \in 1..Len(a) : place \in Nat
        OBVIOUS
      <4>3. \A place \in 1..Len(b) : place \in Nat
        OBVIOUS
      <4> QED
        BY <3>4, <4>1, <4>2, <4>3
    <3>7. p[1] = i + 1 /\ p[2] = j + 1
      OBVIOUS
    <3> HIDE DEF p
    <3>8. p \notin Z
      BY <2>1, <3>6, <3>7
    <3>9. \A q \in Z : (q[1] < p[1] <=> q[2] < p[2]) /\ (p[1] < q[1] <=> p[2] < q[2])
      BY <2>1, <3>6, <3>7
    <3>10. p[1] < p[1] <=> p[2] < p[2]
      BY <2>1, <3>7
    <3>11. Straight(W)
      BY <3>4, <3>9, <3>10 DEF Straight
    <3> QED
      BY <3>3, <3>4, <3>8, <3>11 DEF Pairings
  <2> HIDE DEF W
  <2>11. Saves(a, b, W) = Saves(a, b, Z) + (IF a[i + 1] = b[j + 1] THEN 2 ELSE 1)
    <3>1. W \in SUBSET Grid(a, b, i, j) /\ p \in W /\ p[1] = i + 1 /\ p[2] = j + 1
      BY <2>10 DEF Pairings
    <3> HIDE DEF p
    <3>2. Saves(a, b, W) = Saves(a, b, W \ {p}) + (IF a[p[1]] = b[p[2]] THEN 2 ELSE 1)
      BY <2>1, <3>1, SavesOfOne
    <3>3. Saves(a, b, W) = Saves(a, b, Z) + (IF a[p[1]] = b[p[2]] THEN 2 ELSE 1)
      BY <2>10, <3>2
    <3>4. a[p[1]] = a[i + 1] /\ b[p[2]] = b[j + 1]
      BY <3>1
    <3> QED
      BY <3>3, <3>4
  <2>12. Saves(a, b, X) \in Int /\ Saves(a, b, Y) \in Int /\ Saves(a, b, Z) \in Int
    <3>1. X \in SUBSET Grid(a, b, i, j + 1) /\ Y \in SUBSET Grid(a, b, i + 1, j)
          /\ Z \in SUBSET Grid(a, b, i + 1, j + 1)
      BY DEF Pairings
    <3>2. Saves(a, b, X) \in Int
      BY <2>1, <3>1, SavesIs
    <3>3. Saves(a, b, Y) \in Int
      BY <2>1, <3>1, SavesIs
    <3>4. Saves(a, b, Z) \in Int
      BY <2>1, <3>1, SavesIs
    <3> QED
      BY <3>2, <3>3, <3>4
  <2>13. SUFFICES \E R \in Pairings(a, b, i, j) : e = (m - i) + (n - j) - Saves(a, b, R)
    BY DEF Costs, e
  <2> HIDE DEF m, n
  <2>14. CASE a[i + 1] = b[j + 1]
    <3>1. e = z /\ Saves(a, b, W) = Saves(a, b, Z) + 2
      BY <2>5, <2>11, <2>14
    <3>2. e = (m - i) + (n - j) - Saves(a, b, W)
      BY <1>1, <2>1, <2>8, <2>12, <3>1
    <3> QED
      BY <2>10, <3>2
  <2>15. CASE a[i + 1] # b[j + 1]
    <3>1. Min({x, y, z}) \in {x, y, z} /\ e = 1 + Min({x, y, z}) /\ Saves(a, b, W) = Saves(a, b, Z) + 1
      BY <2>4, <2>5, <2>11, <2>15, LeastOfThree
    <3>2. CASE Min({x, y, z}) = x
      <4>1. e = (m - i) + (n - j) - Saves(a, b, X)
        BY <1>1, <2>1, <2>7, <2>12, <3>1, <3>2
      <4> QED
        BY <2>9, <4>1
    <3>3. CASE Min({x, y, z}) = y
      <4>1. e = (m - i) + (n - j) - Saves(a, b, Y)
        BY <1>1, <2>1, <2>6, <2>12, <3>1, <3>3
      <4> QED
        BY <2>9, <4>1
    <3>4. CASE Min({x, y, z}) = z
      <4>1. e = (m - i) + (n - j) - Saves(a, b, W)
        BY <1>1, <2>1, <2>8, <2>12, <3>1, <3>4
      <4> QED
        BY <2>10, <4>1
    <3> QED
      BY <3>1, <3>2, <3>3, <3>4
  <2> QED
    BY <2>14, <2>15
<1> HIDE DEF T, Bound
<1>5. \A k \in Nat : k \in T
  BY <1>3, <1>4, InductionOnNat
<1>6. ASSUME NEW i \in 0..m, NEW j \in 0..n PROVE Bound(i, j)
  <2>1. (m - i) + (n - j) \in Nat
    BY <1>1
  <2>2. (m - i) + (n - j) <= (m - i) + (n - j)
    BY <2>1
  <2> QED
    BY <1>5, <2>1, <2>2 DEF T
<1> QED
  BY <1>6 DEF Bound, m, n
-----------------------------------------------------------------------------
(* Pairings by rank                                                        *)

(* f numbers the members of S by f.                                        *)
LEMMA SameSize ==
  ASSUME NEW S, IsFiniteSet(S), NEW T, NEW f \in [S -> T],
         \A x, y \in S : f[x] = f[y] => x = y,
         \A z \in T : \E x \in S : f[x] = z
  PROVE  IsFiniteSet(T) /\ Cardinality(T) = Cardinality(S)
<1>1. f \in Injection(S, T) /\ f \in Surjection(S, T)
  BY DEF Injection, Surjection, IsInjective
<1>2. ExistsBijection(S, T)
  BY <1>1 DEF ExistsBijection, Bijection
<1> QED
  BY <1>2, FS_Bijection

(* Ranks grow, and none is left out.                                       *)
LEMMA RanksAre ==
  ASSUME NEW n \in Nat, NEW S \in SUBSET (1..n)
  PROVE  /\ IsFiniteSet(S) /\ Cardinality(S) \in Nat
         /\ \A i \in S : Rank(i, S) \in 1..Cardinality(S)
         /\ \A i, j \in S : i < j <=> Rank(i, S) < Rank(j, S)
         /\ \A r \in 1..Cardinality(S) : \E i \in S : Rank(i, S) = r
<1> DEFINE upto(i) == {j \in S : j <= i}
           c == Cardinality(S)
<1>0. IsFiniteSet(S) /\ c \in Nat
  <2>1. IsFiniteSet(1..n)
    BY FS_Interval
  <2>2. IsFiniteSet(S)
    BY <2>1, FS_Subset
  <2> QED
    BY <2>2, FS_CardinalityType
<1>1. \A i : IsFiniteSet(upto(i)) /\ Cardinality(upto(i)) \in Nat /\ Cardinality(upto(i)) <= c
  <2> SUFFICES ASSUME NEW i
               PROVE  IsFiniteSet(upto(i)) /\ Cardinality(upto(i)) \in Nat /\ Cardinality(upto(i)) <= c
    OBVIOUS
  <2>1. upto(i) \in SUBSET S
    OBVIOUS
  <2> HIDE DEF upto
  <2> QED
    BY <1>0, <2>1, FS_Subset, FS_CardinalityType
<1>2. \A i \in S : Rank(i, S) \in 1..c
  <2> SUFFICES ASSUME NEW i \in S PROVE Rank(i, S) \in 1..c
    OBVIOUS
  <2>1. i \in upto(i)
    OBVIOUS
  <2>2. Rank(i, S) = Cardinality(upto(i))
    BY DEF Rank
  <2> HIDE DEF upto, c
  <2>3. Cardinality(upto(i)) # 0
    BY <1>1, <2>1, FS_EmptySet
  <2> QED
    BY <1>0, <1>1, <2>2, <2>3
<1>3. ASSUME NEW i \in S, NEW j \in S, i < j PROVE Rank(i, S) < Rank(j, S)
  <2>0. i \in Int /\ j \in Int /\ \A k \in S : k \in Int
    OBVIOUS
  <2>1. upto(i) \in SUBSET upto(j) /\ j \in upto(j) /\ j \notin upto(i)
    <3>1. \A k \in S : k <= i => k <= j
      BY <1>3, <2>0
    <3>2. j <= j /\ ~(j <= i)
      BY <1>3, <2>0
    <3> QED
      BY <3>1, <3>2
  <2>2. Rank(i, S) = Cardinality(upto(i)) /\ Rank(j, S) = Cardinality(upto(j))
    BY DEF Rank
  <2> HIDE DEF upto
  <2>3. Cardinality(upto(i)) <= Cardinality(upto(j)) /\ Cardinality(upto(i)) # Cardinality(upto(j))
    BY <1>1, <2>1, FS_Subset
  <2> QED
    BY <1>1, <2>2, <2>3
<1> HIDE DEF c, upto
<1>4. \A i, j \in S : i < j <=> Rank(i, S) < Rank(j, S)
  <2> SUFFICES ASSUME NEW i \in S, NEW j \in S, Rank(i, S) < Rank(j, S) PROVE i < j
    BY <1>3
  <2>1. Rank(i, S) \in Int /\ Rank(j, S) \in Int /\ i \in Int /\ j \in Int
    BY <1>0, <1>2
  <2>2. i # j
    BY <2>1
  <2>3. ~(j < i)
    BY <1>3, <2>1
  <2> QED
    BY <2>1, <2>2, <2>3
<1>5. \A r \in 1..c : \E i \in S : Rank(i, S) = r
  <2> DEFINE f == [i \in S |-> Rank(i, S)]
  <2>1. f \in [S -> 1..c]
    BY <1>2
  <2>2. \A i, j \in S : f[i] = f[j] => i = j
    <3> SUFFICES ASSUME NEW i \in S, NEW j \in S, Rank(i, S) = Rank(j, S) PROVE i = j
      OBVIOUS
    <3>1. ~(i < j) /\ ~(j < i)
      <4>1. Rank(i, S) \in Int /\ Rank(j, S) \in Int
        BY <1>0, <1>2
      <4> QED
        BY <1>4, <4>1
    <3> QED
      BY <3>1
  <2> HIDE DEF f
  <2>3. f \in Injection(S, 1..c)
    BY <2>1, <2>2 DEF Injection, IsInjective
  <2>4. IsFiniteSet(1..c) /\ Cardinality(1..c) = c
    BY <1>0, FS_Interval
  <2>5. f \in Surjection(S, 1..c)
    BY <2>3, <2>4, FS_Injection DEF c
  <2> QED
    BY <2>5 DEF Surjection, f
<1> QED
  BY <1>0, <1>2, <1>4, <1>5 DEF c

(* And no two elements have one rank.                                      *)
LEMMA RanksTell ==
  ASSUME NEW n \in Nat, NEW S \in SUBSET (1..n), NEW i \in S, NEW j \in S, Rank(i, S) = Rank(j, S)
  PROVE  i = j
<1>0. /\ \A k \in S : Rank(k, S) \in 1..Cardinality(S)
      /\ \A k, l \in S : k < l <=> Rank(k, S) < Rank(l, S)
      /\ Cardinality(S) \in Nat
  BY RanksAre
<1> DEFINE r == Rank(i, S)
<1>1. r \in 1..Cardinality(S) /\ r = Rank(j, S)
  BY <1>0
<1> HIDE DEF r
<1>a. ~(r < r)
  BY <1>0, <1>1
<1>2. ~(i < j) /\ ~(j < i)
  BY <1>0, <1>1, <1>a DEF r
<1>3. i \in Int /\ j \in Int
  OBVIOUS
<1> QED
  BY <1>2, <1>3

(* What EditDistance asks of two sets of places, and what they cost.       *)
Matched(a, b) ==
  {st \in (SUBSET DOMAIN a) \X (SUBSET DOMAIN b) : Cardinality(st[1]) = Cardinality(st[2])}

Wrong(a, b, S, T) == {i \in S : \E j \in T : Rank(i, S) = Rank(j, T) /\ a[i] # b[j]}

Price(a, b, S, T) == Len(a) + Len(b) - 2 * Cardinality(S) + Cardinality(Wrong(a, b, S, T))

(* Two sets of places of one size are a pairing.                           *)
LEMMA SetsMakePairs ==
  ASSUME NEW a \in Text, NEW b \in Text,
         NEW S \in SUBSET (1..Len(a)), NEW T \in SUBSET (1..Len(b)), Cardinality(S) = Cardinality(T)
  PROVE  \E R \in Pairings(a, b, 0, 0) : Costs(a, b, 0, 0, R) = Price(a, b, S, T)
<1> DEFINE m == Len(a)
           n == Len(b)
           R == {p \in S \X T : Rank(p[1], S) = Rank(p[2], T)}
           U == Unlike(a, b, R)
           W == Wrong(a, b, S, T)
<1>1. m \in Nat /\ n \in Nat
  BY DEF Text
<1>2. /\ \A i \in S : Rank(i, S) \in 1..Cardinality(S)
      /\ \A i, j \in S : i < j <=> Rank(i, S) < Rank(j, S)
      /\ IsFiniteSet(S) /\ Cardinality(S) \in Nat
  BY <1>1, RanksAre
<1>3. /\ \A i, j \in T : i < j <=> Rank(i, T) < Rank(j, T)
      /\ \A r \in 1..Cardinality(T) : \E j \in T : Rank(j, T) = r
      /\ IsFiniteSet(T)
  BY <1>1, RanksAre
<1>4. \A p \in R : p \in S \X T /\ p = <<p[1], p[2]>> /\ p[1] \in S /\ p[2] \in T /\ Rank(p[1], S) = Rank(p[2], T)
  OBVIOUS
<1>5. R \in Pairings(a, b, 0, 0)
  <2>1. Straight(R)
    <3> SUFFICES ASSUME NEW p \in R, NEW q \in R PROVE p[1] < q[1] <=> p[2] < q[2]
      BY DEF Straight
    <3>1. p[1] < q[1] <=> Rank(p[1], S) < Rank(q[1], S)
      BY <1>2, <1>4
    <3>2. p[2] < q[2] <=> Rank(p[2], T) < Rank(q[2], T)
      BY <1>3, <1>4
    <3>3. Rank(p[1], S) = Rank(p[2], T) /\ Rank(q[1], S) = Rank(q[2], T)
      BY <1>4
    <3> QED
      BY <3>1, <3>2, <3>3
  <2>2. R \subseteq (1..m) \X (1..n)
    OBVIOUS
  <2>3. 0 + 1 = 1
    OBVIOUS
  <2> HIDE DEF R
  <2> QED
    BY <2>1, <2>2, <2>3 DEF Pairings, Grid
<1>6. \A p, q \in R : p[1] = q[1] => p = q
  <2> SUFFICES ASSUME NEW p \in R, NEW q \in R, p[1] = q[1] PROVE p = q
    OBVIOUS
  <2>1. Rank(p[2], T) = Rank(q[2], T) /\ p[2] \in T /\ q[2] \in T
    BY <1>4
  <2>2. p[2] = q[2]
    BY <1>1, <2>1, RanksTell
  <2> QED
    BY <1>4, <2>2
<1>7. \A i \in S : \E p \in R : p[1] = i
  <2> SUFFICES ASSUME NEW i \in S PROVE \E p \in R : p[1] = i
    OBVIOUS
  <2>1. PICK j \in T : Rank(j, T) = Rank(i, S)
    BY <1>2, <1>3
  <2>2. <<i, j>> \in R
    BY <2>1
  <2> QED
    BY <2>2
<1>8. IsFiniteSet(R)
  <2>1. IsFiniteSet(S \X T)
    BY <1>2, <1>3, FS_Product
  <2>2. R \in SUBSET (S \X T)
    OBVIOUS
  <2> HIDE DEF R
  <2> QED
    BY <2>1, <2>2, FS_Subset
<1>9. \A i \in S : \A j \in T : Rank(i, S) = Rank(j, T) => <<i, j>> \in R
  OBVIOUS
<1> HIDE DEF R
<1>10. Cardinality(R) = Cardinality(S)
  <2> DEFINE f == [p \in R |-> p[1]]
  <2>1. f \in [R -> S] /\ (\A x, y \in R : f[x] = f[y] => x = y) /\ (\A z \in S : \E x \in R : f[x] = z)
    BY <1>4, <1>6, <1>7
  <2> HIDE DEF f
  <2> QED
    BY <1>8, <2>1, SameSize
<1>11. Cardinality(U) = Cardinality(W)
  <2> DEFINE f == [p \in U |-> p[1]]
  <2>1. U \in SUBSET R /\ \A p \in R : p \in U <=> a[p[1]] # b[p[2]]
    BY DEF Unlike
  <2>2. f \in [U -> W]
    <3> SUFFICES ASSUME NEW p \in U PROVE p[1] \in W
      OBVIOUS
    <3>1. p[1] \in S /\ p[2] \in T /\ Rank(p[1], S) = Rank(p[2], T) /\ a[p[1]] # b[p[2]]
      BY <1>4, <2>1
    <3> QED
      BY <3>1 DEF Wrong
  <2>3. \A z \in W : \E x \in U : f[x] = z
    <3> SUFFICES ASSUME NEW z \in W PROVE \E x \in U : x[1] = z
      OBVIOUS
    <3>1. PICK j \in T : z \in S /\ Rank(z, S) = Rank(j, T) /\ a[z] # b[j]
      BY DEF Wrong
    <3>2. <<z, j>> \in R
      BY <1>9, <3>1
    <3>3. <<z, j>> \in U /\ <<z, j>>[1] = z
      BY <2>1, <3>1, <3>2
    <3> QED
      BY <3>3
  <2>4. \A x, y \in U : f[x] = f[y] => x = y
    BY <1>6, <2>1
  <2>5. IsFiniteSet(U)
    BY <1>8, <2>1, FS_Subset
  <2> HIDE DEF f, U, W
  <2> QED
    BY <2>2, <2>3, <2>4, <2>5, SameSize
<1>12. Cardinality(U) \in Nat
  <2>1. U \in SUBSET R
    BY DEF Unlike
  <2> QED
    BY <1>8, <2>1, FS_Subset, FS_CardinalityType
<1> DEFINE r == Cardinality(S)
           u == Cardinality(U)
<1>13. Costs(a, b, 0, 0, R) = (m - 0) + (n - 0) - (2 * r - u) /\ Price(a, b, S, T) = m + n - 2 * r + u
  BY <1>10, <1>11 DEF Costs, Saves, Price
<1>14. r \in Nat /\ u \in Nat
  BY <1>2, <1>12
<1> HIDE DEF r, u, m, n
<1>15. Costs(a, b, 0, 0, R) = Price(a, b, S, T)
  BY <1>1, <1>13, <1>14
<1> QED
  BY <1>5, <1>15

(* A pairing is two sets of places of one size.                            *)
LEMMA PairsMakeSets ==
  ASSUME NEW a \in Text, NEW b \in Text, NEW R \in Pairings(a, b, 0, 0)
  PROVE  \E S \in SUBSET (1..Len(a)), T \in SUBSET (1..Len(b)) :
           Cardinality(S) = Cardinality(T) /\ Costs(a, b, 0, 0, R) = Price(a, b, S, T)
<1> DEFINE m == Len(a)
           n == Len(b)
           S == {p[1] : p \in R}
           T == {p[2] : p \in R}
           U == Unlike(a, b, R)
           W == Wrong(a, b, S, T)
<1>1. m \in Nat /\ n \in Nat
  BY DEF Text
<1>2. R \in SUBSET Grid(a, b, 0, 0) /\ Straight(R) /\ 0 \in 0..m /\ 0 \in 0..n
  BY <1>1 DEF Pairings
<1>3. \A p \in R : p = <<p[1], p[2]>> /\ p[1] \in 1..m /\ p[2] \in 1..n
  BY <1>2, GridIs
<1>4. IsFiniteSet(R) /\ Cardinality(R) \in Nat /\ IsFiniteSet(U) /\ Cardinality(U) \in Nat
  BY <1>2, SavesIs
<1>5. \A p, q \in R : (p[1] < q[1] <=> p[2] < q[2]) /\ (p[1] <= q[1] <=> p[2] <= q[2])
  <2> SUFFICES ASSUME NEW p \in R, NEW q \in R
               PROVE  (p[1] < q[1] <=> p[2] < q[2]) /\ (p[1] <= q[1] <=> p[2] <= q[2])
    OBVIOUS
  <2>1. (p[1] < q[1] <=> p[2] < q[2]) /\ (q[1] < p[1] <=> q[2] < p[2])
    BY <1>2 DEF Straight
  <2> QED
    BY <1>3, <2>1
<1>6. \A p, q \in R : (p[1] = q[1] => p = q) /\ (p[2] = q[2] => p = q)
  <2> SUFFICES ASSUME NEW p \in R, NEW q \in R, p[1] = q[1] \/ p[2] = q[2] PROVE p = q
    OBVIOUS
  <2>1. p[1] \in Int /\ q[1] \in Int /\ p[2] \in Int /\ q[2] \in Int
    BY <1>3
  <2>2. (p[1] < q[1] <=> p[2] < q[2]) /\ (q[1] < p[1] <=> q[2] < p[2])
    BY <1>5
  <2>3. p[1] = q[1] /\ p[2] = q[2]
    BY <2>1, <2>2
  <2> QED
    BY <1>3, <2>3
<1>7. S \in SUBSET (1..m) /\ T \in SUBSET (1..n)
  BY <1>3
<1>8. ASSUME NEW Q \in SUBSET R, NEW s, s = {p[1] : p \in Q}
      PROVE  Cardinality(s) = Cardinality(Q)
  <2> DEFINE f == [p \in Q |-> p[1]]
  <2>1. /\ f \in [Q -> s] /\ (\A x, y \in Q : f[x] = f[y] => x = y)
        /\ (\A z \in s : \E x \in Q : f[x] = z)
    BY <1>6, <1>8
  <2>2. IsFiniteSet(Q)
    BY <1>4, FS_Subset
  <2> HIDE DEF f
  <2> QED
    BY <2>1, <2>2, SameSize
<1>9. ASSUME NEW Q \in SUBSET R, NEW s, s = {p[2] : p \in Q}
      PROVE  Cardinality(s) = Cardinality(Q)
  <2> DEFINE f == [p \in Q |-> p[2]]
  <2>1. /\ f \in [Q -> s] /\ (\A x, y \in Q : f[x] = f[y] => x = y)
        /\ (\A z \in s : \E x \in Q : f[x] = z)
    BY <1>6, <1>9
  <2>2. IsFiniteSet(Q)
    BY <1>4, FS_Subset
  <2> HIDE DEF f
  <2> QED
    BY <2>1, <2>2, SameSize
<1>10. Cardinality(S) = Cardinality(R) /\ Cardinality(T) = Cardinality(R)
  <2>1. R \in SUBSET R
    OBVIOUS
  <2> QED
    BY <1>8, <1>9, <2>1
<1>11. \A p \in R : Rank(p[1], S) = Rank(p[2], T)
  <2> SUFFICES ASSUME NEW p \in R PROVE Rank(p[1], S) = Rank(p[2], T)
    OBVIOUS
  <2> DEFINE Q == {q \in R : q[1] <= p[1]}
             s == {j \in S : j <= p[1]}
             t == {j \in T : j <= p[2]}
  <2>1. Q \in SUBSET R /\ Q = {q \in R : q[2] <= p[2]}
    BY <1>5
  <2>2. s = {q[1] : q \in Q}
    OBVIOUS
  <2>3. t = {q[2] : q \in Q}
    BY <2>1
  <2> HIDE DEF Q, s, t
  <2>4. Cardinality(s) = Cardinality(Q) /\ Cardinality(t) = Cardinality(Q)
    BY <1>8, <1>9, <2>1, <2>2, <2>3
  <2> QED
    BY <2>4 DEF Rank, s, t
<1>12. \A p \in R : p[1] \in S /\ p[2] \in T
  OBVIOUS
<1>13. \A i \in S : \E p \in R : p[1] = i
  OBVIOUS
<1> HIDE DEF S, T
<1>14. W = {p[1] : p \in U}
  <2>1. U \in SUBSET R /\ \A p \in R : p \in U <=> a[p[1]] # b[p[2]]
    BY DEF Unlike
  <2>2. ASSUME NEW p \in U PROVE p[1] \in W
    BY <1>11, <1>12, <2>1 DEF Wrong
  <2>3. ASSUME NEW i \in W PROVE \E p \in U : p[1] = i
    <3>1. PICK j \in T : i \in S /\ Rank(i, S) = Rank(j, T) /\ a[i] # b[j]
      BY DEF Wrong
    <3>2. PICK p \in R : p[1] = i
      BY <1>13, <3>1
    <3>3. p[2] \in T /\ Rank(p[2], T) = Rank(j, T)
      BY <1>11, <1>12, <3>1, <3>2
    <3>4. p[2] = j
      BY <1>1, <1>7, <3>1, <3>3, RanksTell
    <3> QED
      BY <2>1, <3>1, <3>2, <3>4
  <2> HIDE DEF W, U
  <2> QED
    BY <2>2, <2>3
<1>15. Cardinality(W) = Cardinality(U)
  <2>1. U \in SUBSET R
    BY DEF Unlike
  <2> HIDE DEF W, U
  <2> QED
    BY <1>8, <1>14, <2>1
<1> DEFINE r == Cardinality(R)
           u == Cardinality(U)
<1>16. Costs(a, b, 0, 0, R) = (m - 0) + (n - 0) - (2 * r - u) /\ Price(a, b, S, T) = m + n - 2 * r + u
  BY <1>10, <1>15 DEF Costs, Saves, Price
<1>17. r \in Nat /\ u \in Nat
  BY <1>4
<1> HIDE DEF r, u, m, n
<1>18. Costs(a, b, 0, 0, R) = Price(a, b, S, T)
  BY <1>1, <1>16, <1>17
<1> QED
  BY <1>7, <1>10, <1>18 DEF m, n

(* Levenstein computes the edit distance (core/static/SPDX.cc), for any    *)
(* two texts.                                                              *)
THEOREM LevensteinIsTheEditDistance ==
  ASSUME NEW a \in Text, NEW b \in Text
  PROVE  Levenstein(a, b) = EditDistance(a, b) /\ EditDistance(a, b) \in Nat
<1> DEFINE E == {Price(a, b, st[1], st[2]) : st \in Matched(a, b)}
<1>1. EditDistance(a, b) = Min(E)
  BY DEF EditDistance, Matched, Price, Wrong
<1>2. PICK d : Distances(a, b, d) /\ Levenstein(a, b) = d[<<0, 0>>]
  BY LevensteinIs
<1>3. Len(a) \in Nat /\ Len(b) \in Nat /\ DOMAIN a = 1..Len(a) /\ DOMAIN b = 1..Len(b)
  BY DEF Text
<1>4. 0 \in 0..Len(a) /\ 0 \in 0..Len(b)
  BY <1>3
<1> DEFINE z == d[<<0, 0>>]
<1>5. z \in Nat
  BY <1>2, <1>4 DEF Distances
<1>6. \A R \in Pairings(a, b, 0, 0) : z <= Costs(a, b, 0, 0, R)
  BY <1>2, <1>4, NoneIsCheaper
<1>7. PICK R \in Pairings(a, b, 0, 0) : z = Costs(a, b, 0, 0, R)
  BY <1>2, <1>4, SomeIsAsCheap
<1> HIDE DEF z
<1>8. z \in E
  <2>1. PICK S \in SUBSET (1..Len(a)), T \in SUBSET (1..Len(b)) :
           Cardinality(S) = Cardinality(T) /\ Costs(a, b, 0, 0, R) = Price(a, b, S, T)
    BY PairsMakeSets
  <2>2. <<S, T>> \in Matched(a, b)
    BY <1>3, <2>1 DEF Matched
  <2>3. <<S, T>>[1] = S /\ <<S, T>>[2] = T
    OBVIOUS
  <2> QED
    BY <1>7, <2>1, <2>2, <2>3
<1>9. ASSUME NEW e \in E PROVE e \in Nat /\ z <= e
  <2>1. PICK st \in Matched(a, b) : e = Price(a, b, st[1], st[2])
    OBVIOUS
  <2>2. st[1] \in SUBSET (1..Len(a)) /\ st[2] \in SUBSET (1..Len(b)) /\ Cardinality(st[1]) = Cardinality(st[2])
    BY <1>3 DEF Matched
  <2>3. PICK Q \in Pairings(a, b, 0, 0) : Costs(a, b, 0, 0, Q) = Price(a, b, st[1], st[2])
    BY <2>2, SetsMakePairs
  <2>4. z <= Costs(a, b, 0, 0, Q)
    BY <1>6
  <2>5. Costs(a, b, 0, 0, Q) \in Int
    <3>1. Q \in SUBSET Grid(a, b, 0, 0)
      BY DEF Pairings
    <3>2. Saves(a, b, Q) \in Int
      BY <1>4, <3>1, SavesIs
    <3> QED
      BY <1>3, <3>2 DEF Costs
  <2> QED
    BY <1>5, <2>1, <2>3, <2>4, <2>5
<1> HIDE DEF E
<1>10. E \subseteq Nat /\ E # {}
  BY <1>8, <1>9
<1>11. Min(E) \in E /\ \A e \in E : Min(E) <= e
  BY <1>10, MinIs
<1> DEFINE l == Min(E)
<1>12. l = z
  <2>1. l \in E /\ l <= z
    BY <1>8, <1>11
  <2> HIDE DEF l
  <2>2. l \in Nat /\ z <= l
    BY <1>9, <2>1
  <2> QED
    BY <1>5, <2>1, <2>2
<1> QED
  BY <1>1, <1>2, <1>5, <1>12 DEF z

(* Only equal texts have the distance 0.                                   *)
LEMMA ApartIsMore ==
  ASSUME NEW a \in Text, NEW b \in Text
  PROVE  Levenstein(a, b) \in Nat /\ (Levenstein(a, b) = 0 <=> a = b)
<1> DEFINE m == Len(a)
           n == Len(b)
<1>1. m \in Nat /\ n \in Nat
  BY DEF Text
<1>2. PICK d : Distances(a, b, d) /\ Levenstein(a, b) = d[<<0, 0>>]
  BY LevensteinIs
<1> DEFINE Alike(i, j) == m - i = n - j /\ \A k \in 1..(m - i) : a[i + k] = b[j + k]
           T == {k \in Nat : \A i \in 0..m : \A j \in 0..n : (m - i) + (n - j) <= k =>
                    (d[<<i, j>>] = 0 <=> Alike(i, j))}
<1>3. ASSUME NEW i \in 0..m, NEW j \in 0..n, i = m \/ j = n PROVE d[<<i, j>>] = 0 <=> Alike(i, j)
  <2>1. d[<<i, j>>] = IF i = m THEN n - j ELSE m - i
    BY <1>2, <1>3 DEF Distances
  <2>2. CASE i = m
    BY <1>1, <2>1, <2>2
  <2>3. CASE j = n
    BY <1>1, <2>1, <2>3
  <2> QED
    BY <1>3, <2>2, <2>3
<1>4. 0 \in T
  <2> SUFFICES ASSUME NEW i \in 0..m, NEW j \in 0..n, (m - i) + (n - j) <= 0
               PROVE  d[<<i, j>>] = 0 <=> Alike(i, j)
    OBVIOUS
  <2>1. i = m
    BY <1>1
  <2> HIDE DEF Alike
  <2> QED
    BY <1>3, <2>1
<1>5. ASSUME NEW k \in Nat, k \in T PROVE k + 1 \in T
  <2> SUFFICES ASSUME NEW i \in 0..(m - 1), NEW j \in 0..(n - 1), (m - i) + (n - j) <= k + 1
               PROVE  d[<<i, j>>] = 0 <=> Alike(i, j)
    <3> HIDE DEF Alike
    <3>1. \A i \in 0..m : i # m => i \in 0..(m - 1)
      BY <1>1
    <3>2. \A j \in 0..n : j # n => j \in 0..(n - 1)
      BY <1>1
    <3> QED
      BY <1>3, <3>1, <3>2
  <2>1. /\ i \in 0..m /\ j \in 0..n /\ i + 1 \in 0..m /\ j + 1 \in 0..n /\ i # m /\ j # n
        /\ i \in Int /\ j \in Int
    BY <1>1
  <2>2. (m - (i + 1)) + (n - (j + 1)) <= k
    BY <1>1, <2>1
  <2>3. d[<<i + 1, j + 1>>] = 0 <=> Alike(i + 1, j + 1)
    <3> HIDE DEF Alike
    <3> QED
      BY <1>5, <2>1, <2>2
  <2>4. Alike(i, j) <=> a[i + 1] = b[j + 1] /\ Alike(i + 1, j + 1)
    <3>1. ASSUME Alike(i, j) PROVE a[i + 1] = b[j + 1] /\ Alike(i + 1, j + 1)
      <4>1. 1 \in 1..(m - i) /\ m - (i + 1) = n - (j + 1)
        BY <1>1, <2>1, <3>1
      <4>2. a[i + 1] = b[j + 1]
        BY <3>1, <4>1
      <4>3. ASSUME NEW l \in 1..(m - (i + 1)) PROVE a[(i + 1) + l] = b[(j + 1) + l]
        <5>1. l + 1 \in 1..(m - i) /\ (i + 1) + l = i + (l + 1) /\ (j + 1) + l = j + (l + 1)
          BY <1>1, <2>1
        <5>2. a[i + (l + 1)] = b[j + (l + 1)]
          BY <3>1, <5>1
        <5> QED
          BY <5>1, <5>2
      <4> QED
        BY <4>1, <4>2, <4>3
    <3>2. ASSUME a[i + 1] = b[j + 1], Alike(i + 1, j + 1) PROVE Alike(i, j)
      <4>1. m - i = n - j
        BY <1>1, <2>1, <3>2
      <4>2. ASSUME NEW l \in 1..(m - i) PROVE a[i + l] = b[j + l]
        <5>1. CASE l = 1
          BY <3>2, <5>1
        <5>2. CASE l # 1
          <6>1. l - 1 \in 1..(m - (i + 1)) /\ (i + 1) + (l - 1) = i + l /\ (j + 1) + (l - 1) = j + l
            BY <1>1, <2>1, <5>2
          <6> QED
            BY <3>2, <6>1
        <5> QED
          BY <5>1, <5>2
      <4> QED
        BY <4>1, <4>2
    <3> HIDE DEF Alike
    <3> QED
      BY <3>1, <3>2
  <2> HIDE DEF Alike
  <2> DEFINE x == d[<<i, j + 1>>]
             y == d[<<i + 1, j>>]
             z == d[<<i + 1, j + 1>>]
             e == d[<<i, j>>]
  <2>5. x \in Nat /\ y \in Nat /\ z \in Nat /\ e \in Nat
    BY <1>2, <2>1 DEF Distances
  <2>6. e = IF a[i + 1] = b[j + 1] THEN z ELSE 1 + Min({x, y, z})
    BY <1>2, <2>1 DEF Distances
  <2> HIDE DEF x, y, e
  <2>7. Min({x, y, z}) \in Nat
    BY <2>5, LeastOfThree
  <2>8. e = 0 <=> a[i + 1] = b[j + 1] /\ z = 0
    BY <2>5, <2>6, <2>7
  <2> QED
    BY <2>3, <2>4, <2>8 DEF e
<1> HIDE DEF T, Alike
<1>6. \A k \in Nat : k \in T
  BY <1>4, <1>5, InductionOnNat
<1>7. 0 \in 0..m /\ 0 \in 0..n /\ (m - 0) + (n - 0) \in Nat
  BY <1>1
<1>8. (m - 0) + (n - 0) <= (m - 0) + (n - 0)
  BY <1>1
<1>9. d[<<0, 0>>] = 0 <=> Alike(0, 0)
  BY <1>6, <1>7, <1>8 DEF T
<1>10. Alike(0, 0) <=> m = n /\ \A k \in 1..m : a[k] = b[k]
  BY <1>1 DEF Alike
<1>11. (m = n /\ \A k \in 1..m : a[k] = b[k]) <=> a = b
  <2>1. a = [k \in 1..m |-> a[k]] /\ b = [k \in 1..n |-> b[k]]
    BY DEF Text
  <2>2. a = b => m = n /\ \A k \in 1..m : a[k] = b[k]
    OBVIOUS
  <2>3. ASSUME m = n, \A k \in 1..m : a[k] = b[k] PROVE a = b
    <3>1. [k \in 1..m |-> a[k]] = [k \in 1..m |-> b[k]]
      BY <2>3
    <3> HIDE DEF m, n
    <3> QED
      BY <2>1, <2>3, <3>1
  <2> QED
    BY <2>2, <2>3
<1>12. d[<<0, 0>>] \in Nat
  BY <1>2, <1>7 DEF Distances
<1> QED
  BY <1>2, <1>9, <1>10, <1>11, <1>12
-----------------------------------------------------------------------------
(* What a command has been told                                            *)

CommandInv ==
  /\ asked \in [Process -> Asked]
  /\ stage \in [Process -> {"options", "output", "mkdir", "package", "returned"}]
  /\ spelling \in [Process -> Text]
  /\ \A p \in Process : spelling[p] # None => spelling[p] \in Closest[asked[p]]
  /\ \A p \in Process : stage[p] \in {"output", "mkdir", "package"} =>
       Verdict(asked[p]) = "accepted" /\ spelling[p] \in Closest[asked[p]]

(* A text in lower case is a text.                                         *)
LEMMA LowerCaseIs == ASSUME NEW t \in Text PROVE LowerCase(t) \in Text
<1>1. \A c \in Int : tolower(c) \in Int
  BY DEF tolower
<1>2. Len(t) \in Nat /\ DOMAIN t = 1..Len(t) /\ \A i \in DOMAIN t : t[i] \in Int
  BY DEF Text
<1>3. LowerCase(t) = [i \in 1..Len(t) |-> tolower(t[i])]
  BY <1>2 DEF LowerCase
<1> QED
  BY <1>1, <1>2, <1>3 DEF Text

(* The table knows the lower case of its identifiers.                      *)
LEMMA TableIs ==
  ASSUME NEW key \in DOMAIN SPDX_IDENTIFIERS
  PROVE  /\ key \in Text /\ SPDX_IDENTIFIERS[key] \in Text
         /\ LowerCase(SPDX_IDENTIFIERS[key]) = key
BY SpdxAssumption DEF Text

(* The identifiers FindClosestSPDXLicense may return for a word.           *)
LEMMA ClosestIs ==
  ASSUME NEW a \in Asked, NEW id \in Closest[a]
  PROVE  /\ id \in Text
         /\ LowerCase(id) \in DOMAIN SPDX_IDENTIFIERS /\ id = SPDX_IDENTIFIERS[LowerCase(id)]
         /\ LowerCase(a.license) \in Text
         /\ \A key \in DOMAIN SPDX_IDENTIFIERS :
              Levenstein(LowerCase(id), LowerCase(a.license)) <= Levenstein(key, LowerCase(a.license))
<1> DEFINE q == LowerCase(a.license)
           dist == [key \in DOMAIN SPDX_IDENTIFIERS |-> Levenstein(key, q)]
           near == {k \in DOMAIN dist : \A other \in DOMAIN dist : dist[k] <= dist[other]}
<1>1. id \in FindClosestSPDXLicense(a.license)
  BY DEF Closest
<1>2. id \in {SPDX_IDENTIFIERS[key] : key \in near}
  BY <1>1 DEF FindClosestSPDXLicense
<1>3. PICK k \in near : id = SPDX_IDENTIFIERS[k]
  BY <1>2
<1>4. k \in DOMAIN SPDX_IDENTIFIERS /\ \A key \in DOMAIN SPDX_IDENTIFIERS : Levenstein(k, q) <= Levenstein(key, q)
  OBVIOUS
<1>5. LowerCase(id) = k /\ id \in Text
  BY <1>3, <1>4, TableIs
<1>6. q \in Text
  <2>1. a.license \in Text
    BY AskedAssumption DEF Text
  <2> QED
    BY <2>1, LowerCaseIs
<1> QED
  BY <1>3, <1>4, <1>5, <1>6

(* Some identifier is closest.                                             *)
LEMMA NoneIsNearer ==
  ASSUME NEW a \in Asked, NEW id \in Closest[a], NEW key \in DOMAIN SPDX_IDENTIFIERS
  PROVE  Edits[a][LowerCase(id)] <= Edits[a][key]
<1> DEFINE q == LowerCase(a.license)
           k == LowerCase(id)
<1>1. k \in DOMAIN SPDX_IDENTIFIERS /\ q \in Text /\ Levenstein(k, q) <= Levenstein(key, q)
  BY ClosestIs
<1> HIDE DEF q, k
<1>2. k \in Text /\ key \in Text
  BY <1>1, TableIs
<1>3. Levenstein(k, q) = EditDistance(k, q) /\ Levenstein(key, q) = EditDistance(key, q)
  BY <1>1, <1>2, LevensteinIsTheEditDistance
<1>4. Edits[a][k] = EditDistance(k, q) /\ Edits[a][key] = EditDistance(key, q)
  BY <1>1 DEF Edits, q
<1> QED
  BY <1>1, <1>3, <1>4 DEF k

(* Nothing is closer to a word than the identifier that it is.             *)
LEMMA OwnSpelling ==
  ASSUME NEW a \in Asked, NEW id \in Closest[a], IsExactSPDXLicenseMatch(a.license)
  PROVE  id = SPDX_IDENTIFIERS[LowerCase(a.license)]
<1> DEFINE q == LowerCase(a.license)
           k == LowerCase(id)
<1>1. /\ k \in DOMAIN SPDX_IDENTIFIERS /\ q \in Text /\ id = SPDX_IDENTIFIERS[k]
      /\ \A key \in DOMAIN SPDX_IDENTIFIERS : Levenstein(k, q) <= Levenstein(key, q)
  BY ClosestIs
<1>2. q \in DOMAIN SPDX_IDENTIFIERS
  BY DEF IsExactSPDXLicenseMatch
<1> HIDE DEF q, k
<1>3. k \in Text
  BY <1>1, TableIs
<1>4. Levenstein(q, q) = 0
  BY <1>1, ApartIsMore
<1>5. Levenstein(k, q) \in Nat /\ (Levenstein(k, q) = 0 => k = q)
  BY <1>1, <1>3, ApartIsMore
<1>6. Levenstein(k, q) <= 0
  BY <1>1, <1>2, <1>4
<1> QED
  BY <1>1, <1>5, <1>6 DEF q

(* At first nothing has been spelled.                                      *)
LEMMA InitCommandInv == CommandInit => CommandInv
<1> SUFFICES ASSUME CommandInit PROVE CommandInv
  OBVIOUS
<1>1. <<>> \in Text
  BY DEF Text
<1>2. spelling = [p \in Process |-> None] /\ stage = [p \in Process |-> "options"]
  BY DEF CommandInit
<1>3. \A p \in Process : spelling[p] = None /\ stage[p] = "options"
  BY <1>2
<1>4. asked \in [Process -> Asked]
  BY DEF CommandInit
<1> QED
  BY <1>1, <1>2, <1>3, <1>4 DEF CommandInv, None

(* An identifier is chosen when the options are judged, and kept.          *)
LEMMA StepCommandInv == CommandInv /\ [CommandNext]_allVars => CommandInv'
<1> SUFFICES ASSUME CommandInv, [CommandNext]_allVars PROVE CommandInv'
  OBVIOUS
<1> USE DEF CommandInv
<1>1. ASSUME UNCHANGED <<asked, stage, spelling>> PROVE CommandInv'
  BY <1>1
<1>2. ASSUME NEW p \in Process, Perform(p) PROVE CommandInv'
  <2>1. CASE ShowHelp(p) \/ RefuseOptions(p)
    <3>1. stage' = [stage EXCEPT ![p] = "returned"] /\ UNCHANGED <<asked, spelling>>
      BY <2>1 DEF ShowHelp, RefuseOptions, Return, GoTo
    <3> QED
      BY <3>1
  <2>2. ASSUME NEW s, s \in {"returned", "output"}, stage' = [stage EXCEPT ![p] = s], Spell(p),
               UNCHANGED asked, s = "output" => Verdict(asked[p]) = "accepted"
        PROVE  CommandInv'
    <3>1. PICK id \in Closest[asked[p]] : spelling' = [spelling EXCEPT ![p] = id]
      BY <2>2 DEF Spell
    <3>2. id \in Text
      BY <3>1, ClosestIs
    <3> QED
      BY <2>2, <3>1, <3>2
  <2>3. CASE RefuseLicense(p)
    BY <2>2, <2>3 DEF RefuseLicense, Return, GoTo
  <2>4. CASE AcceptOptions(p)
    <3>1. Verdict(asked[p]) = "accepted"
      BY <2>4 DEF AcceptOptions, Judge, Verdicts
    <3> QED
      BY <2>2, <2>4, <3>1 DEF AcceptOptions, GoTo
  <2>5. ASSUME NEW s, s \in {"package", "mkdir", "returned"}, stage' = [stage EXCEPT ![p] = s],
               stage[p] \in {"output", "mkdir"}, UNCHANGED <<asked, spelling>>
        PROVE  CommandInv'
    BY <2>5
  <2>6. CASE LookForOutput(p)
    BY <2>5, <2>6 DEF LookForOutput, GoTo, At
  <2>7. CASE MakeOutput(p) \/ RefuseOutput(p)
    BY <2>5, <2>7 DEF MakeOutput, RefuseOutput, Return, GoTo, At
  <2>8. CASE Package(p)
    BY <1>1, <2>8 DEF Package, commandVars
  <2> QED
    BY <1>2, <2>1, <2>3, <2>4, <2>6, <2>7, <2>8 DEF Perform
<1>3. ASSUME NEW p \in Process, KillCommand(p) PROVE CommandInv'
  BY <1>1, <1>3 DEF KillCommand, commandVars
<1>4. CASE UNCHANGED allVars
  BY <1>1, <1>4 DEF allVars, commandVars
<1> QED
  BY <1>2, <1>3, <1>4 DEF CommandNext

(* What a command has been told and has accepted (init/Run.cc:230-294).    *)
THEOREM CommandInvariance == CommandSpec => []CommandInv
BY InitCommandInv, StepCommandInv, PTL DEF CommandSpec

(* FindClosestSPDXLicense, for any table of identifiers and any word: of   *)
(* all identifiers none takes fewer edits than the one that is suggested   *)
(* or written down.                                                        *)
THEOREM SpellingsAreNearest == CommandSpec => []SpellingIsNearest
<1>1. CommandInv => SpellingIsNearest
  <2> SUFFICES ASSUME CommandInv, NEW p \in Process, spelling[p] # None,
                      NEW key \in DOMAIN SPDX_IDENTIFIERS
               PROVE  Edits[asked[p]][LowerCase(spelling[p])] <= Edits[asked[p]][key]
    BY DEF SpellingIsNearest
  <2>1. asked[p] \in Asked /\ spelling[p] \in Closest[asked[p]]
    BY DEF CommandInv
  <2> QED
    BY <2>1, NoneIsNearer
<1> QED
  BY <1>1, CommandInvariance, PTL

(* Once it creates files a command has accepted its words, and has the     *)
(* licence's own spelling.                                                 *)
LEMMA CreatingIs ==
  ASSUME CommandInv, NEW p \in Creating
  PROVE  LET a == asked[p]
         IN  /\ p \in Process /\ a \in Asked /\ a.named /\ Cardinality(a.kinds) <= 1
             /\ IsValidName(a.name) /\ LowerCase(a.license) \in DOMAIN SPDX_IDENTIFIERS
             /\ spelling[p] = SPDX_IDENTIFIERS[LowerCase(a.license)]
<1> DEFINE a == asked[p]
<1>1. p \in Process /\ stage[p] = "package"
  BY DEF Creating, At
<1>2. a \in Asked /\ Verdict(a) = "accepted" /\ spelling[p] \in Closest[a]
  BY <1>1 DEF CommandInv
<1> HIDE DEF a
<1>3. a.named /\ ~(Cardinality(a.kinds) > 1) /\ IsExactSPDXLicenseMatch(a.license) /\ IsValidName(a.name)
  BY <1>2 DEF Verdict
<1>4. Cardinality(a.kinds) \in Nat
  <2>1. IsFiniteSet(Kind)
    <3>1. IsFiniteSet({} \cup {"lib"})
      BY FS_EmptySet, FS_AddElement
    <3>2. IsFiniteSet(({} \cup {"lib"}) \cup {"std"})
      BY <3>1, FS_AddElement
    <3>3. IsFiniteSet((({} \cup {"lib"}) \cup {"std"}) \cup {"exe"})
      BY <3>2, FS_AddElement
    <3>4. Kind = (({} \cup {"lib"}) \cup {"std"}) \cup {"exe"}
      BY DEF Kind
    <3> QED
      BY <3>3, <3>4
  <2> QED
    BY <1>2, <2>1, AskedAssumption, FS_Subset, FS_CardinalityType
<1>5. spelling[p] = SPDX_IDENTIFIERS[LowerCase(a.license)]
  BY <1>2, <1>3, OwnSpelling
<1> QED
  BY <1>1, <1>2, <1>3, <1>4, <1>5 DEF IsExactSPDXLicenseMatch, a
-----------------------------------------------------------------------------
(* The texts of a new package                                              *)

(* The placeholders in t are some of K.                                    *)
HolesIn(t, K) ==
  \E S : t \in Seq(S) /\ \A x \in S : x[1] = "hole" => \E key \in K : x = Hole(key)

NoHoles(t) == \A i \in DOMAIN t : t[i][1] # "hole"

(* A text whose placeholders are none of any has none.                     *)
LEMMA HolesOfNone == ASSUME NEW t, HolesIn(t, {}) PROVE NoHoles(t)
<1>1. PICK S : t \in Seq(S) /\ \A x \in S : x[1] # "hole"
  BY DEF HolesIn
<1>2. \A i \in DOMAIN t : t[i] \in S
  BY <1>1
<1> QED
  BY <1>1, <1>2 DEF NoHoles

(* A fixed text has none.                                                  *)
LEMMA HolesOfFixed == ASSUME NEW name, NEW K PROVE HolesIn(Fixed(name), K)
<1> DEFINE S == {<<"text", name>>}
<1>1. Fixed(name) \in Seq(S)
  BY DEF Fixed
<1>2. \A x \in S : x[1] # "hole"
  OBVIOUS
<1> QED
  BY <1>1, <1>2 DEF HolesIn

(* Placeholders are those they are made of.                                *)
LEMMA HolesOfHoles ==
  ASSUME NEW K, NEW keys \in Seq(K) PROVE HolesIn(Holes(keys), K)
<1> DEFINE S == {Hole(key) : key \in K}
<1>1. Len(keys) \in Nat /\ DOMAIN keys = 1..Len(keys) /\ \A i \in DOMAIN keys : keys[i] \in K
  OBVIOUS
<1>2. Holes(keys) = [i \in 1..Len(keys) |-> Hole(keys[i])]
  BY <1>1 DEF Holes
<1>3. Holes(keys) \in Seq(S)
  BY <1>1, <1>2
<1> QED
  BY <1>3 DEF HolesIn

(* Some of these are some of more.                                         *)
LEMMA HolesOfMore ==
  ASSUME NEW t, NEW K, HolesIn(t, K), NEW L, K \subseteq L PROVE HolesIn(t, L)
BY DEF HolesIn

(* Two texts one after the other.                                          *)
LEMMA HolesOfBoth ==
  ASSUME NEW s, NEW t, NEW K, HolesIn(s, K), HolesIn(t, K) PROVE HolesIn(s \o t, K)
<1>1. PICK S : s \in Seq(S) /\ \A x \in S : x[1] = "hole" => \E key \in K : x = Hole(key)
  BY DEF HolesIn
<1>2. PICK T : t \in Seq(T) /\ \A x \in T : x[1] = "hole" => \E key \in K : x = Hole(key)
  BY DEF HolesIn
<1>3. s \in Seq(S \cup T) /\ t \in Seq(S \cup T)
  BY <1>1, <1>2
<1>4. s \o t \in Seq(S \cup T)
  BY <1>3
<1> QED
  BY <1>1, <1>2, <1>4 DEF HolesIn

(* RegexReplace fills the placeholders of one name.                        *)
LEMMA Fills ==
  ASSUME NEW t, NEW K, HolesIn(t, K), NEW key, NEW value
  PROVE  HolesIn(RegexReplace(t, key, value), K \ {key})
<1>1. PICK S : t \in Seq(S) /\ \A x \in S : x[1] = "hole" => \E k \in K : x = Hole(k)
  BY DEF HolesIn
<1> DEFINE v == <<"value", value>>
           put(x) == IF x = Hole(key) THEN v ELSE x
           T == {put(x) : x \in S}
<1>2. Len(t) \in Nat /\ DOMAIN t = 1..Len(t) /\ \A i \in DOMAIN t : t[i] \in S
  BY <1>1
<1>3. RegexReplace(t, key, value) = [i \in 1..Len(t) |-> put(t[i])]
  BY <1>2 DEF RegexReplace
<1>4. RegexReplace(t, key, value) \in Seq(T)
  BY <1>2, <1>3
<1>5. ASSUME NEW y \in T, y[1] = "hole" PROVE \E k \in K \ {key} : y = Hole(k)
  <2>1. PICK x \in S : y = put(x)
    OBVIOUS
  <2>2. v[1] # "hole"
    OBVIOUS
  <2>3. y = x /\ x # Hole(key)
    BY <1>5, <2>1, <2>2
  <2>4. PICK k \in K : x = Hole(k)
    BY <1>1, <1>5, <2>3
  <2> QED
    BY <2>3, <2>4
<1> QED
  BY <1>4, <1>5 DEF HolesIn

(* FoldLeft is a function that folds: here with RegexReplace.              *)
IsFill(text, keys, value, f) ==
  f = [s \in SUBSET (DOMAIN keys) |->
         IF s = {} THEN text
         ELSE RegexReplace(f[s \ {Max(s)}], keys[Max(s)], value[keys[Max(s)]])]

(* A text with the placeholders of all these keys filled.                  *)
Filled(text, keys, value) ==
  FoldLeft(LAMBDA t, key : RegexReplace(t, key, value[key]), text, keys)

(* One key after the other.                                                *)
LEMMA FillsInTurn ==
  ASSUME NEW keys, NEW n \in Nat, n = Len(keys), DOMAIN keys = 1..n,
         NEW K, NEW text, HolesIn(text, K), NEW value
  PROVE  HolesIn(Filled(text, keys, value), K \ {keys[k] : k \in 1..n})
<1>1. PICK S : text \in Seq(S)
  BY DEF HolesIn
<1> DEFINE T == S \cup {<<"value", value[keys[k]]>> : k \in 1..n}
           V == Seq(T)
           put(v, k) == RegexReplace(v, keys[k], value[keys[k]])
           G == [p \in V \X (1..n) |-> put(p[1], p[2])]
           f == CHOOSE h : IsFill(text, keys, value, h)
<1>2. \A v \in V : \A k \in 1..n : put(v, k) \in V
  <2> SUFFICES ASSUME NEW v \in V, NEW k \in 1..n PROVE put(v, k) \in V
    OBVIOUS
  <2>1. Len(v) \in Nat /\ DOMAIN v = 1..Len(v) /\ \A i \in DOMAIN v : v[i] \in T
    OBVIOUS
  <2>2. <<"value", value[keys[k]]>> \in T
    OBVIOUS
  <2> DEFINE y(i) == IF v[i] = Hole(keys[k]) THEN <<"value", value[keys[k]]>> ELSE v[i]
  <2>3. \A i \in 1..Len(v) : y(i) \in T
    BY <2>1, <2>2
  <2>4. put(v, k) = [i \in 1..Len(v) |-> y(i)]
    BY <2>1 DEF RegexReplace
  <2> HIDE DEF T, y
  <2> QED
    BY <2>1, <2>3, <2>4
<1>3. text \in V
  BY <1>1
<1> HIDE DEF V
<1>4. G \in [V \X (1..n) -> V] /\ \A v \in V : \A k \in 1..n : G[<<v, k>>] = put(v, k)
  BY <1>2
<1>5. PICK c : Folds(n, V, text, G, c)
  <2> HIDE DEF G
  <2> QED
    BY <1>3, <1>4, FoldExists
<1> HIDE DEF G
<1>6. IsFill(text, keys, value, c)
  <2>1. \A s \in SUBSET (1..n) :
          c[s] = IF s = {} THEN text ELSE put(c[s \ {Max(s)}], Max(s))
    <3> SUFFICES ASSUME NEW s \in SUBSET (1..n), s # {} PROVE c[s] = put(c[s \ {Max(s)}], Max(s))
      BY <1>5 DEF Folds
    <3> DEFINE x == Max(s)
               r == s \ {x}
    <3>1. x \in 1..n /\ c[s] = G[<<c[r], x>>]
      BY <1>5 DEF Folds
    <3>2. r \in SUBSET (1..n)
      OBVIOUS
    <3> HIDE DEF x, r
    <3>3. c[r] \in V
      BY <1>5, <3>2 DEF Folds
    <3>4. c[s] = put(c[r], x)
      BY <1>4, <3>1, <3>3
    <3> QED
      BY <3>4 DEF x, r
  <2> QED
    BY <1>5, <2>1 DEF IsFill, Folds
<1>7. IsFill(text, keys, value, f)
  BY <1>6
<1>8. Filled(text, keys, value) = f[1..n]
  BY DEF Filled, FoldLeft, MapThenFoldSet, IsFill
<1> HIDE DEF f
<1>9. FoldsWith(f, n, V, text, G)
  <2>1. ASSUME NEW s \in SUBSET (1..n), s # {}, f[s \ {Max(s)}] \in V
        PROVE  f[s] = G[<<f[s \ {Max(s)}], Max(s)>>]
    <3>1. f[s] = put(f[s \ {Max(s)}], Max(s))
      BY <1>7, <2>1 DEF IsFill
    <3>2. Max(s) \in 1..n
      BY <1>5, <2>1 DEF Folds
    <3> QED
      BY <1>4, <2>1, <3>1, <3>2
  <2>2. f[{}] = text
    BY <1>7 DEF IsFill
  <2> QED
    BY <2>1, <2>2 DEF FoldsWith
<1>10. FoldedInTurn(f, n, V, text, G)
  BY <1>3, <1>4, <1>9, FoldsInTurn
<1>11. /\ f[1..0] = text
       /\ \A k \in 1..n : f[1..k] = put(f[1..(k - 1)], k)
  <2>1. \A k \in 0..n : f[1..k] \in V
    BY <1>10 DEF FoldedInTurn
  <2> SUFFICES ASSUME NEW k \in 1..n PROVE f[1..k] = put(f[1..(k - 1)], k)
    BY <1>10 DEF FoldedInTurn
  <2> DEFINE j == k - 1
  <2>2. j \in 0..n /\ f[1..k] = G[<<f[1..j], k>>]
    BY <1>10 DEF FoldedInTurn
  <2> HIDE DEF j
  <2>3. f[1..k] = put(f[1..j], k)
    BY <1>4, <2>1, <2>2
  <2> QED
    BY <2>3 DEF j
<1> DEFINE Left(k) == K \ {keys[i] : i \in 1..k}
           U == {k \in Nat : k <= n => HolesIn(f[1..k], Left(k))}
<1>12. 0 \in U
  <2>1. Left(0) = K
    OBVIOUS
  <2> QED
    BY <1>11, <2>1
<1>13. ASSUME NEW k \in Nat, k \in U PROVE k + 1 \in U
  <2> SUFFICES ASSUME k + 1 <= n PROVE HolesIn(f[1..(k + 1)], Left(k + 1))
    OBVIOUS
  <2> DEFINE m == k + 1
  <2>1. m \in 1..n /\ m - 1 = k /\ HolesIn(f[1..k], Left(k))
    <3>1. k <= n /\ m \in 1..n /\ m - 1 = k
      OBVIOUS
    <3> HIDE DEF m, Left
    <3>2. HolesIn(f[1..k], Left(k))
      BY <1>13, <3>1
    <3> QED
      BY <3>1, <3>2
  <2>2. Left(m) = Left(k) \ {keys[m]}
    <3>1. 1..m = (1..k) \cup {m}
      OBVIOUS
    <3> QED
      BY <3>1
  <2> HIDE DEF m, Left
  <2>3. f[1..m] = RegexReplace(f[1..k], keys[m], value[keys[m]])
    BY <1>11, <2>1
  <2> DEFINE t == f[1..k]
             L == Left(k)
  <2>4. HolesIn(RegexReplace(t, keys[m], value[keys[m]]), L \ {keys[m]})
    <3>1. HolesIn(t, L)
      BY <2>1
    <3> HIDE DEF t, L
    <3> QED
      BY <3>1, Fills
  <2>5. HolesIn(f[1..m], Left(m))
    BY <2>2, <2>3, <2>4
  <2> QED
    BY <2>5 DEF m
<1>14. n \in U
  <2> HIDE DEF U
  <2> QED
    BY <1>12, <1>13, InductionOnNat
<1> QED
  BY <1>8, <1>14

(* InitialData.cc: each text has its placeholders filled.                  *)
LEMMA SecurityPolicyIsWhole == ASSUME NEW n PROVE NoHoles(GenerateSecurityPolicy(n))
<1> DEFINE K == {"project_name_nice", "gh_username", "project_name"}
           report == Holes(<<"project_name_nice", "project_name_nice">>)
           advisory == Holes(<<"gh_username", "project_name">>)
           closing == Holes(<<"project_name_nice", "project_name_nice", "project_name_nice">>)
           told == RegexReplace(report \o advisory, "gh_username", GithubUsername(n))
           online == IF OnGithub(n) THEN told ELSE report
           content == RegexReplace(online \o closing, "project_name_nice",
                                   BeutifyPart(PackageNamePart(n)))
           Nice == {"project_name_nice", "project_name"}
<1>1. HolesIn(report, Nice) /\ HolesIn(closing, Nice)
  <2>1. /\ <<"project_name_nice", "project_name_nice">> \in Seq(Nice)
        /\ <<"project_name_nice", "project_name_nice", "project_name_nice">> \in Seq(Nice)
    OBVIOUS
  <2> HIDE DEF Nice
  <2> QED
    BY <2>1, HolesOfHoles
<1>2. HolesIn(advisory, K)
  <2>1. <<"gh_username", "project_name">> \in Seq(K)
    OBVIOUS
  <2> HIDE DEF K
  <2> QED
    BY <2>1, HolesOfHoles
<1>3. K \ {"gh_username"} = Nice /\ Nice \subseteq K /\ Nice \ {"project_name_nice"} = {"project_name"}
  OBVIOUS
<1>4. GenerateSecurityPolicy(n) = RegexReplace(content, "project_name", PackageNamePart(n))
  BY DEF GenerateSecurityPolicy
<1> HIDE DEF K, Nice, report, advisory, closing
<1>5. HolesIn(report, K)
  BY <1>1, <1>3, HolesOfMore
<1>6. HolesIn(told, Nice)
  <2>1. HolesIn(report \o advisory, K)
    BY <1>2, <1>5, HolesOfBoth
  <2>2. HolesIn(told, K \ {"gh_username"})
    BY <2>1, Fills
  <2> QED
    BY <1>3, <2>2
<1>7. HolesIn(online, Nice)
  BY <1>1, <1>6
<1> HIDE DEF online, told
<1>8. HolesIn(content, {"project_name"})
  <2>1. HolesIn(online \o closing, Nice)
    BY <1>1, <1>7, HolesOfBoth
  <2>2. HolesIn(content, Nice \ {"project_name_nice"})
    BY <2>1, Fills
  <2> QED
    BY <1>3, <2>2
<1> HIDE DEF content
<1>9. HolesIn(GenerateSecurityPolicy(n), {"project_name"} \ {"project_name"})
  BY <1>4, <1>8, Fills
<1>10. {"project_name"} \ {"project_name"} = {}
  OBVIOUS
<1> QED
  BY <1>9, <1>10, HolesOfNone

(* The README, with a link to GitHub or without.                           *)
LEMMA ReadmeIsWhole == ASSUME NEW options PROVE NoHoles(GenerateReadme(options))
<1> DEFINE name == options.name
           keys == <<"project_name", "project_name_nice", "project_escaped_spdx_license",
                     "project_spdx_license", "project_description", "project_category">>
           K == {"project_name", "project_name_nice", "project_escaped_spdx_license",
                 "project_spdx_license", "project_description", "project_category"}
           Gk == K \cup {"gh_username"}
           head == Holes(<<"project_name_nice", "project_escaped_spdx_license",
                           "project_category", "project_description",
                           "project_name_nice", "project_name">>)
           opening == head \o Installation(name, options.category)
           told == RegexReplace(opening, "gh_username", GithubUsername(name))
           online == IF OnGithub(name) THEN told ELSE opening
           value == ("project_name" :> PackageNamePart(name)) @@
                    ("project_name_nice" :> BeutifyPart(PackageNamePart(name))) @@
                    ("project_escaped_spdx_license" :> ShieldsIOEscapeContent(options.license)) @@
                    ("project_spdx_license" :> options.license) @@
                    ("project_description" :> options.description) @@
                    ("project_category" :> options.category)
           license == Holes(<<"project_spdx_license">>)
<1>1. GenerateReadme(options) = Filled(online \o license, keys, value)
  BY DEF GenerateReadme, Filled, FoldLeft, MapThenFoldSet
<1> HIDE DEF value
<1>2. HolesIn(head, K) /\ HolesIn(license, K)
  <2>1. /\ <<"project_name_nice", "project_escaped_spdx_license", "project_category",
             "project_description", "project_name_nice", "project_name">> \in Seq(K)
        /\ <<"project_spdx_license">> \in Seq(K)
    OBVIOUS
  <2> HIDE DEF K
  <2> QED
    BY <2>1, HolesOfHoles
<1>3. <<"gh_username", "project_name">> \in Seq(Gk)
  OBVIOUS
<1>4. K \subseteq Gk /\ Gk \ {"gh_username"} = K
  OBVIOUS
<1>5. 6 = Len(keys) /\ DOMAIN keys = 1..6 /\ K \ {keys[k] : k \in 1..6} = {}
  <2>1. 6 = Len(keys) /\ DOMAIN keys = 1..6
    OBVIOUS
  <2>2. \A key \in K : \E k \in 1..6 : key = keys[k]
    <3>1. /\ keys[1] = "project_name" /\ keys[2] = "project_name_nice"
          /\ keys[3] = "project_escaped_spdx_license" /\ keys[4] = "project_spdx_license"
          /\ keys[5] = "project_description" /\ keys[6] = "project_category"
      OBVIOUS
    <3> HIDE DEF keys
    <3> QED
      BY <3>1
  <2> HIDE DEF keys, K
  <2> QED
    BY <2>1, <2>2
<1> HIDE DEF head, license, K, Gk, keys
<1>6. HolesIn(online, K)
  <2>1. CASE OnGithub(name)
    <3>1. HolesIn(Installation(name, options.category), Gk)
      BY <1>3, <2>1, HolesOfHoles DEF Installation
    <3>2. HolesIn(opening, Gk)
      <4>1. HolesIn(head, Gk)
        BY <1>2, <1>4, HolesOfMore
      <4> QED
        BY <3>1, <4>1, HolesOfBoth
    <3> HIDE DEF opening
    <3>3. HolesIn(told, Gk \ {"gh_username"})
      BY <3>2, Fills
    <3> QED
      BY <1>4, <2>1, <3>3
  <2>2. CASE ~OnGithub(name)
    <3>1. HolesIn(Installation(name, options.category), K)
      BY <2>2, HolesOfFixed DEF Installation
    <3>2. HolesIn(opening, K)
      BY <1>2, <3>1, HolesOfBoth
    <3> QED
      BY <2>2, <3>2
  <2> QED
    BY <2>1, <2>2
<1> HIDE DEF online
<1>7. HolesIn(online \o license, K)
  BY <1>2, <1>6, HolesOfBoth
<1>8. HolesIn(GenerateReadme(options), K \ {keys[k] : k \in 1..6})
  <2> DEFINE text == online \o license
  <2>1. HolesIn(text, K) /\ GenerateReadme(options) = Filled(text, keys, value)
    BY <1>1, <1>7
  <2> HIDE DEF text
  <2>2. HolesIn(Filled(text, keys, value), K \ {keys[k] : k \in 1..6})
    BY <1>5, <2>1, FillsInTurn
  <2> QED
    BY <2>1, <2>2
<1> QED
  BY <1>5, <1>8, HolesOfNone

(* The policy for contributions.                                           *)
LEMMA ContributingPolicyIsWhole ==
  ASSUME NEW options PROVE NoHoles(GenerateContributingPolicy(options))
<1> DEFINE K == {"project_name_nice"}
           text == Holes(<<"project_name_nice", "project_name_nice">>)
<1>1. <<"project_name_nice", "project_name_nice">> \in Seq(K) /\ K \ {"project_name_nice"} = {}
  OBVIOUS
<1> HIDE DEF K
<1>2. HolesIn(text, K)
  BY <1>1, HolesOfHoles
<1>3. HolesIn(GenerateContributingPolicy(options), K \ {"project_name_nice"})
  <2> HIDE DEF text
  <2> QED
    BY <1>2, Fills DEF GenerateContributingPolicy, text
<1> QED
  BY <1>1, <1>3, HolesOfNone

(* The build file.                                                         *)
LEMMA CMakeListsTxtIsWhole == ASSUME NEW n PROVE NoHoles(GenerateCMakeListsTxt(n))
<1> DEFINE K == {"project_name"}
           text == Holes(<<"project_name">>)
<1>1. <<"project_name">> \in Seq(K) /\ K \ {"project_name"} = {}
  OBVIOUS
<1> HIDE DEF K
<1>2. HolesIn(text, K)
  BY <1>1, HolesOfHoles
<1>3. HolesIn(GenerateCMakeListsTxt(n), K \ {"project_name"})
  <2> HIDE DEF text
  <2> QED
    BY <1>2, Fills DEF GenerateCMakeListsTxt, text
<1> QED
  BY <1>1, <1>3, HolesOfNone

(* The texts without placeholders.                                         *)
LEMMA FixedIsWhole == ASSUME NEW name PROVE NoHoles(Fixed(name))
BY HolesOfFixed, HolesOfNone

(* Every file but the manifest, whatever the service said of the licence.  *)
LEMMA FilesAreWhole ==
  ASSUME NEW options, NEW manifest, NEW license \in GenerateLicense(options.license),
         NEW file \in ToSet(Front(PackageFiles(options, license, manifest)))
  PROVE  NoHoles(file[2])
<1> DEFINE all == PackageFiles(options, license, manifest)
<1>1. NoHoles(license)
  BY FixedIsWhole DEF GenerateLicense
<1>2. PICK i \in 1..10 : file = all[i]
  <2>1. Len(all) = 11
    BY DEF PackageFiles
  <2>2. all \in Seq({all[i] : i \in 1..11})
    BY <2>1 DEF PackageFiles
  <2> HIDE DEF all
  <2>3. DOMAIN Front(all) = 1..10 /\ \A i \in 1..10 : Front(all)[i] = all[i]
    BY <2>1, <2>2 DEF Front
  <2> QED
    BY <2>3 DEF ToSet, all
<1>3. NoHoles(DefaultSource(options.category)[2])
  <2>1. DefaultSource(options.category)[2] \in {Fixed("main"), Fixed("lib")}
    BY DEF DefaultSource, GenerateDefaultMainSource, GenerateDefaultLibrarySource
  <2> QED
    BY <2>1, FixedIsWhole
<1>4. /\ NoHoles(GenerateGitKeep) /\ NoHoles(GenerateCodeOfConduct)
      /\ NoHoles(GenerateGitIgnore) /\ NoHoles(GenerateDockerIgnore)
  BY FixedIsWhole DEF GenerateGitKeep, GenerateCodeOfConduct, GenerateGitIgnore, GenerateDockerIgnore
<1>5. /\ NoHoles(GenerateReadme(options)) /\ NoHoles(GenerateContributingPolicy(options))
      /\ NoHoles(GenerateSecurityPolicy(options.name)) /\ NoHoles(GenerateCMakeListsTxt(options.name))
  BY ReadmeIsWhole, ContributingPolicyIsWhole, SecurityPolicyIsWhole, CMakeListsTxtIsWhole
<1>6. /\ all[1][2] = GenerateGitKeep /\ all[2][2] = DefaultSource(options.category)[2]
      /\ all[3][2] = GenerateReadme(options) /\ all[4][2] = license
      /\ all[5][2] = GenerateCodeOfConduct /\ all[6][2] = GenerateContributingPolicy(options)
      /\ all[7][2] = GenerateSecurityPolicy(options.name) /\ all[8][2] = GenerateGitIgnore
      /\ all[9][2] = GenerateDockerIgnore /\ all[10][2] = GenerateCMakeListsTxt(options.name)
  BY DEF PackageFiles
<1> HIDE DEF all
<1>7. i \in {1, 2, 3, 4, 5, 6, 7, 8, 9, 10}
  OBVIOUS
<1> QED
  BY <1>1, <1>2, <1>3, <1>4, <1>5, <1>6, <1>7

(* Of an owner that begins with gh- what follows is a user name GitHub can *)
(* have.                                                                   *)
LEMMA OwnersAreUsers ==
  ASSUME NEW n, n.owner \in Text, IsValidName(n), OnGithub(n)
  PROVE  GithubUser(GithubUsername(n))
<1> DEFINE s == n.owner
           u == GithubUsername(n)
<1>1. /\ Len(s) \in Nat /\ DOMAIN s = 1..Len(s) /\ \A i \in DOMAIN s : s[i] \in Int
      /\ OwnerMatches(s) /\ ~DoubleHyphen(s)
  BY DEF Text, IsValidName
<1>2. 3 <= Len(s) /\ s[1] = 7 /\ s[2] = 8 /\ s[3] = Hyphen
  <2>1. Len(Gh) = 3 /\ Len(Gh) <= Len(s) /\ SubSeq(Gh, 1, 3) = SubSeq(s, 1, 3)
    BY DEF OnGithub, IsPrefix, Gh
  <2>2. SubSeq(Gh, 1, 3)[1] = 7 /\ SubSeq(Gh, 1, 3)[2] = 8 /\ SubSeq(Gh, 1, 3)[3] = Hyphen
    BY DEF Gh
  <2>3. \A i \in 1..3 : SubSeq(s, 1, 3)[i] = s[i]
    BY <1>1, <2>1 DEF Text
  <2> QED
    BY <2>1, <2>2, <2>3
<1>3. u = SubSeq(s, 4, Len(s))
  BY DEF GithubUsername, Gh
<1>4. s \in Seq(Int)
  BY DEF Text
<1> HIDE DEF s, u
<1>5. u \in Seq(Int) /\ Len(u) = Len(s) - 3 /\ \A i \in 1..Len(u) : u[i] = s[i + 3]
  <2> DEFINE l == Len(s)
  <2>1. l \in Nat /\ l >= 3 /\ s \in Seq(Int) /\ l = Len(s)
    BY <1>1, <1>2, <1>4
  <2>2. SubSeq(s, 4, l) \in Seq(Int) /\ Len(SubSeq(s, 4, l)) = l - 3
    <3>1. \A t \in Seq(Int) : \A k \in 3..Len(t) :
            SubSeq(t, 4, k) \in Seq(Int) /\ Len(SubSeq(t, 4, k)) = k - 3
      OBVIOUS
    <3> HIDE DEF l
    <3> QED
      BY <2>1, <3>1
  <2>3. \A i \in 1..(l - 3) : SubSeq(s, 4, l)[i] = s[i + 3]
    BY <2>1
  <2> QED
    BY <1>3, <2>2, <2>3
<1>6. Hyphen \notin Alnum /\ 7 # Hyphen /\ 8 # Hyphen /\ Hyphen \notin Letter
  BY DEF Hyphen, Alnum, Letter, Digit
<1>7. Len(s) > 3 /\ s[Len(s)] \in Alnum
  <2>1. CASE UserMatches(s)
    BY <1>1, <1>2, <1>6, <2>1 DEF UserMatches, Hyphenated
  <2>2. CASE ~UserMatches(s)
    <3>1. PICK k \in 2..Len(s) : /\ s[k] = Hyphen /\ \A i \in 1..(k - 1) : s[i] \in Letter
                                 /\ UserMatches(SubSeq(s, k + 1, Len(s)))
      BY <1>1, <2>2 DEF OwnerMatches
    <3>2. k = 3
      BY <1>1, <1>2, <1>6, <3>1
    <3>3. UserMatches(u)
      BY <1>3, <3>1, <3>2
    <3>4. Len(u) > 0 /\ u[Len(u)] \in Alnum
      BY <1>1, <1>2, <1>5, <3>3 DEF UserMatches, Hyphenated
    <3> QED
      BY <1>1, <1>2, <1>5, <3>4
  <2> QED
    BY <2>1, <2>2
<1>8. u # <<>> /\ u[1] = s[4] /\ u[Len(u)] = s[Len(s)]
  BY <1>1, <1>2, <1>5, <1>7
<1>9. s[4] # Hyphen
  BY <1>1, <1>2, <1>7 DEF DoubleHyphen
<1>10. ~DoubleHyphen(u)
  <2> SUFFICES ASSUME NEW i \in 1..(Len(u) - 1), u[i] = Hyphen, u[i + 1] = Hyphen PROVE FALSE
    BY DEF DoubleHyphen
  <2> DEFINE j == i + 3
  <2>1. j \in 1..(Len(s) - 1) /\ s[j] = Hyphen /\ s[j + 1] = Hyphen
    BY <1>1, <1>2, <1>5
  <2> HIDE DEF j
  <2> QED
    BY <1>1, <2>1 DEF DoubleHyphen
<1> QED
  BY <1>6, <1>7, <1>8, <1>9, <1>10 DEF GithubUser, Last, u

(* InitialData.cc, for any table of identifiers and any words: no          *)
(* placeholder is left in a text, and a link to GitHub can lead somewhere. *)
THEOREM TextsAreComplete == CommandSpec => []TextsComplete
<1>1. CommandInv => TextsComplete
  <2> SUFFICES ASSUME CommandInv, NEW p \in Creating
               PROVE  /\ \A contents \in Contents(p) : \A file \in ToSet(Front(contents)) :
                           NoHoles(file[2])
                      /\ OnGithub(asked[p].name) => GithubUser(GithubUsername(asked[p].name))
    BY DEF TextsComplete, NoHoles
  <2>1. \A contents \in Contents(p) : \A file \in ToSet(Front(contents)) : NoHoles(file[2])
    <3> SUFFICES ASSUME NEW contents \in Contents(p), NEW file \in ToSet(Front(contents))
                 PROVE  NoHoles(file[2])
      OBVIOUS
    <3> DEFINE options == Options(p)
               manifest == M!ToJson(M!InitialManifest(Options(p)))
    <3>1. PICK license \in GenerateLicense(options.license) :
            contents = PackageFiles(options, license, manifest)
      BY DEF Contents
    <3> HIDE DEF options, manifest
    <3> QED
      BY <3>1, FilesAreWhole
  <2>2. ASSUME OnGithub(asked[p].name) PROVE GithubUser(GithubUsername(asked[p].name))
    <3> DEFINE n == asked[p].name
    <3>1. asked[p] \in Asked /\ IsValidName(n)
      BY CreatingIs
    <3>2. n.owner \in Text
      BY <3>1, AskedAssumption DEF Text
    <3> HIDE DEF n
    <3> QED
      BY <2>2, <3>1, <3>2, OwnersAreUsers DEF n
  <2> QED
    BY <2>1, <2>2
<1> QED
  BY <1>1, CommandInvariance, PTL
-----------------------------------------------------------------------------
(* The manifest of a new package                                           *)

Flag == {"-O0", "-O1", "-O2", "-O3"}

(* Switches that set at most one flag per stage.                           *)
Plain == [M!Stage -> {{}} \cup {{flag} : flag \in Flag}]

(* FoldLeft is a function that folds: here with SetFlags.                  *)
IsSetting(level, f) ==
  f = [s \in SUBSET (DOMAIN level) |->
         IF s = {} THEN M!NewSwitch
         ELSE M!SetFlags(f[s \ {M!Max(s)}], level[M!Max(s)][1], {level[M!Max(s)][2]})]

(* The manifest's library is this module's.                                *)
LEMMA SameMax == \A s : M!Max(s) = Max(s)
BY DEF M!Max, Max

(* The setters leave one flag per stage, or none.                          *)
LEMMA LevelsArePlain ==
  ASSUME NEW first \in Flag, NEW llvm \in Flag, NEW lto \in Flag, NEW runtime \in Flag
  PROVE  M!Levels(first, llvm, lto, runtime) \in Plain
<1> DEFINE level == <<<<"alpha", first>>, <<"beta", first>>, <<"gamma", first>>,
                      <<"llvm", llvm>>, <<"lto", lto>>, <<"runtime", runtime>>>>
           n == 6
           V == Plain
           put(v, k) == M!SetFlags(v, level[k][1], {level[k][2]})
           G == [p \in V \X (1..n) |-> put(p[1], p[2])]
           none == M!NewSwitch
           f == CHOOSE h : IsSetting(level, h)
<1>1. DOMAIN level = 1..n
  OBVIOUS
<1>2. \A k \in 1..n : level[k][1] \in M!Stage /\ level[k][2] \in Flag
  <2> DEFINE P == M!Stage \X Flag
  <2>1. level \in Seq(P) /\ Len(level) = 6
    BY DEF M!Stage
  <2>2. \A x \in P : x[1] \in M!Stage /\ x[2] \in Flag
    OBVIOUS
  <2> HIDE DEF level, P
  <2>3. \A t \in Seq(P) : \A k \in 1..Len(t) : t[k] \in P
    OBVIOUS
  <2>4. \A k \in 1..n : level[k] \in P
    BY <2>1, <2>3
  <2> QED
    BY <2>2, <2>4
<1> HIDE DEF level
<1>3. none \in V
  BY DEF M!NewSwitch, Plain
<1>4. \A v \in V : \A k \in 1..n : put(v, k) \in V
  BY <1>2 DEF M!SetFlags, Plain
<1>5. n \in Nat
  OBVIOUS
<1> HIDE DEF V, n, none
<1>6. G \in [V \X (1..n) -> V] /\ \A v \in V : \A k \in 1..n : G[<<v, k>>] = put(v, k)
  BY <1>4
<1> HIDE DEF G
<1>7. PICK c : Folds(n, V, none, G, c)
  BY <1>3, <1>5, <1>6, FoldExists
<1>8. IsSetting(level, c)
  <2>1. \A s \in SUBSET (1..n) :
          c[s] = IF s = {} THEN none ELSE put(c[s \ {Max(s)}], Max(s))
    <3> SUFFICES ASSUME NEW s \in SUBSET (1..n), s # {} PROVE c[s] = put(c[s \ {Max(s)}], Max(s))
      BY <1>7 DEF Folds
    <3> DEFINE x == Max(s)
               r == s \ {x}
    <3>1. x \in 1..n /\ c[s] = G[<<c[r], x>>]
      BY <1>7 DEF Folds
    <3>2. r \in SUBSET (1..n)
      OBVIOUS
    <3> HIDE DEF x, r
    <3>3. c[r] \in V
      BY <1>7, <3>2 DEF Folds
    <3>4. c[s] = put(c[r], x)
      BY <1>6, <3>1, <3>3
    <3> QED
      BY <3>4 DEF x, r
  <2> QED
    BY <1>1, <1>7, <2>1, SameMax DEF IsSetting, Folds, none
<1>9. IsSetting(level, f)
  BY <1>8
<1>10. M!Levels(first, llvm, lto, runtime) = f[1..n]
  BY <1>1 DEF M!Levels, M!FoldLeft, M!MapThenFoldSet, IsSetting, level
<1> HIDE DEF f
<1>11. FoldsWith(f, n, V, none, G)
  <2>1. ASSUME NEW s \in SUBSET (1..n), s # {}, f[s \ {Max(s)}] \in V
        PROVE  f[s] = G[<<f[s \ {Max(s)}], Max(s)>>]
    <3>1. f[s] = put(f[s \ {Max(s)}], Max(s))
      BY <1>1, <1>9, <2>1, SameMax DEF IsSetting
    <3>2. Max(s) \in 1..n
      BY <1>7, <2>1 DEF Folds
    <3> QED
      BY <1>6, <2>1, <3>1, <3>2
  <2>2. f[{}] = none
    BY <1>1, <1>9 DEF IsSetting, none
  <2> QED
    BY <2>1, <2>2 DEF FoldsWith
<1>12. FoldedInTurn(f, n, V, none, G)
  BY <1>3, <1>5, <1>6, <1>11, FoldsInTurn
<1>13. \A k \in 0..n : f[1..k] \in V
  BY <1>12 DEF FoldedInTurn
<1> QED
  BY <1>5, <1>10, <1>13 DEF V, n

(* The profiles it sets are those that are required, in plain switches.    *)
LEMMA InitialProfiles ==
  /\ M!InitialOptimization.profiles \in [M!RequiredProfile -> Plain]
  /\ M!InitialOptimization.requirements = M!NewRequirements
<1> DEFINE a == M!Levels("-O0", "-O1", "-O0", "-O0")
           b == M!Levels("-O2", "-O3", "-O0", "-O1")
           c == M!Levels("-O3", "-O3", "-O3", "-O3")
           o0 == M!NewOptimization
           o1 == M!SetProfile(o0, "rapid", a)
           o2 == M!SetProfile(o1, "debug", b)
           o3 == M!SetProfile(o2, "release", c)
           T == [M!RequiredProfile -> Plain]
           Is(o) == o = [profiles |-> o.profiles, requirements |-> M!NewRequirements]
                    /\ o.profiles \in T
<1>1. a \in Plain /\ b \in Plain /\ c \in Plain
  BY LevelsArePlain DEF Flag
<1> HIDE DEF a, b, c
<1>2. Is(o0)
  <2>1. M!NewSwitch \in Plain
    BY DEF M!NewSwitch, Plain
  <2> QED
    BY <2>1 DEF M!NewOptimization
<1>3. ASSUME NEW o, Is(o), NEW name \in M!RequiredProfile, NEW s \in Plain
      PROVE  Is(M!SetProfile(o, name, s))
  <2>1. DOMAIN o.profiles \cup {name} = M!RequiredProfile
    BY <1>3
  <2>2. M!SetProfile(o, name, s).profiles =
          [p \in M!RequiredProfile |-> IF p = name THEN s ELSE o.profiles[p]]
    BY <1>3, <2>1 DEF M!SetProfile
  <2>3. M!SetProfile(o, name, s).requirements = M!NewRequirements
    BY <1>3 DEF M!SetProfile
  <2> QED
    BY <1>3, <2>2, <2>3 DEF M!SetProfile
<1>4. "rapid" \in M!RequiredProfile /\ "debug" \in M!RequiredProfile /\ "release" \in M!RequiredProfile
  BY DEF M!RequiredProfile
<1>5. M!InitialOptimization = o3
  BY DEF M!InitialOptimization, a, b, c
<1> HIDE DEF Is, T, o0
<1>6. Is(o1)
  BY <1>1, <1>2, <1>3, <1>4
<1> HIDE DEF o1
<1>7. Is(o2)
  BY <1>1, <1>3, <1>4, <1>6
<1> HIDE DEF o2
<1>8. Is(o3)
  BY <1>1, <1>3, <1>4, <1>7
<1> HIDE DEF o3
<1> QED
  BY <1>5, <1>8 DEF Is, T

(* Requirements and versions are below the width of a number.              *)
LEMMA Small ==
  \A x \in Nat : x <= 2 * 1024 * 1024 => x % Narrow = x
<1>1. Narrow \in Nat /\ Narrow > 2 * 1024 * 1024
  BY AskedAssumption
<1> QED
  BY <1>1

(* So is its cardinality.                                                  *)
LEMMA SameCardinality == \A S : M!Cardinality(S) = Cardinality(S)
BY DEF M!Cardinality, Cardinality

(* A plain switch is written and read as it is.                            *)
LEMMA PlainIsWritten ==
  ASSUME NEW s \in Plain, NEW w, w = M!EncodeSwitch(s)
  PROVE  M!ValidateSwitch(w) /\ M!ConvertSwitch(w) = s
<1>1. ASSUME NEW S \in {{}} \cup {{flag} : flag \in Flag}
      PROVE  LET t == M!SetToSeq(S) IN ~M!Contains(t, M!Bad) /\ M!ToSet(t) = S
  <2> DEFINE n == Cardinality(S)
             Is(f) == f \in [1..n -> S] /\ \A a, b \in DOMAIN f : f[a] = f[b] => a = b
             t == CHOOSE f \in [1..n -> S] : \A a, b \in DOMAIN f : f[a] = f[b] => a = b
  <2>1. M!SetToSeq(S) = t
    BY SameCardinality DEF M!SetToSeq, M!IsInjective
  <2>2. n \in {0, 1} /\ (n = 0 <=> S = {})
    BY FS_EmptySet, FS_Singleton
  <2>3. \E f : Is(f)
    <3>1. CASE S = {}
      <4>1. [i \in {} |-> i] \in [{} -> {}]
        OBVIOUS
      <4>2. 1..0 = {}
        OBVIOUS
      <4>3. Is([i \in {} |-> i])
        BY <2>2, <3>1, <4>1, <4>2
      <4> QED
        BY <4>3
    <3>2. CASE S # {}
      <4>1. PICK x : S = {x}
        BY <3>2
      <4>2. n = 1 /\ 1..1 = {1}
        BY <2>2, <3>2
      <4>3. Is([i \in {1} |-> x])
        BY <4>1, <4>2
      <4> QED
        BY <4>3
    <3> QED
      BY <3>1, <3>2
  <2>4. t \in [1..n -> S]
    BY <2>3
  <2> HIDE DEF t, Is
  <2>5. M!ToSet(t) = S
    <3>1. CASE S = {}
      BY <2>2, <2>4, <3>1 DEF M!ToSet
    <3>2. CASE S # {}
      <4>1. PICK x : S = {x}
        BY <3>2
      <4>2. n = 1
        BY <2>2, <3>2
      <4>3. t \in [1..1 -> {x}]
        BY <2>4, <4>1, <4>2
      <4>4. 1 \in DOMAIN t /\ \A i \in DOMAIN t : t[i] = x
        BY ONLY <4>3
      <4> QED
        BY <4>1, <4>4 DEF M!ToSet
    <3> QED
      BY <3>1, <3>2
  <2>6. ~M!Contains(t, M!Bad)
    <3>1. M!Bad \notin S
      BY DEF M!Bad, Flag
    <3>2. Len(t) = n
      BY <2>2, <2>4
    <3>3. \A i \in 1..Len(t) : t[i] \in S
      BY <2>4, <3>2
    <3> QED
      BY <3>1, <3>3 DEF M!Contains
  <2> QED
    BY <2>1, <2>5, <2>6
<1>2. /\ DOMAIN w = M!Stage
      /\ \A stage_ \in M!Stage : w[stage_] = M!SetToSeq(s[stage_])
  BY DEF M!EncodeSwitch
<1>3. \A stage_ \in M!Stage : s[stage_] \in {{}} \cup {{flag} : flag \in Flag}
  BY DEF Plain
<1>4. \A stage_ \in M!Stage : ~M!Contains(w[stage_], M!Bad) /\ M!ToSet(w[stage_]) = s[stage_]
  BY <1>1, <1>2, <1>3
<1>5. M!ConvertSwitch(w) = [stage_ \in M!Stage |-> s[stage_]]
  BY <1>4 DEF M!ConvertSwitch
<1>6. [stage_ \in M!Stage |-> s[stage_]] = s
  BY DEF Plain
<1> QED
  BY <1>2, <1>4, <1>5, <1>6 DEF M!ValidateSwitch

(* Whatever options are acceptable, the manifest made of them is too, and  *)
(* reads as it was made.                                                   *)
LEMMA InitialManifestIs ==
  ASSUME NEW o, o.name \in ValidName, o.license \in ValidLicense, o.category \in M!Category,
         o.version = M!Version(0, 1, 0), o.description # M!Bad
  PROVE  LET m == M!InitialManifest(o)
         IN  /\ M!CorrectSchema(m) /\ M!ObjectToInstance(M!ToJson(m)) = m
             /\ m.name = o.name /\ m.license = o.license /\ m.category = o.category
<1> DEFINE m == M!InitialManifest(o)
           j == M!ToJson(m)
           i == M!InitialOptimization
           version == [major |-> 0, minor |-> 1, patch |-> 0]
           wide == [allow |-> <<"*">>, deny |-> <<"*">>]
           needs == M!NewRequirements
           known == [name |-> o.name, description |-> o.description, license |-> o.license,
                     category |-> o.category, version |-> version, contacts |-> <<>>,
                     platforms |-> wide, profiles |-> i.profiles, requirements |-> needs,
                     dependencies |-> <<>>]
           profiles == [p \in M!RequiredProfile |-> M!EncodeSwitch(i.profiles[p])]
           written == [format |-> <<1, 0>>, name |-> o.name, description |-> o.description,
                       license |-> o.license, category |-> o.category, version |-> <<0, 1>>,
                       contacts |-> <<>>, platforms |-> wide,
                       optimization |-> [profiles |-> profiles, requirements |-> needs],
                       dependencies |-> <<>>, blockchain |-> <<>>]
<1>1. i.profiles \in [M!RequiredProfile -> Plain] /\ i.requirements = needs
  BY InitialProfiles
<1> HIDE DEF i
<1>2. m = known
  <2> DEFINE Built(d, l, v, p, r) ==
               [name |-> o.name, description |-> d, license |-> l, category |-> o.category,
                version |-> v, contacts |-> <<>>, platforms |-> wide, profiles |-> p,
                requirements |-> r, dependencies |-> <<>>]
             n == M!NewOptimization
             blank == ""
             m0 == Built(blank, DefaultLicense, version, n.profiles, n.requirements)
             m1 == Built(o.description, DefaultLicense, version, n.profiles, n.requirements)
             m2 == Built(o.description, o.license, version, n.profiles, n.requirements)
             m3 == Built(o.description, o.license, o.version, n.profiles, n.requirements)
  <2>1. M!NewManifest(o.name, o.category) = m0
    BY DEF M!NewManifest, M!NewPlatforms, M!Version
  <2> HIDE DEF wide, n
  <2>2. ASSUME NEW d, NEW l, NEW v, NEW p, NEW r, NEW x
        PROVE  /\ M!SetDescription(Built(d, l, v, p, r), x) = Built(x, l, v, p, r)
               /\ M!SetLicense(Built(d, l, v, p, r), x) = Built(d, x, v, p, r)
               /\ M!SetVersion(Built(d, l, v, p, r), x) = Built(d, l, x, p, r)
    BY DEF M!SetDescription, M!SetLicense, M!SetVersion
  <2>3. ASSUME NEW d, NEW l, NEW v, NEW p, NEW r, NEW x
        PROVE  M!SetOptimization(Built(d, l, v, p, r), x) = Built(d, l, v, x.profiles, x.requirements)
    <3> DEFINE b == Built(d, l, v, p, r)
               c == [b EXCEPT !.profiles = x.profiles]
    <3>1. c = Built(d, l, v, x.profiles, r)
      OBVIOUS
    <3>2. [Built(d, l, v, x.profiles, r) EXCEPT !.requirements = x.requirements] =
            Built(d, l, v, x.profiles, x.requirements)
      OBVIOUS
    <3>3. M!SetOptimization(b, x) = [c EXCEPT !.requirements = x.requirements]
      <4> HIDE DEF b, Built
      <4> QED
        BY DEF M!SetOptimization
    <3> HIDE DEF c
    <3> QED
      BY <3>1, <3>2, <3>3
  <2> HIDE DEF Built, version, blank
  <2>4. /\ M!SetDescription(m0, o.description) = m1 /\ M!SetLicense(m1, o.license) = m2
        /\ M!SetVersion(m2, o.version) = m3
        /\ M!SetOptimization(m3, i) = Built(o.description, o.license, o.version, i.profiles, i.requirements)
    <3>1. M!SetDescription(m0, o.description) = m1
      BY <2>2
    <3>2. M!SetLicense(m1, o.license) = m2
      BY <2>2
    <3>3. M!SetVersion(m2, o.version) = m3
      BY <2>2
    <3>4. M!SetOptimization(m3, i) = Built(o.description, o.license, o.version, i.profiles, i.requirements)
      BY <2>3
    <3> QED
      BY <3>1, <3>2, <3>3, <3>4
  <2>6. m = Built(o.description, o.license, o.version, i.profiles, i.requirements)
    <3> HIDE DEF m0, m1, m2, m3
    <3> QED
      BY <2>1, <2>4 DEF M!InitialManifest, i
  <2>7. o.version = version
    BY DEF M!Version, version
  <2> HIDE DEF m
  <2> QED
    BY <1>1, <2>6, <2>7 DEF Built, wide, version
<1> HIDE DEF m
<1>3. j = written
  <2>1. M!EncodeVersion(version) = <<0, 1>>
    BY DEF M!EncodeVersion
  <2>2. \A F : [k \in DOMAIN <<>> |-> F[k]] = <<>>
    OBVIOUS
  <2>3. [k \in DOMAIN <<>> |-> M!EncodeContact(<<>>[k])] = <<>>
    OBVIOUS
  <2>4. [k \in DOMAIN <<>> |-> M!EncodeDependency(<<>>[k])] = <<>>
    OBVIOUS
  <2>5. /\ m.name = o.name /\ m.description = o.description /\ m.license = o.license
        /\ m.category = o.category /\ m.version = version /\ m.contacts = <<>>
        /\ m.platforms = wide /\ m.profiles = i.profiles /\ m.requirements = needs
        /\ m.dependencies = <<>>
    BY <1>2
  <2> QED
    BY <2>1, <2>3, <2>4, <2>5 DEF M!ToJson
<1> HIDE DEF j
<1>4. \A p \in M!RequiredProfile :
        M!ValidateSwitch(profiles[p]) /\ M!ConvertSwitch(profiles[p]) = i.profiles[p]
  BY <1>1, PlainIsWritten
<1>5. /\ needs = [r \in M!Requirement |-> needs[r]]
      /\ \A r \in M!Requirement : needs[r] \in Nat /\ needs[r] <= 2 * 1024 * 1024
  BY DEF M!NewRequirements, M!Requirement
<1>6. [r \in M!Requirement |-> needs[r] % Narrow] = needs
  <2>1. \A r \in M!Requirement : needs[r] % Narrow = needs[r]
    BY <1>5, Small
  <2> HIDE DEF needs
  <2> QED
    BY <1>5, <2>1
<1>7. M!ConvertVersion(<<0, 1>>) = version
  <2>1. 0 % Narrow = 0 /\ 1 % Narrow = 1
    BY Small
  <2> QED
    BY <2>1 DEF M!ConvertVersion
<1> HIDE DEF needs, wide
<1>8. M!Verify(written)
  <2>1. M!ValidateSemVersion(<<1, 0>>) /\ M!ValidateSemVersion(<<0, 1>>)
    BY DEF M!ValidateSemVersion
  <2>2. ~M!Contains(wide.allow \o wide.deny, M!Bad)
    BY DEF M!Contains, M!Bad, wide
  <2>3. M!ValidateOptimization([profiles |-> profiles, requirements |-> needs])
    BY <1>4, <1>5 DEF M!ValidateOptimization
  <2> HIDE DEF profiles
  <2> QED
    BY <2>1, <2>2, <2>3 DEF M!Verify
<1>9. M!ObjectToInstance(written) = known
  <2>1. [p \in DOMAIN profiles |-> M!ConvertSwitch(profiles[p])] = i.profiles
    BY <1>1, <1>4
  <2>2. [k \in DOMAIN <<>> |-> M!ConvertContact(<<>>[k])] = <<>>
    OBVIOUS
  <2>3. [k \in DOMAIN <<>> |-> M!ConvertDependency(<<>>[k])] = <<>>
    OBVIOUS
  <2> HIDE DEF profiles
  <2> QED
    BY <1>6, <1>7, <2>1, <2>2, <2>3 DEF M!ObjectToInstance
<1>10. M!CorrectSchema(m)
  BY <1>3, <1>8 DEF M!CorrectSchema, j
<1>11. M!ObjectToInstance(j) = m
  BY <1>2, <1>3, <1>9
<1> QED
  BY <1>2, <1>10, <1>11 DEF j, m

(* Manifest and InitPackage.cc, for any table of identifiers and any       *)
(* words: what init accepts it can write.                                  *)
THEOREM PackagesAreAsAsked == CommandSpec => []PackageAsAsked
<1>1. CommandInv => PackageAsAsked
  <2> SUFFICES ASSUME CommandInv, NEW p \in Creating
               PROVE  LET m == M!InitialManifest(Options(p)) IN
                        /\ M!CorrectSchema(m) /\ M!ObjectToInstance(M!ToJson(m)) = m
                        /\ m.name = asked[p].name
                        /\ m.license = SPDX_IDENTIFIERS[LowerCase(asked[p].license)]
                        /\ \/ m.category \in asked[p].kinds
                           \/ asked[p].kinds = {} /\ m.category = "exe"
    BY DEF PackageAsAsked
  <2> DEFINE a == asked[p]
             o == Options(p)
  <2>1. /\ a \in Asked /\ IsValidName(a.name) /\ LowerCase(a.license) \in DOMAIN SPDX_IDENTIFIERS
        /\ spelling[p] = SPDX_IDENTIFIERS[LowerCase(a.license)]
    BY CreatingIs
  <2>2. /\ o.name = a.name /\ o.license = spelling[p] /\ o.version = M!Version(0, 1, 0)
        /\ o.category = CategoryOf(a.kinds) /\ o.description = "none was provided"
    BY DEF Options
  <2> HIDE DEF a, o
  <2>3. o.name \in ValidName /\ o.license \in ValidLicense
    BY <2>1, <2>2 DEF ValidName, ValidLicense
  <2>4. o.category \in a.kinds \/ (a.kinds = {} /\ o.category = "exe")
    BY <2>2 DEF CategoryOf
  <2>5. o.category \in M!Category
    BY <2>1, <2>4, AskedAssumption DEF Kind, M!Category
  <2>6. o.description # M!Bad
    BY <2>2 DEF M!Bad
  <2>7. LET m == M!InitialManifest(o)
        IN  /\ M!CorrectSchema(m) /\ M!ObjectToInstance(M!ToJson(m)) = m
            /\ m.name = o.name /\ m.license = o.license /\ m.category = o.category
    BY <2>2, <2>3, <2>5, <2>6, InitialManifestIs
  <2> QED
    BY <2>1, <2>2, <2>4, <2>7 DEF a, o
<1> QED
  BY <1>1, CommandInvariance, PTL
=============================================================================
