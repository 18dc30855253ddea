----------------------------- MODULE FormatProofs -----------------------------
(***************************************************************************)
(* The format command, for any files, any number of writes, any layout of  *)
(* the directories, any refusal of the system and a kill anywhere: the     *)
(* source files keep their text, the loop accounts for every file, and no  *)
(* temporary file is left.  And config-check: the manifest is kept.        *)
(*                                                                         *)
(* The argument is about the one file the loop is at, the current one.     *)
(* Whatever is written goes to its destination or to the temporary file    *)
(* beside it, and two files never have the same destination; so the files  *)
(* the loop has been at stay as it left them, and those it has yet to      *)
(* reach are as they were.                                                 *)
(***************************************************************************)
EXTENDS PackageCommands, FiniteSetTheorems, TLAPS

FilePc == {"parse", "open", "write", "finish", "close", "done"}

SourceFile == {FileAt("source", n) : n \in Name}

FormatTypeOK ==
  /\ file \in [File -> Int]
  /\ src \in File /\ dst \in File
  /\ output \subseteq File
  /\ mode \in Mode /\ taken \in Nat
  /\ bad \in BOOLEAN /\ okay \in BOOLEAN /\ result \in BOOLEAN /\ status \in BOOLEAN
  /\ fpc \in FilePc
  /\ pc \in Running \cup {"idle", "done", "killed", "terminated"}
  /\ \E pair \in Packages : package = pair[1]

(* The loop has failed on files it has been at, and none of what it lists  *)
(* is a temporary file or the output of an output.                         *)
LoopPosition ==
  /\ todo \subseteq listed /\ failed \subseteq listed \ todo
  /\ \A f \in listed :
       /\ f \in File /\ ~f.tmp
       /\ f.tree \in {"source", "output"}
       /\ f.tree = "output" => package.output = "inside"
  /\ pc \in {"idle", "source", "output", "config", "list", "rewrite"} => listed = {}
  /\ pc = "manifest" => todo = listed /\ failed = {}
  /\ pc \notin {"file", "killed"} => fpc = "done" /\ output = {}

(* The file the loop is at, and how far it is with it.                     *)
CurrentFile ==
  pc = "file" =>
    /\ src \in listed \ (todo \cup failed)
    /\ dst = Destination(src)
    /\ respelled <=> package.output = "respelled"
    /\ okay => taken = Writes
    /\ bad => <<"write", src>> \in refused
    /\ fpc \in {"parse", "open"} => output = {}
    /\ fpc \in {"write", "finish"} => output = {Target}
    /\ fpc \in {"parse", "open", "write", "finish"} => ~result
    /\ fpc = "close" /\ ~InPlace => output = {dst} /\ (result <=> okay)
    /\ fpc = "close" /\ InPlace /\ result => output = {src} /\ okay
    /\ fpc = "close" /\ InPlace /\ ~result =>
         \/ output = {}
         \/ /\ output = {Temporary}
            /\ <<"rename", src>> \in refused \/ <<"remove", src>> \in refused
    /\ fpc = "done" => output = {} /\ (result => WrittenOrRefused(src))

(* The files the loop has been at.                                         *)
FilesBehind ==
  \A f \in listed \ (todo \cup failed) :
    \/ f = src /\ pc \in {"file", "killed"}
    \/ WrittenOrRefused(f)

(* Of the sources it writes none but those it has formatted in place with  *)
(* success, and those it has opened under another spelling.                *)
FilesUntouched ==
  \A f \in SourceFile :
    \/ file[f] = Before
    \/ /\ f \in listed \ todo
       /\ \/ /\ package.output = "in place" /\ f \notin failed
             /\ f = src /\ pc = "file" => result
          \/ /\ package.output = "respelled"
             /\ f = src => fpc \notin {"parse", "open"}

(* A temporary file is that of the current file, or the system has refused *)
(* something.                                                              *)
TemporariesGone ==
  pc # "killed" =>
    \A f \in File :
      \/ ~f.tmp
      \/ file[f] = Missing
      \/ <<"rename", FileAt(f.tree, f.name)>> \in refused
      \/ <<"remove", FileAt(f.tree, f.name)>> \in refused
      \/ pc = "file" /\ fpc \in {"write", "finish"} /\ f \in output

(* What the loop was given.                                                *)
Accounted ==
  listed # {} =>
    \A f \in SourceFile :
      \/ f.name \in Nested /\ ~package.directory
      \/ f \in listed
      \/ <<"stat", f>> \in refused

Reported == LoopOver => todo = {} /\ (status <=> failed = {})

FInv ==
  /\ FormatTypeOK /\ LoopPosition /\ CurrentFile /\ FilesBehind
  /\ FilesUntouched /\ TemporariesGone /\ Accounted /\ Reported /\ SourceKept

-------------------------------------------------------------------------------
(* Source files are files, and no temporary ones.                          *)
LEMMA SourceFileIs ==
  ASSUME NEW f \in SourceFile PROVE f \in File /\ ~f.tmp /\ f.tree = "source"
<1>1. PICK n \in Name : f = FileAt("source", n)
  BY DEF SourceFile
<1> QED
  BY <1>1 DEF FileAt, File, Tree

(* Where a file goes: to itself, or out of the source directory.           *)
LEMMA DestinationIs ==
  ASSUME FormatTypeOK, LoopPosition, NEW f \in listed
  PROVE  /\ Destination(f) \in File /\ ~Destination(f).tmp
         /\ package.output \in {"in place", "respelled"} => Destination(f) = f
         /\ package.output \notin {"in place", "respelled"} => Destination(f).tree # "source"
<1>1. f \in File /\ ~f.tmp /\ f.name \in Name
  BY DEF LoopPosition, File
<1> QED
  BY <1>1 DEF Destination, FileAt, File, Tree

(* No two files go to the same place.                                      *)
LEMMA DestinationsDiffer ==
  ASSUME FormatTypeOK, LoopPosition, NEW f \in listed, NEW g \in listed,
         Destination(f) = Destination(g)
  PROVE  f = g
<1>1. /\ f \in File /\ ~f.tmp /\ f.tree \in {"source", "output"}
      /\ g \in File /\ ~g.tmp /\ g.tree \in {"source", "output"}
  BY DEF LoopPosition
<1>2. f = [tree |-> f.tree, name |-> f.name, tmp |-> f.tmp]
      /\ g = [tree |-> g.tree, name |-> g.name, tmp |-> g.tmp]
      /\ f.tmp \in BOOLEAN /\ g.tmp \in BOOLEAN
  BY <1>1 DEF File
<1>3. CASE package.output \in {"in place", "respelled"}
  BY <1>3 DEF Destination
<1>4. CASE package.output \notin {"in place", "respelled"}
  <2>1. f.name = g.name /\ f.tree = g.tree
    BY <1>1, <1>4 DEF Destination, FileAt
  <2> QED
    BY <1>1, <1>2, <2>1
<1> QED
  BY <1>3, <1>4

(* While nobody has killed the command, the rest implies that the source   *)
(* files are kept.                                                         *)
Alive ==
  FormatTypeOK /\ LoopPosition /\ CurrentFile /\ FilesBehind /\ FilesUntouched /\ pc # "killed"

LEMMA KeptWhileAlive == Alive => SourceKept
<1> USE DEF Alive
<1> SUFFICES ASSUME Alive, NEW f \in SourceFile, file[f] # Before,
                    package.output # "respelled"
             PROVE  /\ f \in listed \ todo
                    /\ package.output = "in place" /\ f \notin failed
                    /\ WrittenOrRefused(f) \/ (src = f /\ taken = Writes /\ fpc = "close")
  BY DEF SourceKept, SourceFile, FilesUntouched
<1>1. /\ package.output = "in place" /\ f \in listed \ (todo \cup failed)
      /\ f = src /\ pc = "file" => result
  BY DEF FilesUntouched
<1>2. CASE f = src /\ pc = "file"
  <2>1. fpc \in {"close", "done"} /\ InPlace
    BY <1>1, <1>2, DestinationIs DEF CurrentFile, InPlace, FormatTypeOK, FilePc
  <2> QED
    BY <1>1, <1>2, <2>1 DEF CurrentFile
<1>3. CASE ~(f = src /\ pc = "file")
  BY <1>1, <1>3 DEF FilesBehind
<1> QED
  BY <1>1, <1>2, <1>3

LEMMA InitFInv == Init => FInv
<1> SUFFICES ASSUME Init PROVE FInv
  OBVIOUS
<1>0. \E old \in SUBSET {FileAt("output", n) : n \in Name} :
        file = [f \in File |-> IF f \in old \/ (f.tree = "source" /\ ~f.tmp)
                               THEN Before ELSE Missing]
  BY DEF Init
<1>1. FormatTypeOK
  <2>1. PICK n \in Name : FileIdle(FileAt("source", n))
    BY DEF Init
  <2>2. FileAt("source", n) \in File
    BY DEF FileAt, File, Tree
  <2>3. /\ src \in File /\ dst \in File /\ fpc \in FilePc
        /\ output \subseteq File /\ mode \in Mode /\ taken \in Nat
        /\ bad \in BOOLEAN /\ okay \in BOOLEAN /\ result \in BOOLEAN
    <3>1. /\ src = FileAt("source", n) /\ dst = FileAt("source", n)
          /\ output = {} /\ mode = "std" /\ taken = 0 /\ fpc = "done"
          /\ bad = FALSE /\ okay = FALSE /\ result = FALSE
      BY <2>1 DEF FileIdle
    <3>2. bad \in BOOLEAN /\ okay \in BOOLEAN /\ result \in BOOLEAN
      BY <3>1
    <3>3. mode \in Mode /\ taken \in Nat /\ output \subseteq File
      BY <3>1 DEF Mode
    <3> QED
      BY <2>2, <3>1, <3>2, <3>3 DEF FilePc
  <2>4. file \in [File -> Int]
    BY <1>0 DEF Before, Missing
  <2>5. \E pair \in Packages : package = pair[1]
    BY DEF Init
  <2>6. pc \in Running \cup {"idle", "done", "killed", "terminated"} /\ status \in BOOLEAN
    BY DEF Init
  <2> QED
    BY <2>3, <2>4, <2>5, <2>6 DEF FormatTypeOK
<1>2. LoopPosition /\ CurrentFile /\ FilesBehind /\ Accounted /\ Reported
  BY DEF Init, FileIdle, LoopPosition, CurrentFile, FilesBehind, Accounted, Reported, LoopOver
<1>3. FilesUntouched
  <2> SUFFICES ASSUME NEW n \in Name PROVE file[FileAt("source", n)] = Before
    BY DEF FilesUntouched, SourceFile
  <2>1. FileAt("source", n) \in File /\ FileAt("source", n).tree = "source" /\ ~FileAt("source", n).tmp
    BY DEF FileAt, File, Tree
  <2> QED
    BY <2>1 DEF Init
<1>4. TemporariesGone
  <2> SUFFICES ASSUME NEW f \in File, f.tmp PROVE file[f] = Missing
    BY DEF TemporariesGone
  <2>1. f \notin {FileAt("output", n) : n \in Name}
    BY DEF FileAt
  <2> QED
    BY <1>0, <2>1
<1>5. SourceKept
  BY <1>1, <1>2, <1>3, KeptWhileAlive DEF Init, Alive
<1> QED
  BY <1>1, <1>2, <1>3, <1>4, <1>5 DEF FInv

-------------------------------------------------------------------------------
(* Steps of the command that leave the files and the loop alone.           *)
LEMMA QuietStepFInv ==
  ASSUME FInv, UNCHANGED <<file, src, dst, respelled, output, taken, bad, okay, result, fpc>>,
         UNCHANGED <<package, Loop>>, refused \subseteq refused',
         mode' \in Mode, mode' = mode \/ listed = {},
         pc \notin {"file", "killed"}, pc' # "file",
         pc' \in Running \cup {"idle", "done", "killed", "terminated"}, status' \in BOOLEAN,
         pc' \in {"idle", "source", "output", "config", "list", "rewrite"} => listed = {},
         pc' = "manifest" => todo = listed /\ failed = {},
         pc' = "done" /\ listed # {} => todo = {} /\ (status' <=> failed = {})
  PROVE  FInv'
<1> USE DEF FInv, Loop
<1>1. FormatTypeOK' /\ LoopPosition' /\ CurrentFile'
  BY DEF FormatTypeOK, LoopPosition, CurrentFile
<1>2. mode' = mode => \A f : WrittenOrRefused(f) => WrittenOrRefused(f)'
  BY DEF WrittenOrRefused, Destination, Writes
<1>3. FilesBehind'
  BY <1>2 DEF FilesBehind
<1>4. FilesUntouched' /\ TemporariesGone'
  BY DEF FilesUntouched, TemporariesGone
<1>5. Accounted' /\ Reported'
  BY DEF Accounted, Reported, LoopOver
<1>6. SourceKept'
  BY <1>2 DEF SourceKept, Writes
<1> QED
  BY <1>1, <1>3, <1>4, <1>5, <1>6

-------------------------------------------------------------------------------
(* The current file, its destination and the temporary file beside it.     *)
LEMMA CurrentPlaces ==
  ASSUME FInv, pc = "file"
  PROVE  /\ src \in File /\ dst \in File /\ ~src.tmp /\ ~dst.tmp
         /\ Temporary \in File /\ Temporary.tmp /\ Temporary # dst /\ Temporary # src
         /\ Target \in {dst, Temporary} /\ Target \in File
         /\ output \subseteq {dst, Temporary}
         /\ InPlace <=> package.output = "in place"
         /\ InPlace => src = dst /\ FileAt(Temporary.tree, Temporary.name) = src
<1> USE DEF FInv
<1>1. /\ src \in listed /\ dst = Destination(src)
      /\ respelled <=> package.output = "respelled"
  BY DEF CurrentFile
<1>2. /\ src \in File /\ dst \in File /\ ~src.tmp /\ ~dst.tmp
  BY <1>1, DestinationIs DEF LoopPosition
<1>3. /\ src.tree \in {"source", "output"}
      /\ src.tree = "output" => package.output = "inside"
  BY <1>1 DEF LoopPosition
<1>4. package.output \notin {"in place", "respelled"} => dst # src
  <2>1. package.output \notin {"in place", "respelled"} =>
          dst.tree = IF src.tree = "source" THEN "output" ELSE "output of output"
    BY <1>1 DEF Destination, FileAt
  <2> QED
    BY <1>3, <2>1
<1>5. InPlace <=> package.output = "in place"
  <2>1. package.output \in {"in place", "respelled"} => dst = src
    BY <1>1, DestinationIs
  <2> QED
    BY <1>1, <1>4, <2>1 DEF InPlace
<1>6. Temporary \in File /\ Temporary.tmp /\ Temporary # dst /\ Temporary # src
  BY <1>2 DEF Temporary, File
<1>7. dst = [tree |-> dst.tree, name |-> dst.name, tmp |-> dst.tmp] /\ dst.tmp = FALSE
  BY <1>2 DEF File
<1>8. InPlace => src = dst /\ FileAt(Temporary.tree, Temporary.name) = src
  BY <1>7 DEF InPlace, Temporary, FileAt
<1>9. Target \in {dst, Temporary} /\ Target \in File
  BY <1>2, <1>6 DEF Target
<1>10. output \subseteq {dst, Temporary}
  <2>1. CASE fpc \in {"parse", "open", "done"}
    BY <2>1 DEF CurrentFile
  <2>2. CASE fpc \in {"write", "finish"}
    BY <1>9, <2>2 DEF CurrentFile
  <2>3. CASE fpc = "close"
    BY <1>8, <2>3 DEF CurrentFile
  <2> QED
    BY <2>1, <2>2, <2>3 DEF FormatTypeOK, FilePc
<1> QED
  BY <1>2, <1>5, <1>6, <1>8, <1>9, <1>10

(* What a step of FormatFile may do to the files.                          *)
FileEffect ==
  /\ UNCHANGED <<mode, src, dst, respelled>>
  /\ refused \subseteq refused'
  /\ file' \in [File -> Int]
  /\ \A g \in File \ {dst, Temporary} : file'[g] = file[g]
  /\ result => result'
  /\ InPlace /\ ~result' => file'[src] = file[src]
  /\ fpc' \in {"parse", "open"} => fpc = "parse" /\ file' = file

LEMMA FileStepEffect ==
  ASSUME FInv, pc = "file", FormatFile
  PROVE  FileEffect
<1> USE DEF FInv, Call
<1>1. /\ src \in File /\ dst \in File /\ Temporary \in File /\ Temporary # src
      /\ Target \in {dst, Temporary} /\ output \subseteq {dst, Temporary}
      /\ InPlace => src = dst
  BY CurrentPlaces
<1>2. file \in [File -> Int] /\ taken \in Nat
  BY DEF FormatTypeOK
<1>3. CASE Parse \/ OpenRefused \/ Write \/ Formatted \/ FlushRefused \/ RenameRefused
  BY <1>2, <1>3 DEF Parse, OpenRefused, Write, Formatted, FlushRefused, RenameRefused, Refuse, Go, FileEffect
<1>4. CASE Open
  <2>1. ~result /\ (InPlace => Target # src)
    BY <1>1, <1>4 DEF Open, Go, CurrentFile, Target
  <2> QED
    BY <1>1, <1>2, <1>4, <2>1 DEF Open, Go, FileEffect
<1>5. ASSUME NEW n \in Int, Flushed(n)
      PROVE  /\ file' \in [File -> Int]
             /\ \A g \in File : file'[g] = IF g \in output THEN n ELSE file[g]
  BY <1>2, <1>5 DEF Flushed
<1>6. CASE Flush
  <2>1. PICK n \in 1..taken : Flushed(n)
    BY <1>6 DEF Flush
  <2>2. ~result /\ (InPlace => src \notin output)
    BY <1>1, <1>6 DEF Flush, CurrentFile, Target
  <2>3. n \in Int
    OBVIOUS
  <2> QED
    BY <1>1, <1>5, <1>6, <2>1, <2>2, <2>3 DEF Flush, FileEffect
<1>7. CASE Rename
  BY <1>1, <1>2, <1>7 DEF Rename, Go, Missing, FileEffect
<1>8. CASE RemoveTemporary
  <2>1. CASE file' = [file EXCEPT ![Temporary] = Missing] /\ refused' = refused
    BY <1>1, <1>2, <1>8, <2>1 DEF RemoveTemporary, Go, Missing, FileEffect
  <2>2. CASE Refuse("remove") /\ UNCHANGED file
    BY <1>2, <1>8, <2>2 DEF RemoveTemporary, Go, Refuse, FileEffect
  <2> QED
    BY <1>8, <2>1, <2>2 DEF RemoveTemporary
<1>9. CASE KeepOutput
  BY <1>2, <1>9 DEF KeepOutput, Go, CurrentFile, FileEffect
<1>10. CASE Close
  <2>1. fpc = "close" /\ InPlace /\ ~result => src \notin output
    BY <1>1 DEF CurrentFile
  <2>2. CASE UNCHANGED file
    BY <1>2, <1>10, <2>2 DEF Close, Go, Refuse, FileEffect
  <2>3. CASE Flushed(taken)
    BY <1>1, <1>2, <1>5, <1>10, <2>1, <2>3 DEF Close, Go, Refuse, FileEffect
  <2> QED
    BY <1>10, <2>2, <2>3 DEF Close
<1> QED
  BY <1>3, <1>4, <1>6, <1>7, <1>8, <1>9, <1>10 DEF FormatFile

(* A step of FormatFile, and where it leaves the current file.             *)
FileStepAt == FInv /\ pc = "file" /\ FormatFile /\ UNCHANGED commandVars

LEMMA FileStepPosition ==
  ASSUME FileStepAt
  PROVE  FormatTypeOK' /\ LoopPosition' /\ CurrentFile'
<1> USE DEF FileStepAt, FInv, commandVars, Call
<1>1. /\ src \in File /\ dst \in File /\ Temporary \in File
      /\ Target \in File /\ output \subseteq {dst, Temporary}
  BY CurrentPlaces
<1>2. FileEffect
  BY FileStepEffect
<1>3. /\ Temporary' = Temporary /\ Target' = Target /\ (InPlace' <=> InPlace)
      /\ UNCHANGED <<mode, src, dst, respelled, Destination(src), Writes>>
  BY <1>2 DEF FileEffect, Temporary, Target, InPlace, Destination, Writes
<1>4. /\ src \in listed \ (todo \cup failed) /\ dst = Destination(src)
      /\ respelled <=> package.output = "respelled"
      /\ okay => taken = Writes
      /\ bad => <<"write", src>> \in refused
  BY DEF CurrentFile
<1>5. /\ taken' \in Nat
      /\ bad' \in BOOLEAN /\ okay' \in BOOLEAN /\ result' \in BOOLEAN
      /\ output' \subseteq File /\ fpc' \in FilePc
  <2>1. /\ taken \in Nat
        /\ bad \in BOOLEAN /\ okay \in BOOLEAN /\ result \in BOOLEAN
        /\ output \subseteq File /\ fpc \in FilePc
    BY DEF FormatTypeOK
  <2>2. CASE Parse \/ Open \/ OpenRefused
    BY <1>1, <2>1, <2>2 DEF Parse, Open, OpenRefused, Go, FilePc
  <2>3. CASE Write
    BY <2>1, <2>3 DEF Write
  <2>4. CASE Flush \/ FlushRefused
    BY <2>1, <2>4 DEF Flush, FlushRefused
  <2>5. CASE Formatted \/ Rename \/ RenameRefused \/ RemoveTemporary \/ KeepOutput \/ Close
    BY <1>1, <2>1, <2>5
       DEF Formatted, Rename, RenameRefused, RemoveTemporary, KeepOutput, Close, Go, FilePc
  <2> QED
    BY <2>2, <2>3, <2>4, <2>5 DEF FormatFile
<1>6. FormatTypeOK'
  BY <1>2, <1>3, <1>5 DEF FormatTypeOK, FileEffect
<1>7. LoopPosition'
  BY DEF LoopPosition
<1>8. SUFFICES ASSUME TRUE
               PROVE  /\ okay' => taken' = Writes
                      /\ bad' => <<"write", src>> \in refused'
                      /\ fpc' \in {"parse", "open"} => output' = {}
                      /\ fpc' \in {"write", "finish"} => output' = {Target}
                      /\ fpc' \in {"parse", "open", "write", "finish"} => ~result'
                      /\ fpc' = "close" /\ ~InPlace => output' = {dst} /\ (result' <=> okay')
                      /\ fpc' = "close" /\ InPlace /\ result' => output' = {src} /\ okay'
                      /\ fpc' = "close" /\ InPlace /\ ~result' =>
                           \/ output' = {}
                           \/ /\ output' = {Temporary}
                              /\ <<"rename", src>> \in refused' \/ <<"remove", src>> \in refused'
                      /\ fpc' = "done" =>
                           output' = {} /\ (result' => WrittenOrRefused(src)')
  BY <1>3, <1>4, <1>6, <1>7 DEF CurrentFile
<1>9. CASE Parse \/ Open \/ OpenRefused
  BY <1>4, <1>9 DEF Parse, Open, OpenRefused, Go, CurrentFile
<1>10. CASE Write \/ Flush \/ FlushRefused
  <2>1. okay' => taken' = Writes
    <3>1. taken = Writes => ~(taken < Writes)
      BY FormatAssumption DEF Writes, CanonicalPieces
    <3>2. okay' = okay /\ (taken' = taken \/ taken < Writes)
      BY <1>10 DEF Write, Flush, FlushRefused
    <3> QED
      BY <1>4, <3>1, <3>2
  <2> QED
    BY <1>4, <1>10, <2>1 DEF Write, Flush, FlushRefused, Refuse, CurrentFile
<1>11. CASE Formatted
  BY <1>4, <1>11 DEF Formatted, Go, CurrentFile
<1>12. CASE Rename \/ RenameRefused \/ RemoveTemporary \/ KeepOutput
  <2>1. fpc = "finish" /\ fpc' = "close" /\ output = {Target} /\ ~result /\ okay' = okay
        /\ taken' = taken /\ bad' = bad /\ refused \subseteq refused'
    BY <1>2, <1>12 DEF Rename, RenameRefused, RemoveTemporary, KeepOutput, Go, CurrentFile, FileEffect
  <2>2. CASE InPlace
    BY <1>4, <1>12, <2>1, <2>2 DEF Rename, RenameRefused, RemoveTemporary, KeepOutput, Target, Refuse
  <2>3. CASE ~InPlace
    BY <1>4, <1>12, <2>1, <2>3 DEF Rename, RenameRefused, RemoveTemporary, KeepOutput, Target
  <2> QED
    BY <2>2, <2>3
<1>13. CASE Close
  <2>1. /\ fpc = "close" /\ fpc' = "done" /\ output' = {}
        /\ UNCHANGED <<taken, bad, okay, result>> /\ refused \subseteq refused'
    BY <1>2, <1>13 DEF Close, Go, FileEffect
  <2>2. result => WrittenOrRefused(src)'
    <3> SUFFICES ASSUME result, <<"write", src>> \notin refused'
                 PROVE  file'[Destination(src)] = Writes
      BY <1>3 DEF WrittenOrRefused
    <3>1. ~bad /\ output = {dst} /\ taken = Writes
      BY <1>1, <1>4, <2>1 DEF CurrentFile, InPlace
    <3>2. Flushed(taken)
      BY <1>13, <3>1 DEF Close, Refuse
    <3> QED
      BY <1>1, <1>4, <3>1, <3>2 DEF Flushed
  <2> QED
    BY <1>4, <2>1, <2>2
<1> QED
  BY <1>9, <1>10, <1>11, <1>12, <1>13 DEF FormatFile

(* The other files are as they were, and the temporary file goes.          *)
LEMMA FileStepFInv == ASSUME FileStepAt PROVE FInv'
<1> USE DEF FileStepAt, FInv, commandVars
<1>1. /\ src \in File /\ dst \in File /\ ~src.tmp /\ ~dst.tmp
      /\ Temporary \in File /\ Temporary.tmp /\ output \subseteq {dst, Temporary}
      /\ InPlace <=> package.output = "in place"
      /\ InPlace => src = dst /\ FileAt(Temporary.tree, Temporary.name) = src
  BY CurrentPlaces
<1>2. FileEffect
  BY FileStepEffect
<1>3. FormatTypeOK' /\ LoopPosition' /\ CurrentFile'
  BY FileStepPosition
<1>4. src \in listed \ (todo \cup failed) /\ dst = Destination(src)
  BY DEF CurrentFile
<1>5. FilesBehind'
  <2> SUFFICES ASSUME NEW f \in listed \ (todo \cup failed), f # src
               PROVE  WrittenOrRefused(f)'
    BY <1>2 DEF FilesBehind, FileEffect
  <2>1. Destination(f) \in File \ {dst, Temporary}
    BY <1>1, <1>4, DestinationIs, DestinationsDiffer
  <2>2. Destination(f)' = Destination(f)
    BY DEF Destination
  <2>3. WrittenOrRefused(f)
    BY DEF FilesBehind
  <2> QED
    BY <1>2, <2>1, <2>2, <2>3 DEF WrittenOrRefused, Writes, FileEffect
<1>6. FilesUntouched'
  <2> SUFFICES ASSUME NEW f \in SourceFile, file'[f] # Before
               PROVE  /\ f \in listed \ todo
                      /\ \/ /\ package.output = "in place" /\ f \notin failed
                            /\ f = src => result'
                         \/ /\ package.output = "respelled"
                            /\ f = src => fpc' \notin {"parse", "open"}
    BY <1>2 DEF FilesUntouched, SourceFile, FileEffect
  <2>1. f \in File /\ ~f.tmp /\ f.tree = "source"
    BY SourceFileIs
  <2>2. CASE f = dst
    <3>1. f = src /\ package.output \in {"in place", "respelled"}
      BY <1>4, <2>1, <2>2, DestinationIs
    <3>2. CASE package.output = "in place"
      <4>1. ~result' => file[src] # Before /\ ~result
        BY <1>1, <1>2, <3>1, <3>2 DEF FileEffect
      <4> QED
        BY <1>1, <1>4, <3>1, <3>2, <4>1 DEF FilesUntouched
    <3>3. CASE package.output = "respelled"
      <4>1. fpc' \in {"parse", "open"} => file[f] # Before /\ fpc = "parse"
        BY <1>2 DEF FileEffect
      <4> QED
        BY <1>4, <3>1, <3>3, <4>1 DEF FilesUntouched
    <3> QED
      BY <3>1, <3>2, <3>3
  <2>3. CASE f # dst
    <3>1. file[f] # Before
      BY <1>1, <1>2, <2>1, <2>3 DEF FileEffect
    <3>2. f = src /\ fpc' \in {"parse", "open"} => fpc = "parse"
      BY <1>2 DEF FileEffect
    <3> QED
      BY <1>2, <3>1, <3>2 DEF FilesUntouched, FileEffect
  <2> QED
    BY <2>2, <2>3
<1>7. TemporariesGone'
  <2> SUFFICES ASSUME NEW f \in File, f.tmp, file'[f] # Missing,
                      <<"rename", FileAt(f.tree, f.name)>> \notin refused',
                      <<"remove", FileAt(f.tree, f.name)>> \notin refused'
               PROVE  fpc' \in {"write", "finish"} /\ f \in output'
    BY DEF TemporariesGone, FileAt
  <2>1. <<"rename", FileAt(f.tree, f.name)>> \notin refused
        /\ <<"remove", FileAt(f.tree, f.name)>> \notin refused
    BY <1>2 DEF FileEffect
  <2>2. file[f] = Missing \/ (fpc \in {"write", "finish"} /\ f \in output)
    BY <2>1 DEF TemporariesGone
  <2>3. f = Temporary
    BY <1>1, <1>2, <2>2 DEF FileEffect
  <2>4. InPlace => /\ <<"rename", src>> \notin refused'
                   /\ <<"remove", src>> \notin refused'
    BY <1>1, <2>3
  <2>5. CASE Parse \/ OpenRefused
    BY <2>2, <2>5 DEF Parse, OpenRefused, Go, CurrentFile
  <2>6. CASE Open
    BY <1>1, <2>2, <2>3, <2>6 DEF Open, Go, CurrentFile, FormatTypeOK
  <2>7. CASE Write \/ Flush \/ FlushRefused \/ Formatted
    <3>1. fpc' \in {"write", "finish"} /\ output' = output
      BY <2>7 DEF Write, Flush, FlushRefused, Formatted, Go
    <3>2. f \notin output => file'[f] = file[f]
      BY <2>7 DEF Write, Flush, FlushRefused, Formatted, Flushed
    <3> QED
      BY <2>2, <3>1, <3>2
  <2>8. CASE Rename \/ RenameRefused \/ RemoveTemporary \/ KeepOutput
    <3>1. fpc = "finish" /\ output = {Target}
      BY <2>8 DEF Rename, RenameRefused, RemoveTemporary, KeepOutput, Go, CurrentFile
    <3>2. CASE KeepOutput
      BY <1>1, <2>2, <2>3, <3>1, <3>2 DEF KeepOutput, Target
    <3>3. CASE RenameRefused \/ RemoveTemporary
      BY <1>1, <2>3, <2>4, <3>3 DEF RenameRefused, RemoveTemporary, Refuse, FormatTypeOK
    <3>4. CASE Rename
      BY <1>1, <2>3, <3>4 DEF Rename, FormatTypeOK
    <3> QED
      BY <2>8, <3>2, <3>3, <3>4
  <2>9. CASE Close
    <3>1. fpc = "close" /\ file[f] = Missing
      BY <2>2, <2>9 DEF Close, Go
    <3>2. f \in output
      BY <2>9, <3>1 DEF Close, Flushed
    <3>3. refused \subseteq refused'
      BY <1>2 DEF FileEffect
    <3> QED
      BY <1>1, <2>3, <2>4, <3>1, <3>2, <3>3 DEF CurrentFile
  <2> QED
    BY <2>5, <2>6, <2>7, <2>8, <2>9 DEF FormatFile
<1>8. Accounted' /\ Reported'
  BY <1>2 DEF Accounted, SourceFile, Reported, LoopOver, FileEffect
<1>9. SourceKept'
  <2>1. Alive'
    BY <1>3, <1>5, <1>6 DEF Alive
  <2> QED
    BY <2>1, KeptWhileAlive, PTL
<1> QED
  BY <1>3, <1>5, <1>6, <1>7, <1>8, <1>9

-------------------------------------------------------------------------------
(* A kill leaves everything as it is.                                      *)
LEMMA KillFInv == ASSUME FInv, Kill PROVE FInv'
<1> USE DEF FInv, Kill, fileVars, Chosen, Loop
<1>1. FormatTypeOK' /\ LoopPosition' /\ CurrentFile'
  BY DEF FormatTypeOK, LoopPosition, CurrentFile
<1>2. FilesBehind'
  BY DEF FilesBehind, WrittenOrRefused, Destination, Writes
<1>3. FilesUntouched' /\ TemporariesGone' /\ Accounted' /\ Reported'
  BY DEF FilesUntouched, TemporariesGone, Accounted, Reported, LoopOver
<1>4. SourceKept'
  BY DEF SourceKept, WrittenOrRefused, Destination, Writes
<1> QED
  BY <1>1, <1>2, <1>3, <1>4

(* An exception ends the process; what is flushed on the way is at the     *)
(* destination, or in the temporary file.                                  *)
LEMMA FormatThrowsFInv == ASSUME FInv, FormatThrows PROVE FInv'
<1> USE DEF FInv, FormatThrows, Step, Chosen, Loop
<1>1. /\ pc = "file" /\ pc' = "killed" /\ fpc \in {"parse", "write"}
      /\ UNCHANGED <<mode, src, dst, respelled, output, taken, bad, refused, okay, result, fpc>>
      /\ UNCHANGED <<package, listed, todo, failed, status>>
      /\ file' = file \/ Flushed(taken)
  BY DEF Unwind, Call
<1>2. /\ src \in File /\ dst \in File /\ ~src.tmp
      /\ Temporary.tmp /\ output \subseteq {dst, Temporary}
      /\ InPlace <=> package.output = "in place"
      /\ fpc = "parse" => output = {}
      /\ fpc = "write" => output = {Target}
      /\ src \in listed \ (todo \cup failed) /\ dst = Destination(src)
  BY CurrentPlaces, <1>1 DEF CurrentFile
<1>3. file' \in [File -> Int] /\ \A f \in File \ output : file'[f] = file[f]
  BY <1>1 DEF Flushed, FormatTypeOK
<1>4. FormatTypeOK' /\ LoopPosition' /\ CurrentFile'
  BY <1>1, <1>3 DEF FormatTypeOK, LoopPosition, CurrentFile
<1>5. FilesBehind'
  <2> SUFFICES ASSUME NEW f \in listed \ (todo \cup failed), f # src
               PROVE  WrittenOrRefused(f)'
    BY <1>1 DEF FilesBehind
  <2>1. Destination(f) \in File \ output
    BY <1>2, DestinationIs, DestinationsDiffer
  <2>2. Destination(f)' = Destination(f) /\ Writes' = Writes
    BY <1>1 DEF Destination, Writes
  <2> QED
    BY <1>1, <1>3, <2>1, <2>2 DEF FilesBehind, WrittenOrRefused
<1>6. ASSUME NEW f \in SourceFile, f \in output
      PROVE  f = src /\ fpc = "write" /\ package.output = "respelled"
  <2>1. f \in File /\ ~f.tmp /\ f.tree = "source"
    BY SourceFileIs
  <2>2. fpc = "write" /\ f = dst /\ Target = dst
    BY <1>1, <1>2, <1>6, <2>1
  <2>3. f = src /\ package.output \in {"in place", "respelled"}
    BY <1>2, <2>1, <2>2, DestinationIs
  <2> QED
    BY <1>2, <2>1, <2>2, <2>3 DEF Target
<1>7. ASSUME NEW f \in SourceFile, f \notin output PROVE file'[f] = file[f]
  BY <1>3, <1>7, SourceFileIs
<1>8. FilesUntouched'
  <2> SUFFICES ASSUME NEW f \in SourceFile, file'[f] # Before
               PROVE  /\ f \in listed \ todo
                      /\ \/ package.output = "in place" /\ f \notin failed
                         \/ /\ package.output = "respelled"
                            /\ f = src => fpc \notin {"parse", "open"}
    BY <1>1 DEF FilesUntouched, SourceFile
  <2> QED
    BY <1>1, <1>2, <1>6, <1>7 DEF FilesUntouched
<1>9. SourceKept'
  <2> SUFFICES ASSUME NEW f \in SourceFile, file'[f] # Before
               PROVE  /\ f \in listed \ todo
                      /\ \/ /\ package.output = "in place" /\ f \notin failed
                            /\ WrittenOrRefused(f)' \/ (src = f /\ taken = Writes /\ fpc = "close")
                         \/ /\ package.output = "respelled"
                            /\ src = f => fpc \notin {"parse", "open"}
    BY <1>1 DEF SourceKept, SourceFile, Writes
  <2>1. CASE f \in output
    BY <1>2, <1>6, <2>1
  <2>2. CASE f \notin output
    <3>1. file'[f] = file[f]
      BY <1>7, <2>2
    <3>2. package.output = "in place" /\ WrittenOrRefused(f) => WrittenOrRefused(f)'
      BY <1>1, <3>1 DEF WrittenOrRefused, Destination, Writes
    <3> QED
      BY <3>1, <3>2 DEF SourceKept, SourceFile
  <2> QED
    BY <2>1, <2>2
<1>10. TemporariesGone' /\ Accounted' /\ Reported'
  BY <1>1 DEF TemporariesGone, Accounted, Reported, LoopOver
<1> QED
  BY <1>4, <1>5, <1>8, <1>9, <1>10

(* Arguments, output directory, settings and manifest, and the end.        *)
LEMMA PreparationFInv ==
  ASSUME FInv,
         \/ ParseArguments \/ CheckSource \/ MakeOutput \/ ReadConfig
         \/ ReadManifest \/ ReadManifestThrows \/ Finish
  PROVE  FInv'
<1> USE DEF Step, Return, fileVars, Chosen, Loop, Running
<1>1. /\ pc \notin {"file", "killed"} /\ pc' # "file"
      /\ pc' \in Running \cup {"idle", "done", "killed", "terminated"}
      /\ UNCHANGED <<file, src, dst, respelled, output, taken, bad, okay, result, fpc>>
      /\ UNCHANGED <<package, Loop, refused>>
      /\ mode' \in Mode /\ (mode' = mode \/ pc = "idle")
  BY DEF ParseArguments, CheckSource, MakeOutput, ReadConfig, ReadManifest,
         ReadManifestThrows, Finish, FInv, FormatTypeOK
<1>2. status' \in BOOLEAN
  BY DEF FInv, FormatTypeOK, ParseArguments, CheckSource, MakeOutput, ReadConfig, ReadManifest,
         ReadManifestThrows, Finish
<1>3. /\ pc' \in {"idle", "source", "output", "config", "list", "rewrite"} => listed = {}
      /\ pc' = "manifest" => todo = listed /\ failed = {}
      /\ mode' = mode \/ listed = {}
  BY <1>1 DEF FInv, LoopPosition, ParseArguments, CheckSource, MakeOutput, ReadConfig, ReadManifest,
         ReadManifestThrows, Finish
<1>4. pc' = "done" /\ listed # {} => todo = {} /\ (status' <=> failed = {})
  <2>1. CASE Finish
    BY <2>1 DEF Finish
  <2>2. CASE ParseArguments \/ CheckSource \/ MakeOutput \/ ReadConfig
    BY <2>2 DEF FInv, LoopPosition, ParseArguments, CheckSource, MakeOutput, ReadConfig
  <2>3. CASE ReadManifest \/ ReadManifestThrows
    BY <2>3 DEF ReadManifest, ReadManifestThrows
  <2> QED
    BY <2>1, <2>2, <2>3
<1> QED
  BY <1>1, <1>2, <1>3, <1>4, QuietStepFInv

(* config-check touches no other file than the manifest.                   *)
LEMMA RewriteFInv ==
  ASSUME FInv,
         \/ OpenManifest \/ OpenManifestRefused \/ RejectManifest
         \/ ConfigParseThrows \/ WriteManifest
  PROVE  FInv'
<1> USE DEF Step, Return, RefuseManifest, fileVars, FileWork, Chosen, Loop, Running
<1>1. /\ pc \in {"idle", "rewrite"} /\ pc' \in {"idle", "rewrite", "done", "terminated"}
      /\ UNCHANGED <<file, src, dst, respelled, output, taken, bad, okay, result, fpc>>
      /\ UNCHANGED <<mode, package, Loop>> /\ refused \subseteq refused'
  BY DEF OpenManifest, OpenManifestRefused, RejectManifest, ConfigParseThrows, WriteManifest
<1>2. status' \in BOOLEAN
  BY DEF FInv, FormatTypeOK, OpenManifest, OpenManifestRefused, RejectManifest,
         ConfigParseThrows, WriteManifest
<1>3. listed = {}
  BY <1>1 DEF FInv, LoopPosition
<1> QED
  BY <1>1, <1>2, <1>3, QuietStepFInv DEF FInv, FormatTypeOK

(* Everything that is listed is still to be formatted.                     *)
LEMMA ListFInv == ASSUME FInv, List PROVE FInv'
<1> USE DEF FInv, Step, Return, Running
<1>1. pc = "list" /\ listed = {} /\ todo = {} /\ failed = {}
  BY DEF List, LoopPosition
<1>2. CASE Return("list", FALSE) /\ UNCHANGED <<listed, todo, refused>>
  BY <1>1, <1>2, QuietStepFInv DEF List, FormatTypeOK, FileWork, Chosen, Loop
<1>3. CASE \E skipped \in SUBSET Sources :
             /\ skipped # {} => package.directory
             /\ Step("list", "manifest")
             /\ listed' = Sources \ skipped /\ todo' = listed'
             /\ refused' = refused \cup ({"stat"} \X skipped)
             /\ UNCHANGED status
  <2>1. PICK skipped \in SUBSET Sources :
             /\ skipped # {} => package.directory
             /\ pc' = "manifest"
             /\ listed' = Sources \ skipped /\ todo' = listed'
             /\ refused' = refused \cup ({"stat"} \X skipped)
             /\ UNCHANGED status
    BY <1>3
  <2>2. /\ UNCHANGED <<file, src, dst, respelled, output, taken, bad, okay, result, fpc>>
        /\ UNCHANGED <<mode, package, failed>>
    BY DEF List, FileWork, Chosen
  <2>3. ASSUME NEW f \in Sources
        PROVE  /\ f \in File /\ ~f.tmp
               /\ f.tree \in {"source", "output"}
               /\ f.tree = "output" => package.output = "inside"
    <3>1. CASE \E n \in Name : f = FileAt("source", n)
      BY <3>1 DEF FileAt, File, Tree
    <3>2. CASE package.output = "inside" /\ \E n \in Name : f = FileAt("output", n)
      BY <3>2 DEF FileAt, File, Tree
    <3> QED
      BY <3>1, <3>2 DEF Sources
  <2>4. FormatTypeOK' /\ CurrentFile'
    BY <2>1, <2>2 DEF FormatTypeOK, CurrentFile
  <2>5. LoopPosition'
    BY <1>1, <2>1, <2>2, <2>3 DEF LoopPosition
  <2>6. FilesBehind' /\ FilesUntouched' /\ TemporariesGone'
    BY <1>1, <2>1, <2>2 DEF FilesBehind, FilesUntouched, TemporariesGone
  <2>7. Accounted'
    <3> SUFFICES ASSUME NEW f \in SourceFile, f.name \in Nested => package.directory
                 PROVE  f \in listed' \/ <<"stat", f>> \in refused'
      BY <2>2 DEF Accounted, SourceFile
    <3>1. f \in Sources
      <4>1. PICK n \in Name : f = FileAt("source", n)
        BY DEF SourceFile
      <4>2. f.name = n
        BY <4>1 DEF FileAt
      <4> QED
        BY <4>1, <4>2 DEF Sources
    <3> QED
      BY <2>1, <3>1
  <2>8. Reported'
    BY <2>1 DEF Reported, LoopOver
  <2>9. SourceKept'
    <3>1. Alive'
      BY <2>1, <2>4, <2>5, <2>6 DEF Alive
    <3> QED
      BY <3>1, KeptWhileAlive, PTL
  <2> QED
    BY <2>4, <2>5, <2>6, <2>7, <2>8, <2>9
<1> QED
  BY <1>2, <1>3 DEF List

(* The next file becomes the current one.                                  *)
LEMMA NextFileFInv == ASSUME FInv, NextFile PROVE FInv'
<1> USE DEF FInv, Step, Running
<1>1. PICK f \in todo : FileBegin(f, Destination(f), package.output = "respelled")
                        /\ todo' = todo \ {f}
  BY DEF NextFile
<1>2. /\ pc = "loop" /\ pc' = "file" /\ fpc = "done" /\ fpc' = "parse" /\ output = {}
      /\ UNCHANGED <<mode, file, output, refused, package, listed, failed, status>>
      /\ src' = f /\ dst' = Destination(f) /\ respelled' = (package.output = "respelled")
      /\ taken' = 0 /\ bad' = FALSE /\ okay' = FALSE /\ result' = FALSE
  BY <1>1 DEF NextFile, FileBegin, Chosen, LoopPosition
<1>3. /\ f \in listed \ (todo' \cup failed) /\ f \in File
      /\ \A g \in listed \ (todo' \cup failed) : g = f \/ g \in listed \ (todo \cup failed)
  BY <1>1 DEF LoopPosition
<1>4. FormatTypeOK'
  <2>1. mode' \in Mode /\ taken' \in Nat
    BY <1>2 DEF FormatTypeOK
  <2>2. bad' \in BOOLEAN /\ okay' \in BOOLEAN /\ result' \in BOOLEAN /\ status' \in BOOLEAN
    BY <1>2 DEF FormatTypeOK
  <2>3. dst' \in File
    BY <1>2, <1>3, DestinationIs
  <2> QED
    BY <1>2, <1>3, <2>1, <2>2, <2>3 DEF FormatTypeOK, FilePc
<1>5. LoopPosition'
  BY <1>1, <1>2 DEF LoopPosition
<1>6. CurrentFile'
  BY <1>2, <1>3 DEF CurrentFile, Destination
<1>7. FilesBehind'
  BY <1>2, <1>3 DEF FilesBehind, WrittenOrRefused, Destination, Writes
<1>8. FilesUntouched'
  <2>1. ASSUME NEW g \in SourceFile, file[g] # Before
        PROVE  /\ g \in listed \ todo' /\ g # f
               /\ \/ package.output = "in place" /\ g \notin failed
                  \/ package.output = "respelled"
    BY <1>1, <1>2, <2>1 DEF FilesUntouched
  <2> QED
    BY <1>2, <2>1 DEF FilesUntouched, SourceFile
<1>9. TemporariesGone' /\ Accounted' /\ Reported'
  BY <1>2 DEF TemporariesGone, Accounted, Reported, LoopOver
<1>10. SourceKept'
  <2>1. Alive'
    BY <1>2, <1>4, <1>5, <1>6, <1>7, <1>8 DEF Alive
  <2> QED
    BY <2>1, KeptWhileAlive, PTL
<1> QED
  BY <1>4, <1>5, <1>6, <1>7, <1>8, <1>9, <1>10

(* The current file joins those behind: failed, or formatted.              *)
LEMMA FileDoneFInv == ASSUME FInv, FileDone PROVE FInv'
<1> USE DEF FInv, Step, Running
<1>1. /\ fpc = "done" /\ pc = "file" /\ pc' = "loop"
      /\ failed' = IF result THEN failed ELSE failed \cup {src}
      /\ UNCHANGED <<mode, file, src, dst, respelled, output, taken, bad, okay, result, fpc, refused>>
      /\ UNCHANGED <<package, listed, todo, status>>
  BY DEF FileDone, fileVars, Chosen
<1>2. /\ src \in listed \ (todo \cup failed) /\ output = {}
      /\ result => WrittenOrRefused(src)
  BY <1>1 DEF CurrentFile
<1>3. FormatTypeOK' /\ CurrentFile'
  BY <1>1 DEF FormatTypeOK, CurrentFile
<1>4. LoopPosition'
  <2>1. failed' \subseteq listed \ todo
    BY <1>1, <1>2 DEF LoopPosition
  <2> QED
    BY <1>1, <1>2, <2>1 DEF LoopPosition
<1>5. FilesBehind'
  <2> SUFFICES ASSUME NEW f \in listed \ (todo \cup failed') PROVE WrittenOrRefused(f)
    BY <1>1 DEF FilesBehind, WrittenOrRefused, Destination, Writes
  <2>1. f \in listed \ (todo \cup failed) /\ (f = src => result)
    BY <1>1
  <2> QED
    BY <1>1, <1>2, <2>1 DEF FilesBehind
<1>6. FilesUntouched'
  <2>1. ASSUME NEW f \in SourceFile, file[f] # Before
        PROVE  /\ f \in listed \ todo
               /\ \/ package.output = "in place" /\ f \notin failed'
                  \/ package.output = "respelled"
    BY <1>1, <2>1 DEF FilesUntouched
  <2> QED
    BY <1>1, <2>1 DEF FilesUntouched, SourceFile
<1>7. TemporariesGone' /\ Accounted' /\ Reported'
  BY <1>1 DEF TemporariesGone, Accounted, Reported, LoopOver
<1>8. SourceKept'
  <2>1. Alive'
    BY <1>1, <1>3, <1>4, <1>5, <1>6 DEF Alive
  <2> QED
    BY <2>1, KeptWhileAlive, PTL
<1> QED
  BY <1>3, <1>4, <1>5, <1>6, <1>7, <1>8

LEMMA StepFInv == FInv /\ [Next]_vars => FInv'
<1> SUFFICES ASSUME FInv, [Next]_vars PROVE FInv'
  OBVIOUS
<1>1. CASE Next
  <2>1. CASE FormatStep
    BY <2>1, FileStepFInv DEF FormatStep, FileStepAt
  <2> QED
    BY <1>1, <2>1, KillFInv, FormatThrowsFInv, PreparationFInv, RewriteFInv, ListFInv, NextFileFInv, FileDoneFInv
       DEF Next
<1>2. CASE UNCHANGED vars
  <2> USE DEF FInv, vars, fileVars, commandVars
  <2>1. FormatTypeOK' /\ LoopPosition' /\ CurrentFile'
    <3>1. FormatTypeOK' /\ LoopPosition'
      BY <1>2 DEF FormatTypeOK, LoopPosition
    <3>2. CurrentFile'
      BY <1>2 DEF CurrentFile, Target, Temporary, InPlace, WrittenOrRefused, Destination, Writes
    <3> QED
      BY <3>1, <3>2
  <2>2. FilesBehind' /\ FilesUntouched' /\ TemporariesGone'
    BY <1>2 DEF FilesBehind, WrittenOrRefused, Destination, Writes, FilesUntouched, TemporariesGone
  <2>3. Accounted' /\ Reported' /\ SourceKept'
    BY <1>2 DEF Accounted, Reported, LoopOver, SourceKept, WrittenOrRefused, Destination, Writes
  <2> QED
    BY <2>1, <2>2, <2>3
<1> QED
  BY <1>1, <1>2

-------------------------------------------------------------------------------
(* config-check: while it is at work the system has refused nothing, and   *)
(* the manifest it truncated was read and can be written; what ends the    *)
(* process is an accepted manifest.                                        *)
MInv ==
  /\ pc = "idle" => onDisk = "torn" \/ refused = {}
  /\ pc = "rewrite" =>
       /\ onDisk = "torn" /\ refused = {}
       /\ Verify(manifest) /\ ~Throws(manifest) /\ Verify(Rewritten)
  /\ pc = "terminated" => Verify(manifest) /\ Throws(manifest)

LEMMA InitMInv == Init => MInv
BY DEF Init, MInv

LEMMA StepMInv == MInv /\ [Next]_vars => MInv'
<1> SUFFICES ASSUME MInv, [Next]_vars PROVE MInv'
  OBVIOUS
<1> USE DEF MInv, Step, Return, fileVars, FileWork, Chosen, Loop
<1>1. CASE ParseArguments \/ CheckSource \/ MakeOutput \/ ReadConfig \/ List \/ ReadManifest
  BY <1>1 DEF ParseArguments, CheckSource, MakeOutput, ReadConfig, List, ReadManifest
<1>2. CASE NextFile \/ FormatStep \/ FormatThrows \/ FileDone \/ Finish \/ Kill
  BY <1>2 DEF NextFile, FormatStep, FormatThrows, FileDone, Finish, Kill, commandVars
<1>3. CASE ReadManifestThrows \/ ConfigParseThrows
  BY <1>3 DEF ReadManifestThrows, ConfigParseThrows, Accepted
<1>4. CASE OpenManifest
  BY <1>4 DEF OpenManifest, Rewritable, Accepted, Rewritten
<1>5. CASE OpenManifestRefused \/ RejectManifest
  BY <1>5 DEF OpenManifestRefused, RejectManifest
<1>6. CASE WriteManifest
  BY <1>6 DEF WriteManifest, RefuseManifest
<1>7. CASE UNCHANGED vars
  BY <1>7 DEF vars, commandVars, Rewritten
<1> QED
  BY <1>1, <1>2, <1>3, <1>4, <1>5, <1>6, <1>7 DEF Next

(* No step but a kill or a refusal loses the manifest.                     *)
LEMMA StepKeepsManifest ==
  ASSUME MInv, [Next]_vars, onDisk = "json" \/ pc = "rewrite"
  PROVE  \/ onDisk' = "json"
         \/ pc' \in {"rewrite", "killed"}
         \/ refused' # refused
<1> USE DEF MInv, Step, Return, fileVars, FileWork, Chosen, Loop
<1>1. CASE \/ ParseArguments \/ CheckSource \/ MakeOutput \/ ReadConfig \/ List \/ ReadManifest
           \/ ReadManifestThrows \/ ConfigParseThrows \/ RejectManifest
  BY <1>1 DEF ParseArguments, CheckSource, MakeOutput, ReadConfig, List, ReadManifest,
              ReadManifestThrows, ConfigParseThrows, RejectManifest
<1>2. CASE NextFile \/ FormatStep \/ FormatThrows \/ FileDone \/ Finish \/ Kill
  BY <1>2 DEF NextFile, FormatStep, FormatThrows, FileDone, Finish, Kill, commandVars
<1>3. CASE OpenManifest
  BY <1>3 DEF OpenManifest
<1>4. CASE OpenManifestRefused
  BY <1>4 DEF OpenManifestRefused, RefuseManifest, Rewritable, Accepted
<1>5. CASE WriteManifest
  BY <1>5 DEF WriteManifest, RefuseManifest
<1>6. CASE UNCHANGED vars
  BY <1>6 DEF vars, commandVars
<1> QED
  BY <1>1, <1>2, <1>3, <1>4, <1>5, <1>6 DEF Next

-------------------------------------------------------------------------------
(* A manifest that was accepted, converted and written                     *)

LEMMA SequenceOfSet ==
  ASSUME NEW S, IsFiniteSet(S)
  PROVE  SetToSeq(S) \in Seq(S) /\ ToSet(SetToSeq(S)) = S
<1> DEFINE n == Cardinality(S)
           s == SetToSeq(S)
<1>1. n \in Nat /\ ExistsBijection(1..n, S)
  BY FS_CardinalityType
<1>2. PICK f \in Bijection(1..n, S) : TRUE
  BY <1>1 DEF ExistsBijection
<1>3. f \in [1..n -> S] /\ IsInjective(f)
  BY <1>2 DEF Bijection, Injection, IsInjective
<1>4. s \in [1..n -> S] /\ IsInjective(s)
  BY <1>3 DEF SetToSeq
<1>5. s \in Injection(1..n, S) /\ s \in Seq(S)
  BY <1>1, <1>4 DEF Injection
<1>6. IsFiniteSet(1..n) /\ Cardinality(1..n) = n
  BY <1>1, FS_Interval
<1>7. s \in Surjection(1..n, S)
  <2> HIDE DEF s, n
  <2> QED
    BY <1>5, <1>6, FS_Injection DEF n
<1>8. ToSet(s) = S
  <2> HIDE DEF s, n
  <2> QED
    BY <1>4, <1>7 DEF Surjection, ToSet
<1> QED
  BY <1>5, <1>8

LEMMA ListIsFinite ==
  ASSUME NEW s, IsList(s)
  PROVE  IsFiniteSet(ToSet(s)) /\ \A x : Contains(s, x) <=> x \in ToSet(s)
<1> DEFINE T == ToSet(s)
<1>1. s \in Seq(T) /\ Len(s) \in Nat /\ DOMAIN s = 1..Len(s) /\ s \in [1..Len(s) -> T]
  BY DEF IsList
<1>2. \A x : Contains(s, x) <=> x \in T
  BY <1>1 DEF Contains, ToSet
<1>3. s \in Surjection(1..Len(s), T)
  BY <1>1 DEF Surjection, ToSet
<1>4. IsFiniteSet(1..Len(s))
  BY <1>1, FS_Interval
<1>5. IsFiniteSet(T)
  <2> HIDE DEF T
  <2> QED
    BY <1>3, <1>4, FS_Surjection
<1> QED
  BY <1>2, <1>5

LEMMA WrittenVersion ==
  ASSUME NEW v \in Seq(Nat), ValidateSemVersion(v), NEW w, w = EncodeVersion(ConvertVersion(v))
  PROVE  /\ w \in Seq(Nat) /\ ValidateSemVersion(w) /\ ~VersionThrows(w)
         /\ ConvertVersion(w) = ConvertVersion(v)
<1> DEFINE major == v[1] % Narrow
           minor == v[2] % Narrow
           patch == IF Len(v) = 3 THEN v[3] % Narrow ELSE 0
<1>1. Len(v) \in {2, 3} /\ v[1] \in Nat /\ v[2] \in Nat /\ (Len(v) = 3 => v[3] \in Nat)
  BY DEF ValidateSemVersion
<1>2. Narrow \in Nat \ {0} /\ Long \in Nat /\ Narrow <= Long
  BY ManifestAssumption
<1>3. major \in 0..(Narrow - 1) /\ minor \in 0..(Narrow - 1) /\ patch \in 0..(Narrow - 1)
  <2>1. \A x \in Nat : x % Narrow \in 0..(Narrow - 1)
    BY <1>2
  <2>2. 0 \in 0..(Narrow - 1)
    BY <1>2
  <2> QED
    BY <1>1, <2>1, <2>2
<1>4. \A x \in 0..(Narrow - 1) : x \in Nat /\ x % Narrow = x /\ ~(x >= Long)
  BY <1>2
<1>5. ConvertVersion(v) = [major |-> major, minor |-> minor, patch |-> patch]
  BY DEF ConvertVersion
<1> HIDE DEF major, minor, patch
<1>6. w = <<major, minor>> \o (IF patch = 0 THEN <<>> ELSE <<patch>>)
  BY <1>5 DEF EncodeVersion
<1>7. CASE patch = 0
  <2>1. w = <<major, minor>>
    BY <1>3, <1>6, <1>7
  <2>2. w \in Seq(Nat) /\ Len(w) = 2 /\ w[1] = major /\ w[2] = minor
    BY <1>3, <1>4, <2>1
  <2>3. ValidateSemVersion(w) /\ ~VersionThrows(w)
    BY <1>3, <1>4, <2>2 DEF ValidateSemVersion, VersionThrows
  <2>4. ConvertVersion(w) = [major |-> major, minor |-> minor, patch |-> 0]
    <3>1. Len(w) # 3 /\ w[1] % Narrow = major /\ w[2] % Narrow = minor
      BY <1>3, <1>4, <2>2
    <3> QED
      BY <3>1 DEF ConvertVersion
  <2> QED
    BY <1>5, <1>7, <2>2, <2>3, <2>4
<1>8. CASE patch # 0
  <2>1. w = <<major, minor>> \o <<patch>>
    BY <1>6, <1>8
  <2>2. /\ w \in Seq(Nat) /\ Len(w) = 3
        /\ w[1] = major /\ w[2] = minor /\ w[3] = patch
    BY <1>3, <1>4, <2>1
  <2>3. ValidateSemVersion(w) /\ ~VersionThrows(w)
    BY <1>3, <1>4, <2>2 DEF ValidateSemVersion, VersionThrows
  <2>4. ConvertVersion(w) = [major |-> major, minor |-> minor, patch |-> patch]
    BY <1>3, <1>4, <2>2 DEF ConvertVersion
  <2> QED
    BY <1>5, <2>2, <2>3, <2>4
<1> QED
  BY <1>7, <1>8

LEMMA WrittenSwitch ==
  ASSUME NEW s, ValidateSwitch(s), \A stage \in Stage : IsList(s[stage]),
         NEW w, w = EncodeSwitch(ConvertSwitch(s))
  PROVE  /\ DOMAIN w = Stage /\ \A stage \in Stage : IsList(w[stage])
         /\ ValidateSwitch(w) /\ ConvertSwitch(w) = ConvertSwitch(s)
<1>1. DOMAIN w = Stage /\ \A stage \in Stage : w[stage] = SetToSeq(ToSet(s[stage]))
  BY DEF EncodeSwitch, ConvertSwitch
<1>2. ASSUME NEW stage \in Stage
      PROVE  /\ IsList(w[stage]) /\ ToSet(w[stage]) = ToSet(s[stage])
             /\ ~Contains(w[stage], Bad)
  <2>1. IsFiniteSet(ToSet(s[stage])) /\ Bad \notin ToSet(s[stage])
    BY <1>2, ListIsFinite DEF ValidateSwitch
  <2>2. w[stage] \in Seq(ToSet(s[stage])) /\ ToSet(w[stage]) = ToSet(s[stage])
    BY <1>1, <2>1, SequenceOfSet
  <2>3. IsList(w[stage])
    BY <2>2 DEF IsList
  <2>4. ~Contains(w[stage], Bad)
    BY <2>1, <2>2, <2>3, ListIsFinite
  <2> QED
    BY <2>2, <2>3, <2>4
<1> QED
  BY <1>1, <1>2 DEF ValidateSwitch, ConvertSwitch

LEMMA WrittenContact ==
  ASSUME NEW c, ValidateContact(c), NEW w, w = EncodeContact(ConvertContact(c))
  PROVE  ValidateContact(w) /\ ConvertContact(w) = ConvertContact(c)
<1>1. IsFiniteSet(ToSet(c.roles))
  <2>1. IsFiniteSet(Role)
    <3>1. Role = ((({} \cup {"owner"}) \cup {"contributor"}) \cup {"maintainer"}) \cup {"support"}
      BY DEF Role
    <3> QED
      BY ONLY <3>1, FS_EmptySet, FS_AddElement
  <2>2. ToSet(c.roles) \subseteq Role
    BY DEF ValidateContact
  <2> QED
    BY <2>1, <2>2, FS_Subset
<1>2. ToSet(SetToSeq(ToSet(c.roles))) = ToSet(c.roles)
  BY <1>1, SequenceOfSet
<1>3. /\ w.name = c.name /\ w.email = c.email /\ w.phone = c.phone
      /\ w.roles = SetToSeq(ToSet(c.roles))
  BY DEF EncodeContact, ConvertContact
<1> QED
  BY <1>2, <1>3 DEF ValidateContact, ConvertContact

LEMMA WrittenDependency ==
  ASSUME NEW d, ValidateDependency(d), d.version \in Seq(Nat),
         NEW w, w = EncodeDependency(ConvertDependency(d))
  PROVE  /\ ValidateDependency(w) /\ ConvertDependency(w) = ConvertDependency(d)
         /\ w.version \in Seq(Nat) /\ ~VersionThrows(w.version)
<1>1. w.uuid = d.uuid /\ w.version = EncodeVersion(ConvertVersion(d.version))
  BY DEF EncodeDependency, ConvertDependency
<1>2. ValidateUUID(d.uuid) /\ ValidateSemVersion(d.version)
  BY DEF ValidateDependency
<1>3. /\ w.version \in Seq(Nat) /\ ValidateSemVersion(w.version) /\ ~VersionThrows(w.version)
      /\ ConvertVersion(w.version) = ConvertVersion(d.version)
  BY <1>1, <1>2, WrittenVersion
<1> QED
  BY <1>1, <1>2, <1>3 DEF ValidateDependency, ConvertDependency

(* What is written of an accepted document is accepted, can be read, and   *)
(* reads as the document, but for the profiles that are not required.      *)
LEMMA WrittenManifest ==
  ASSUME NEW j, IsDocument(j), Verify(j), NEW w, w = ToJson(ObjectToInstance(j))
  PROVE  /\ IsDocument(w) /\ Verify(w) /\ ~Throws(w)
         /\ ObjectToInstance(w) = Required(ObjectToInstance(j))
<1> DEFINE m == ObjectToInstance(j)
<1>1. /\ w.format = <<1, 0>> /\ w.name = j.name /\ w.description = j.description
      /\ w.license = j.license /\ w.category = j.category /\ w.platforms = j.platforms
      /\ w.blockchain = <<>>
  BY DEF ToJson, ObjectToInstance
<1>2. /\ w.version \in Seq(Nat) /\ ValidateSemVersion(w.version) /\ ~VersionThrows(w.version)
      /\ ConvertVersion(w.version) = ConvertVersion(j.version)
  <2>1. j.version \in Seq(Nat) /\ ValidateSemVersion(j.version)
    BY DEF IsDocument, Verify
  <2>2. w.version = EncodeVersion(ConvertVersion(j.version))
    BY DEF ToJson, ObjectToInstance
  <2> QED
    BY <2>1, <2>2, WrittenVersion
<1>3. /\ DOMAIN w.contacts = DOMAIN j.contacts
      /\ \A k \in DOMAIN j.contacts :
           ValidateContact(w.contacts[k]) /\ ConvertContact(w.contacts[k]) = ConvertContact(j.contacts[k])
  <2>1. /\ DOMAIN w.contacts = DOMAIN j.contacts
        /\ \A k \in DOMAIN j.contacts : w.contacts[k] = EncodeContact(ConvertContact(j.contacts[k]))
    BY DEF ToJson, ObjectToInstance
  <2>2. \A k \in DOMAIN j.contacts : ValidateContact(j.contacts[k])
    BY DEF Verify
  <2> QED
    BY <2>1, <2>2, WrittenContact
<1>4. /\ DOMAIN w.dependencies = DOMAIN j.dependencies
      /\ \A k \in DOMAIN j.dependencies :
           /\ ValidateDependency(w.dependencies[k])
           /\ ConvertDependency(w.dependencies[k]) = ConvertDependency(j.dependencies[k])
           /\ w.dependencies[k].version \in Seq(Nat) /\ ~VersionThrows(w.dependencies[k].version)
  <2>1. /\ DOMAIN w.dependencies = DOMAIN j.dependencies
        /\ \A k \in DOMAIN j.dependencies :
             w.dependencies[k] = EncodeDependency(ConvertDependency(j.dependencies[k]))
    BY DEF ToJson, ObjectToInstance
  <2>2. \A k \in DOMAIN j.dependencies :
          ValidateDependency(j.dependencies[k]) /\ j.dependencies[k].version \in Seq(Nat)
    BY DEF Verify, IsDocument
  <2> QED
    BY <2>1, <2>2, WrittenDependency
<1>5. /\ RequiredProfile \subseteq DOMAIN j.optimization.profiles
      /\ DOMAIN w.optimization.profiles = RequiredProfile
      /\ \A p \in RequiredProfile :
           /\ DOMAIN w.optimization.profiles[p] = Stage
           /\ \A stage \in Stage : IsList(w.optimization.profiles[p][stage])
           /\ ValidateSwitch(w.optimization.profiles[p])
           /\ ConvertSwitch(w.optimization.profiles[p]) = ConvertSwitch(j.optimization.profiles[p])
  <2>1. ValidateOptimization(j.optimization)
    BY DEF Verify
  <2>2. RequiredProfile \subseteq DOMAIN j.optimization.profiles
    BY <2>1 DEF ValidateOptimization
  <2>3. m.profiles = [p \in DOMAIN j.optimization.profiles |-> ConvertSwitch(j.optimization.profiles[p])]
    BY DEF ObjectToInstance
  <2>4. w.optimization.profiles = [p \in RequiredProfile |-> EncodeSwitch(m.profiles[p])]
    <3> HIDE DEF m
    <3> QED
      BY DEF ToJson, m
  <2>5. ASSUME NEW p \in RequiredProfile
        PROVE  /\ ValidateSwitch(j.optimization.profiles[p])
               /\ \A stage \in Stage : IsList(j.optimization.profiles[p][stage])
               /\ w.optimization.profiles[p] = EncodeSwitch(ConvertSwitch(j.optimization.profiles[p]))
    <3>1. ValidateSwitch(j.optimization.profiles[p])
      BY <2>1 DEF ValidateOptimization
    <3>2. \A stage \in Stage : IsList(j.optimization.profiles[p][stage])
      BY <2>2, <3>1 DEF ValidateSwitch, IsDocument
    <3>3. w.optimization.profiles[p] = EncodeSwitch(ConvertSwitch(j.optimization.profiles[p]))
      BY <2>2, <2>3, <2>4
    <3> QED
      BY <3>1, <3>2, <3>3
  <2>6. ASSUME NEW p \in RequiredProfile
        PROVE  /\ DOMAIN w.optimization.profiles[p] = Stage
               /\ \A stage \in Stage : IsList(w.optimization.profiles[p][stage])
               /\ ValidateSwitch(w.optimization.profiles[p])
               /\ ConvertSwitch(w.optimization.profiles[p]) = ConvertSwitch(j.optimization.profiles[p])
    BY <2>5, WrittenSwitch
  <2> QED
    BY <2>2, <2>4, <2>6
<1>6. LET n == w.optimization.requirements
      IN  /\ DOMAIN n = Requirement
          /\ \A r \in Requirement :
               n[r] \in Nat /\ n[r] % Narrow = j.optimization.requirements[r] % Narrow
  <2>1. \A r \in Requirement : j.optimization.requirements[r] \in Nat
    BY DEF IsDocument, Verify, ValidateOptimization
  <2>2. w.optimization.requirements = [r \in Requirement |-> j.optimization.requirements[r] % Narrow]
    BY DEF ToJson, ObjectToInstance
  <2>3. \A x \in Nat : x % Narrow \in Nat /\ (x % Narrow) % Narrow = x % Narrow
    <3>1. Narrow \in Nat \ {0}
      BY ManifestAssumption
    <3>2. \A x \in Nat : x % Narrow \in 0..(Narrow - 1)
      BY <3>1
    <3>3. \A x \in 0..(Narrow - 1) : x \in Nat /\ x % Narrow = x
      BY <3>1
    <3> QED
      BY <3>2, <3>3
  <2> QED
    BY <2>1, <2>2, <2>3
<1>7. IsDocument(w)
  BY <1>2, <1>4, <1>5, <1>6 DEF IsDocument
<1>8. Verify(w)
  <2>1. /\ ValidateSemVersion(w.format) /\ w.format[1] = 1
        /\ \A k \in DOMAIN w.blockchain : ValidateBlock(w.blockchain[k])
    BY <1>1 DEF ValidateSemVersion
  <2>2. ValidateOptimization(w.optimization)
    BY <1>5, <1>6 DEF ValidateOptimization
  <2> QED
    BY <1>1, <1>2, <1>3, <1>4, <2>1, <2>2 DEF Verify
<1>9. ~Throws(w)
  BY <1>2, <1>4, <1>5 DEF Throws
<1>10. ObjectToInstance(w) = Required(m)
  <2> DEFINE n == ObjectToInstance(w)
  <2>1. /\ n.name = m.name /\ n.description = m.description /\ n.license = m.license
        /\ n.category = m.category /\ n.version = m.version /\ n.platforms = m.platforms
    BY <1>1, <1>2 DEF ObjectToInstance
  <2>2. n.contacts = m.contacts
    BY <1>3 DEF ObjectToInstance
  <2>3. n.dependencies = m.dependencies
    BY <1>4 DEF ObjectToInstance
  <2>4. n.requirements = m.requirements
    BY <1>6 DEF ObjectToInstance
  <2>5. n.profiles = [p \in RequiredProfile |-> m.profiles[p]]
    BY <1>5 DEF ObjectToInstance
  <2>6. ASSUME NEW o, NEW q, NEW x, NEW y, o = ObjectToInstance(x), q = ObjectToInstance(y),
               \A f \in {"name", "description", "license", "category", "version", "contacts",
                         "platforms", "requirements", "dependencies"} : o[f] = q[f],
               o.profiles = [p \in RequiredProfile |-> q.profiles[p]]
        PROVE  o = Required(q)
    <3> DEFINE Field == {"name", "description", "license", "category", "version", "contacts",
                         "platforms", "profiles", "requirements", "dependencies"}
               Kept == [f \in Field |->
                          IF f = "profiles" THEN [p \in RequiredProfile |-> q.profiles[p]]
                          ELSE q[f]]
    <3>1. o = [f \in Field |-> o[f]]
      BY <2>6 DEF ObjectToInstance
    <3>2. q = [f \in Field |-> q[f]]
      BY <2>6 DEF ObjectToInstance
    <3>3. Required(q) = Kept
      BY <3>2 DEF Required
    <3>4. \A f \in Field : o[f] = Kept[f]
      BY <2>6
    <3> QED
      BY <3>1, <3>3, <3>4
  <2> QED
    <3> HIDE DEF n, m
    <3>1. \A f \in {"name", "description", "license", "category", "version", "contacts",
                    "platforms", "requirements", "dependencies"} : n[f] = m[f]
      BY <2>1, <2>2, <2>3, <2>4
    <3> QED
      BY <2>5, <2>6, <3>1 DEF n, m
<1> QED
  BY <1>7, <1>8, <1>9, <1>10

(* The first document is one, and so is each that config-check writes over *)
(* it: the new one reads as the one before.                                *)
DocumentInv == IsDocument(manifest)

LEMMA InitDocumentInv == Init => DocumentInv
BY PackagesAssumption DEF Init, DocumentInv

LEMMA StepRewrites ==
  ASSUME MInv, DocumentInv, [Next]_vars
  PROVE  /\ DocumentInv'
         /\ manifest' # manifest =>
              /\ Verify(manifest') /\ ~Throws(manifest')
              /\ ObjectToInstance(manifest') = Required(ObjectToInstance(manifest))
<1>1. CASE WriteManifest /\ manifest' = Rewritten
  <2>1. IsDocument(manifest) /\ Verify(manifest)
    BY <1>1 DEF MInv, DocumentInv, WriteManifest, Step
  <2>2. manifest' = ToJson(ObjectToInstance(manifest))
    BY <1>1 DEF Rewritten
  <2> QED
    BY <2>1, <2>2, WrittenManifest DEF DocumentInv
<1>2. CASE UNCHANGED manifest
  BY <1>2 DEF DocumentInv
<1>3. ASSUME Next, ~(WriteManifest /\ manifest' = Rewritten)
      PROVE  UNCHANGED manifest
  <2> USE DEF Chosen, fileVars, commandVars
  <2>1. CASE ParseArguments \/ CheckSource \/ MakeOutput \/ ReadConfig \/ List \/ ReadManifest
    BY <2>1 DEF ParseArguments, CheckSource, MakeOutput, ReadConfig, List, ReadManifest
  <2>2. CASE NextFile \/ FormatStep \/ FormatThrows \/ FileDone \/ Finish \/ Kill
    BY <2>2 DEF NextFile, FormatStep, FormatThrows, FileDone, Finish, Kill
  <2>3. CASE ReadManifestThrows \/ ConfigParseThrows \/ RejectManifest
    BY <2>3 DEF ReadManifestThrows, ConfigParseThrows, RejectManifest
  <2>4. CASE OpenManifest \/ OpenManifestRefused
    BY <2>4 DEF OpenManifest, OpenManifestRefused
  <2>5. CASE WriteManifest
    BY <1>3, <2>5 DEF WriteManifest
  <2> QED
    BY <1>3, <2>1, <2>2, <2>3, <2>4, <2>5 DEF Next
<1>4. CASE UNCHANGED vars
  BY <1>2, <1>4 DEF vars, commandVars
<1> QED
  BY <1>1, <1>2, <1>3, <1>4

-------------------------------------------------------------------------------
THEOREM FormatInvariance == Spec => []FInv
<1> QED
  BY InitFInv, StepFInv, PTL DEF Spec

(* Wherever the format command fails, is killed or ended by an exception,  *)
(* a source file still holds its text, unless the loop has replaced it in  *)
(* place by all that the mode writes, be that nothing, or opened it under  *)
(* another spelling (format/core/Run.cc:116-281).                          *)
THEOREM SourcesAreKept == Spec => []SourceKept
<1>1. FInv => SourceKept
  BY DEF FInv
<1> QED
  BY <1>1, FormatInvariance, PTL

(* A command that ran to its end leaves no temporary file, unless the      *)
(* system refused to rename or to remove it.                               *)
THEOREM NothingIsLittered == Spec => []NoLitter
<1>1. FInv => NoLitter
  BY DEF FInv, TemporariesGone, NoLitter
<1> QED
  BY <1>1, FormatInvariance, PTL

(* The loop reaches every file and tells of each failure; what it does not *)
(* tell of has at its destination all that the mode writes, be that        *)
(* nothing, or was refused by the system (format/core/Run.cc:283-320).     *)
THEOREM FilesAreAccounted == Spec => []EveryFileAccounted
<1>1. FInv => EveryFileAccounted
  <2> SUFFICES ASSUME FInv, LoopOver PROVE EveryFileAccounted
    BY DEF EveryFileAccounted
  <2>1. todo = {} /\ (status <=> failed = {}) /\ pc = "done" /\ listed # {}
    BY DEF FInv, Reported, LoopOver
  <2> SUFFICES ASSUME NEW f \in listed \cup SourceFile
               PROVE  \/ f.name \in Nested /\ ~package.directory
                      \/ f \in failed
                      \/ <<"stat", f>> \in refused
                      \/ WrittenOrRefused(f)
    BY <2>1 DEF EveryFileAccounted, SourceFile
  <2>2. CASE f \in listed
    BY <2>1, <2>2 DEF FInv, FilesBehind
  <2>3. CASE f \notin listed
    BY <2>1, <2>3 DEF FInv, Accounted
  <2> QED
    BY <2>2, <2>3
<1> QED
  BY <1>1, FormatInvariance, PTL

(* An accepted manifest ends no command, but for the values that           *)
(* Manifest::FromJson converts without having looked at them               *)
(* (core/package/Manifest.cc).                                             *)
THEOREM VerifiedManifestsAreRead == Spec => []VerifiedIsRead
<1>1. MInv => VerifiedIsRead
  BY DEF MInv, VerifiedIsRead, Verify, Throws, ValidateOptimization
<1> QED
  BY <1>1, InitMInv, StepMInv, PTL DEF Spec

(* A manifest that was there is there and whole when a command has         *)
(* returned, or was lost to a kill or a refusal of the system              *)
(* (impl/ConfigParse.cc).                                                  *)
THEOREM ManifestIsKept == Spec => ManifestKept
<1>1. MInv /\ [Next]_vars =>
        [onDisk = "json" \/ pc = "rewrite" =>
           \/ onDisk' = "json"
           \/ pc' \in {"rewrite", "killed"}
           \/ refused' # refused]_vars
  BY StepKeepsManifest
<1> QED
  BY <1>1, InitMInv, StepMInv, PTL DEF Spec, ManifestKept

(* What config-check writes over a manifest is a manifest again, and reads *)
(* as the one that was there, but for the profiles that are not required   *)
(* (impl/ConfigParse.cc, core/package/Manifest.cc).                        *)
THEOREM RewritesKeepTheManifest == Spec => RewriteKeepsManifest
<1>1. Init => MInv /\ DocumentInv
  BY InitMInv, InitDocumentInv
<1>2. MInv /\ DocumentInv /\ [Next]_vars => MInv' /\ DocumentInv'
  BY StepMInv, StepRewrites
<1>3. MInv /\ DocumentInv /\ [Next]_vars =>
        [manifest' # manifest =>
           /\ Verify(manifest') /\ ~Throws(manifest')
           /\ ObjectToInstance(manifest') = Required(ObjectToInstance(manifest))]_vars
  BY StepRewrites
<1> QED
  BY <1>1, <1>2, <1>3, PTL DEF Spec, RewriteKeepsManifest
=============================================================================
