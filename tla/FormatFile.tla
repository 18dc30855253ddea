----------------------------- MODULE FormatFile -----------------------------
(***************************************************************************)
(* The format command on one file: FormatFile of format/core/Run.cc, from  *)
(* the source's path to the destination's.  PackageCommands calls it for   *)
(* one file after the other.                                               *)
(*                                                                         *)
(* A file is missing, holds the text it had before, or holds the first n   *)
(* pieces of the formatted text; n = Pieces is all of it, n = 0 an empty   *)
(* file.  Pieces that the output stream has taken reach the file when it   *)
(* is flushed, at the latest when it is closed; those it still holds die   *)
(* with the process.                                                       *)
(***************************************************************************)
EXTENDS Integers

CONSTANTS
    Pieces,     \* number of writes that make up the formatted text: none for
                \*   a source of which nothing is left
    Name,       \* the source files, by their paths below the source directory
    Nested      \* those that are in a directory below it

ASSUME FormatAssumption ==
    Pieces \in Nat /\ Nested \subseteq Name

\* The source directory, the output directory, and the output directory again
\* for what is found in it when it is below the source directory.
Tree == {"source", "output", "output of output"}

\* A file, or the temporary file beside it.
File == [tree : Tree, name : Name, tmp : BOOLEAN]

FileAt(tree, name) == [tree |-> tree, name |-> name, tmp |-> FALSE]

Directory(f) == <<f.tree, f.name \in Nested>>

Missing == -2
Before == -1

\* FormatMode, of which ParseArguments chooses one.
Mode == {"std", "minify", "deflate"}

VARIABLES
    mode,       \* m_mode of the options
    file,       \* what is found in each file
    dirs,       \* the directories that exist
    src,        \* the file to format
    dst,        \* where its text goes
    respelled,  \* the paths of src and dst are not written alike
    output,     \* the file the open output stream writes: none or one
    taken,      \* pieces the output stream has taken
    bad,        \* the output stream has met an error
    refused,    \* history: writes, renames and the like that the system refused
    okay,       \* the formatter finished without an error
    result,     \* what FormatFile returns
    fpc

fileVars == <<mode, file, dirs, src, dst, respelled, output, taken, bad, refused, okay, result, fpc>>

\* Before the first file.
FileIdle(f) ==
    /\ mode = "std" /\ src = f /\ dst = f /\ respelled = FALSE
    /\ output = {} /\ taken = 0 /\ bad = FALSE /\ okay = FALSE /\ result = FALSE
    /\ fpc = "done"

\* The call.
FileBegin(from, to, differently) ==
    /\ fpc = "done" /\ fpc' = "parse"
    /\ src' = from /\ dst' = to /\ respelled' = differently
    /\ taken' = 0 /\ bad' = FALSE /\ okay' = FALSE /\ result' = FALSE
    /\ UNCHANGED <<mode, file, dirs, output, refused>>

Go(from, to) == fpc = from /\ fpc' = to
Refuse(what) == refused' = refused \cup {<<what, src>>}

Call == <<mode, dirs, src, dst, respelled>>

InPlace == src = dst /\ ~respelled

Temporary == [tree |-> dst.tree, name |-> dst.name, tmp |-> TRUE]

TargetInPlace == dst

\* Where the output goes: the paths are compared as they are written.
Target == IF InPlace THEN Temporary ELSE dst

\* The visitors of the canonical format have no bodies yet: what they write of
\* any source is nothing, and they report no error.
CanonicalPieces == 0

\* How much the chosen mode writes.
Writes == IF mode = "std" THEN CanonicalPieces ELSE Pieces
-----------------------------------------------------------------------------
\* A source that cannot be read or parsed is an error.
Parse ==
    /\ Go("parse", "open") \/ Go("parse", "done")
    /\ UNCHANGED <<Call, file, output, taken, bad, refused, okay, result>>

\* std::ios::trunc, or the new temporary file.  Nobody makes its directory.
Open ==
    /\ Go("open", "write")
    /\ Directory(Target) \in dirs
    /\ output' = {Target}
    /\ file' = [file EXCEPT ![Target] = 0]
    /\ UNCHANGED <<Call, taken, bad, refused, okay, result>>

OpenRefused ==
    /\ Go("open", "done")
    /\ UNCHANGED <<Call, file, output, taken, bad, refused, okay, result>>

Write ==
    /\ fpc = "write" /\ taken < Writes
    /\ taken' = taken + 1
    /\ UNCHANGED <<Call, file, output, bad, refused, okay, result, fpc>>

\* The stream's buffer may be handed to the file at any time.
Flushed(n) == file' = [f \in File |-> IF f \in output THEN n ELSE file[f]]

Flush ==
    /\ fpc = "write" /\ ~bad
    /\ \E n \in 1..taken : (\A f \in output : n > file[f]) /\ Flushed(n)
    /\ UNCHANGED <<Call, output, taken, bad, refused, okay, result, fpc>>

FlushRefused ==
    /\ fpc = "write" /\ ~bad
    /\ \E f \in output : file[f] < taken
    /\ bad' = TRUE /\ Refuse("write")
    /\ UNCHANGED <<Call, file, output, taken, okay, result, fpc>>

\* The text is written, or could not be deflated, which is found before any of
\* it is written; the stream is not asked.
Formatted ==
    /\ Go("write", "finish")
    /\ \/ taken = Writes /\ okay' = TRUE
       \/ mode = "deflate" /\ taken = 0 /\ okay' = FALSE
    /\ UNCHANGED <<Call, file, output, taken, bad, refused, result>>

\* An exception leaves the parser or a visitor and ends the process, for nobody
\* catches it below Interpreter::Execute, which is noexcept.  Whether the stream
\* is destroyed on the way is left open by the language.
Unwind ==
    /\ fpc \in {"parse", "write"}
    /\ UNCHANGED file \/ (~bad /\ Flushed(taken))
    /\ UNCHANGED <<Call, output, taken, bad, refused, okay, result, fpc>>

\* In place, the temporary file takes the place of the source.  The stream is
\* still open.
Rename ==
    /\ InPlace /\ okay
    /\ Go("finish", "close")
    /\ file' = [file EXCEPT ![src] = file[Temporary], ![Temporary] = Missing]
    /\ output' = {src} /\ result' = TRUE
    /\ UNCHANGED <<Call, taken, bad, refused, okay>>

RenameRefused ==
    /\ InPlace /\ okay
    /\ Go("finish", "close")
    /\ Refuse("rename")
    /\ UNCHANGED <<Call, file, output, taken, bad, okay, result>>

RemoveNothing ==
    /\ InPlace /\ ~okay
    /\ Go("finish", "close")
    /\ UNCHANGED <<Call, file, output, taken, bad, refused, okay, result>>

RemoveTemporary ==
    /\ InPlace /\ ~okay
    /\ Go("finish", "close")
    /\ \/ /\ file' = [file EXCEPT ![Temporary] = Missing] /\ output' = {}
          /\ UNCHANGED refused
       \/ Refuse("remove") /\ UNCHANGED <<file, output>>
    /\ UNCHANGED <<Call, taken, bad, okay, result>>

KeepOutput ==
    /\ ~InPlace
    /\ Go("finish", "close")
    /\ result' = okay
    /\ UNCHANGED <<Call, file, output, taken, bad, refused, okay>>

\* The destructor of the stream, after the result was decided.
Close ==
    /\ Go("close", "done")
    /\ IF bad \/ output = {} THEN UNCHANGED <<file, refused>>
       ELSE \/ Flushed(taken) /\ UNCHANGED refused
            \/ /\ \E f \in output : file[f] < taken
               /\ Refuse("write") /\ UNCHANGED file
    /\ output' = {}
    /\ UNCHANGED <<Call, taken, bad, okay, result>>

FormatFile ==
    \/ Parse \/ Open \/ OpenRefused
    \/ Write \/ Flush \/ FlushRefused \/ Formatted
    \/ Rename \/ RenameRefused \/ RemoveTemporary \/ KeepOutput
    \/ Close
=============================================================================
