--------------------------- MODULE PackageCommands ---------------------------
(***************************************************************************)
(* Two commands on a package's directory: format on a file or a directory  *)
(* (format/core/Run.cc), which reads the manifest for the package's name,  *)
(* and `impl config-check -o no3.json' (impl/ConfigParse.cc), which writes *)
(* the manifest as it was understood.  The process may be killed between   *)
(* two steps.                                                              *)
(***************************************************************************)
EXTENDS FormatFile, Manifest, FiniteSets

CONSTANTS
    Packages,       \* what the commands are run on, and how: pairs of a record of
                    \*   config, directory, output and of the manifest's document
    MaxRewrites     \* config-check commands

ASSUME PackagesAssumption ==
    /\ \A pair \in Packages : LET p == pair[1] IN
         /\ p.config \in {"none", "valid", "invalid"}
         /\ p.directory \in BOOLEAN
         /\ p.output \in {"in place", "respelled", "elsewhere", "inside"}
         /\ p.output = "inside" => p.directory
         /\ IsDocument(pair[2])
    /\ MaxRewrites \in Nat

VARIABLES
    package,    \* the record that was chosen
    onDisk,     \* no3.json: "missing", "torn" or "json"
    manifest,   \* the document in it, if it holds one
    rewrites,   \* config-check commands so far
    pc,
    listed,     \* the keys of the file mapping
    todo,       \* of these, the files that the loop has not reached
    failed,     \* the files that could not be formatted
    status      \* what the command returned

commandVars == <<package, onDisk, manifest, rewrites, pc, listed, todo, failed, status>>

vars == <<fileVars, commandVars>>

Running == {"source", "output", "config", "list", "manifest", "loop", "file", "rewrite"}

Sources ==
    IF package.directory
    THEN {FileAt("source", n) : n \in Name}
           \cup (IF package.output = "inside"
                 THEN {f \in {FileAt("output", n) : n \in Name} : file[f] # Missing}
                 ELSE {})
    ELSE {FileAt("source", n) : n \in Name \ Nested}

Init ==
    /\ \E pair \in Packages : package = pair[1] /\ manifest = pair[2]
    /\ onDisk \in {"missing", "json"}
    /\ \E made \in SUBSET {<<"output", nested>> : nested \in BOOLEAN},
          old \in SUBSET {FileAt("output", n) : n \in Name} :
         /\ <<"output", TRUE>> \in made => <<"output", FALSE>> \in made
         /\ package.output \in {"in place", "respelled"} => made = {}    \* not used
         /\ \A f \in old : Directory(f) \in made
         /\ dirs = made \cup ({"source"} \X BOOLEAN)
         /\ file = [f \in File |-> IF f \in old \/ (f.tree = "source" /\ ~f.tmp)
                                   THEN Before ELSE Missing]
    /\ \E n \in Name : FileIdle(FileAt("source", n))
    /\ refused = {} /\ rewrites = 0
    /\ pc = "idle" /\ listed = {} /\ todo = {} /\ failed = {} /\ status = FALSE
\* Of the command only.
Step(from, to) == pc = from /\ pc' = to
Return(from, ok) == Step(from, "done") /\ status' = ok

Chosen == <<package, onDisk, manifest, rewrites>>
Loop == <<listed, todo, failed>>
FileWork == <<mode, file, dirs, src, dst, respelled, output, taken, bad, okay, result, fpc>>
-----------------------------------------------------------------------------
(* CommandFormat: the arguments *)

ParseArguments ==
    /\ \/ Step("idle", "source") /\ mode' \in Mode /\ UNCHANGED status
       \/ \E ok \in BOOLEAN : Return("idle", ok) /\ UNCHANGED mode   \* help, or a wrong usage
    /\ UNCHANGED <<file, dirs, src, dst, respelled, output, taken, bad, refused, okay, result,
                   fpc, Chosen, Loop>>

\* DecodeArguments.  The source may be missing, or the system may refuse to
\* say what it is.
CheckSource ==
    /\ \/ Step("source", "output") /\ UNCHANGED status
       \/ Return("source", FALSE)
    /\ UNCHANGED <<fileVars, Chosen, Loop>>

OutputDirectory == <<IF package.output \in {"elsewhere", "inside"} THEN "output" ELSE "source", FALSE>>

\* A check that is refused counts as "does not exist", and to create a
\* directory that exists is an error.
MakeOutput ==
    /\ \/ /\ Step("output", "config") /\ UNCHANGED status
          /\ dirs' = dirs \cup (IF package.directory THEN {OutputDirectory} ELSE {})
       \/ package.directory /\ Return("output", FALSE) /\ UNCHANGED dirs
    /\ UNCHANGED <<mode, file, src, dst, respelled, output, taken, bad, refused, okay, result,
                   fpc, Chosen, Loop>>

\* What it comes to is chosen with the package; the settings have no effect yet.
LoadConfigurationFile == package.config = "valid"

\* A directory's own format.json is not used when the check for it is refused.
ReadConfig ==
    /\ \/ /\ package.config = "none" \/ LoadConfigurationFile \/ package.directory
          /\ Step("config", "list") /\ UNCHANGED status
       \/ package.config # "none" /\ Return("config", FALSE)
    /\ UNCHANGED <<fileVars, Chosen, Loop>>

\* GetRecursiveDirectoryContents: a file that cannot be examined is no file.
List ==
    /\ \/ \E skipped \in SUBSET Sources :
             /\ skipped # {} => package.directory
             /\ Step("list", "manifest")
             /\ listed' = Sources \ skipped /\ todo' = listed'
             /\ refused' = refused \cup ({"stat"} \X skipped)
             /\ UNCHANGED status
       \/ package.directory /\ Return("list", FALSE) /\ UNCHANGED <<listed, todo, refused>>
    /\ UNCHANGED <<FileWork, Chosen, failed>>

\* The manifest is wanted for its name only, and is not missed.
ReadManifest ==
    /\ IF listed = {} THEN Return("manifest", TRUE)
       ELSE Step("manifest", "loop") /\ UNCHANGED status
    /\ UNCHANGED <<fileVars, Chosen, Loop>>

Accepted == onDisk = "json" /\ Verify(manifest)

\* Nobody catches what Manifest::FromJson throws.
ReadManifestThrows ==
    /\ Step("manifest", "terminated")
    /\ package.directory
    /\ Accepted /\ Throws(manifest)
    /\ UNCHANGED <<fileVars, Chosen, Loop, status>>
-----------------------------------------------------------------------------
(* FormatFiles *)

Destination(f) ==
    IF package.output \in {"in place", "respelled"} THEN f
    ELSE FileAt(IF f.tree = "source" THEN "output" ELSE "output of output", f.name)

\* The mapping is an unordered_map.
NextFile ==
    /\ Step("loop", "file")
    /\ \E f \in todo :
         /\ FileBegin(f, Destination(f), package.output = "respelled")
         /\ todo' = todo \ {f}
    /\ UNCHANGED <<Chosen, listed, failed, status>>

FormatStep ==
    /\ pc = "file" /\ FormatFile
    /\ UNCHANGED commandVars

FormatThrows ==
    /\ Step("file", "killed") /\ Unwind
    /\ UNCHANGED <<Chosen, Loop, status>>

FileDoneBreaks ==
    /\ fpc = "done" /\ Step("file", "loop")
    /\ IF result THEN UNCHANGED <<failed, todo>>
       ELSE failed' = failed \cup {src} /\ todo' = {}
    /\ UNCHANGED <<fileVars, Chosen, listed, status>>

\* A failure does not end the loop.
FileDone ==
    /\ fpc = "done" /\ Step("file", "loop")
    /\ failed' = IF result THEN failed ELSE failed \cup {src}
    /\ UNCHANGED <<fileVars, Chosen, listed, todo, status>>

Finish ==
    /\ todo = {} /\ Return("loop", failed = {})
    /\ UNCHANGED <<fileVars, Chosen, Loop>>

Kill ==
    /\ pc \in Running /\ pc' = "killed"
    /\ UNCHANGED <<fileVars, Chosen, Loop, status>>
-----------------------------------------------------------------------------
(* CommandImplConfigParse, with the manifest itself as the output file *)

Rewritten == ToJson(ObjectToInstance(manifest))

Rewritable == Accepted /\ ~Throws(manifest) /\ Verify(Rewritten)

\* std::ios::trunc
OpenManifest ==
    /\ Step("idle", "rewrite") /\ rewrites < MaxRewrites
    /\ Rewritable
    /\ onDisk' = "torn"
    /\ UNCHANGED <<fileVars, package, manifest, rewrites, Loop, status>>

RefuseManifest(what) == refused' = refused \cup {<<what, FileAt("source", "no3.json")>>}

\* An output file that cannot be opened is removed, if the system lets it.
OpenManifestRefused ==
    /\ Return("idle", FALSE)
    /\ Rewritable
    /\ RefuseManifest("open")
    /\ onDisk' \in {"json", "missing"}
    /\ UNCHANGED <<FileWork, package, manifest, rewrites, Loop>>

RejectManifestOpened ==
    /\ Return("idle", FALSE)
    /\ ~Rewritable /\ ~(Accepted /\ Throws(manifest))
    /\ onDisk' = "torn"
    /\ UNCHANGED <<fileVars, package, manifest, rewrites, Loop>>

RejectManifest ==
    /\ Return("idle", FALSE)
    /\ ~Rewritable /\ ~(Accepted /\ Throws(manifest))
    /\ UNCHANGED <<fileVars, Chosen, Loop>>

ConfigParseThrows ==
    /\ Step("idle", "terminated")
    /\ Accepted /\ Throws(manifest)
    /\ UNCHANGED <<fileVars, Chosen, Loop, status>>

\* Whether the text was written is not asked.  Then the next command.
WriteManifest ==
    /\ Step("rewrite", "idle")
    /\ \/ onDisk' = "json" /\ manifest' = Rewritten /\ UNCHANGED refused
       \/ RefuseManifest("write") /\ UNCHANGED <<onDisk, manifest>>
    /\ rewrites' = rewrites + 1 /\ status' = TRUE
    /\ UNCHANGED <<FileWork, package, Loop>>
-----------------------------------------------------------------------------
Next ==
    \/ ParseArguments \/ CheckSource \/ MakeOutput \/ ReadConfig \/ List
    \/ ReadManifest \/ ReadManifestThrows
    \/ NextFile \/ FormatStep \/ FormatThrows \/ FileDone \/ Finish \/ Kill
    \/ OpenManifest \/ OpenManifestRefused \/ RejectManifest
    \/ ConfigParseThrows \/ WriteManifest

Spec == Init /\ [][Next]_vars
-----------------------------------------------------------------------------
(* Properties *)

LoopOver == pc = "done" /\ listed # {}

WrittenOrRefused(f) == file[Destination(f)] = Writes \/ <<"write", f>> \in refused

\* The loop reaches every file, whatever happens to the others, and returns true
\* exactly if none failed.  A source file that did not fail has at its
\* destination all that its mode writes of it, which is nothing in the canonical
\* mode, unless the system refused to examine the file or to take the text:
\* neither is reported.
EveryFileAccounted ==
    LoopOver =>
        /\ todo = {} /\ (status <=> failed = {})
        /\ \A f \in listed \cup {FileAt("source", n) : n \in Name} :
             \/ f.name \in Nested /\ ~package.directory
             \/ f \in failed
             \/ <<"stat", f>> \in refused
             \/ WrittenOrRefused(f)

\* Wherever the command fails, is killed or ended by an exception, a source file
\* still holds its text, unless the loop has been at it and either replaced it in
\* place, without a failure, by all that the mode writes, or opened it under the
\* other spelling of the output path.  The temporary file is renamed before it is
\* closed: killed in between, the source holds what was flushed.
SourceKept ==
    \A f \in {FileAt("source", n) : n \in Name} :
        \/ file[f] = Before
        \/ /\ f \in listed \ todo
           /\ \/ /\ package.output = "in place" /\ f \notin failed
                 /\ WrittenOrRefused(f) \/ (src = f /\ taken = Writes /\ fpc = "close")
              \/ /\ package.output = "respelled"
                 /\ src = f => fpc \notin {"parse", "open"}

\* A command that reports success has put the formatted text of every file it
\* lists where it belongs ("canonical source format", format/core/Run.cc:614;
\* "Successfully formatted the source file", :278).  It does not hold: the
\* canonical format writes nothing, and in the other modes nobody asks whether
\* the text was taken.
ReportedIsFormatted ==
    LoopOver /\ status => \A f \in listed : file[Destination(f)] = Pieces

\* No command that ran to its end leaves a temporary file, unless the system
\* refused to rename or to remove it.
NoLitter ==
    pc \in {"done", "terminated"} =>
        \A f \in File :
            \/ ~f.tmp \/ file[f] = Missing
            \/ {"rename", "remove"} \X {FileAt(f.tree, f.name)} \cap refused # {}

Required(m) == [m EXCEPT !.profiles = [p \in RequiredProfile |-> m.profiles[p]]]

\* What config-check writes over a manifest is a manifest again, and reads as
\* the one that was there, but for the profiles that are not required.
RewriteKeepsManifest ==
    [][manifest' # manifest =>
         /\ Verify(manifest') /\ ~Throws(manifest')
         /\ ObjectToInstance(manifest') = Required(ObjectToInstance(manifest))]_vars

\* A manifest that was there is there and whole when a command has returned,
\* or been terminated by an exception, whichever schema it has; only a kill
\* between the truncation and the write, or a refusal of the system to open or
\* to take the file, loses it, the last without being reported.
ManifestKept ==
    [][onDisk = "json" \/ pc = "rewrite" =>
         \/ onDisk' = "json"
         \/ pc' \in {"rewrite", "killed"}
         \/ refused' # refused]_vars

\* An accepted manifest ends no command, unless a version in it is too large
\* for std::stoul or it has a malformed profile of a name nobody asked for.
VerifiedIsRead ==
    pc = "terminated" =>
        \/ VersionThrows(manifest.version)
        \/ \E k \in DOMAIN manifest.dependencies :
             VersionThrows(manifest.dependencies[k].version)
        \/ \E p \in DOMAIN manifest.optimization.profiles \ RequiredProfile :
             ~ValidateSwitch(manifest.optimization.profiles[p])
=============================================================================
