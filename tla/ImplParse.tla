------------------------------ MODULE ImplParse ------------------------------
(***************************************************************************)
(* The command `impl parse' (impl/DumpAST.cc): its options, and then each  *)
(* source in turn, from its file to the output file, which is opened anew  *)
(* for every source.                                                       *)
(***************************************************************************)
EXTENDS Naturals, Sequences, FiniteSets

CONSTANT Path    \* files

StandardOutput == "-"
Format == {"json", "protobuf", "minify"}

VARIABLES
    content,    \* of the files that exist
    before,     \* history: the same when the command was called
    given,      \* its sources, in their order
    output,     \* where the trees go
    format,     \* how they are written
    through,    \* sources that are through
    tree,       \* of which text the tree at hand is
    denied,     \* history: the system refused a write
    step,       \* "idle", "read", "open", "write" or "over"
    success     \* what the command returns

parseVars == <<content, before, given, output, format, through, tree, denied, step, success>>

NoTree == <<>>

Text(p) == <<"text", p>>
Empty == <<"empty">>
Tree(what) == <<"tree", format, what>>
Cut(what) == <<"beginning of tree", format, what>>

ParseInit ==
    /\ content = <<>> /\ before = <<>> /\ given = <<>>
    /\ output = StandardOutput /\ format = "json"
    /\ through = 0 /\ tree = NoTree /\ denied = FALSE
    /\ step = "idle" /\ success = FALSE
-----------------------------------------------------------------------------
(* boost::program_options *)

Outputs == [w \in { "--output=" \o p : p \in Path \cup {StandardOutput} } |->
              CHOOSE p \in Path \cup {StandardOutput} : w = "--output=" \o p]

Formats == [w \in { "--format=" \o f : f \in Format \cup {"yaml"} } |->
              CHOOSE f \in Format \cup {"yaml"} : w = "--format=" \o f]

Chosen(words, table) == { k \in DOMAIN words : words[k] \in DOMAIN table }

Occurs(words, w) == { k \in DOMAIN words : words[k] = w }

\* An option that takes one value, or none, is given once at most.
ParseRefused(words) ==
    \/ Occurs(words, "--nonsense") # {}
    \/ Cardinality(Chosen(words, Outputs)) > 1 \/ Cardinality(Chosen(words, Formats)) > 1
    \/ \E flag \in {"--help", "--dump", "--tracking"} : Cardinality(Occurs(words, flag)) > 1

IsSource(w) ==
    w \notin DOMAIN Outputs \cup DOMAIN Formats \cup {"--help", "--dump", "--tracking", "--nonsense"}

SourcesOf(words) == SelectSeq(words, IsSource)

Picked(words, table, default) ==
    IF Chosen(words, table) = {} THEN default
    ELSE table[words[CHOOSE k \in Chosen(words, table) : TRUE]]

\* An unknown format is reported and taken for json.
FormatOf(words) ==
    LET f == Picked(words, Formats, "json") IN IF f \in Format THEN f ELSE "json"
-----------------------------------------------------------------------------
Over(r) == step' = "over" /\ success' = r

Answered(r) ==
    /\ Over(r)
    /\ UNCHANGED <<content, before, given, output, format, through, tree, denied>>

\* The files may be any, and the output may be one of the sources.
StartParsing(words) ==
    /\ \E found \in SUBSET Path : content' = [p \in found |-> Text(p)]
    /\ before' = content'
    /\ given' = SourcesOf(words)
    /\ output' = Picked(words, Outputs, StandardOutput)
    /\ format' = FormatOf(words)
    /\ step' = "read"
    /\ UNCHANGED <<through, tree, denied, success>>

CommandImplParse(words) ==
    /\ step = "idle"
    /\ IF ParseRefused(words) THEN Answered(FALSE)
       ELSE IF Occurs(words, "--help") # {} THEN Answered(TRUE)
       ELSE IF SourcesOf(words) = <<>> THEN Answered(FALSE)
       ELSE StartParsing(words)

\* The files once the output is open: std::ofstream truncates.
Truncated ==
    IF output = StandardOutput THEN content
    ELSE [p \in DOMAIN content \cup {output} |-> IF p = output THEN Empty ELSE content[p]]

ReadSourceIntoOpenOutput ==
    /\ step = "read" /\ given[through + 1] \in DOMAIN content
    /\ content' = Truncated
    /\ tree' = content'[given[through + 1]]
    /\ step' = "open"
    /\ UNCHANGED <<before, given, output, format, through, denied, success>>

\* ParseFile: whatever is in the source, there is a tree of it.
ReadSource ==
    /\ step = "read" /\ given[through + 1] \in DOMAIN content
    /\ tree' = content[given[through + 1]]
    /\ step' = "open"
    /\ UNCHANGED <<content, before, given, output, format, through, denied, success>>

ReadSourceFails == step = "read" /\ Answered(FALSE)

OpenOutput ==
    /\ step = "open"
    /\ content' = Truncated
    /\ step' = "write"
    /\ UNCHANGED <<before, given, output, format, through, tree, denied, success>>

OpenOutputFails == step = "open" /\ output # StandardOutput /\ Answered(FALSE)

\* Whether the tree could be written is not asked.
WriteTree ==
    /\ step = "write"
    /\ \/ UNCHANGED <<content, denied>> /\ output = StandardOutput
       \/ /\ output # StandardOutput
          /\ \/ content' = [content EXCEPT ![output] = Tree(tree)] /\ UNCHANGED denied
             \/ content' = [content EXCEPT ![output] = Cut(tree)] /\ denied' = TRUE
    /\ through' = through + 1
    /\ IF through' = Len(given) THEN Over(TRUE) ELSE step' = "read" /\ UNCHANGED success
    /\ UNCHANGED <<before, given, output, format, tree>>

ParseStep ==
    \/ ReadSource \/ ReadSourceFails
    \/ OpenOutput \/ OpenOutputFails
    \/ WriteTree

\* What was found and made is forgotten.
ParseReturns ==
    /\ step = "over" /\ step' = "idle"
    /\ content' = <<>> /\ before' = <<>> /\ given' = <<>>
    /\ output' = StandardOutput /\ format' = "json"
    /\ through' = 0 /\ tree' = NoTree /\ denied' = FALSE
    /\ success' = FALSE
-----------------------------------------------------------------------------
\* Between two sources and at the end, with whatever result, no file but the
\* output has changed, and the output holds the whole tree of the last source
\* that is through, as this source was when the command was called: also where
\* the output is that source itself.  Excepted are a write that the system
\* refused, and a later source that was the output of an earlier one.
OutputIsWhole ==
    step \in {"read", "over"} =>
      /\ \A p \in DOMAIN before \ {output} : content[p] = before[p]
      /\ through = 0 => content = before
      /\ success /\ given # <<>> => through = Len(given)
      /\ through > 0 /\ output # StandardOutput =>
           \/ denied
           \/ through > 1 /\ given[through] = output
           \/ content[output] = Tree(before[given[through]])
=============================================================================
