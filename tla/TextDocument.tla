---------------------------- MODULE TextDocument ----------------------------
(***************************************************************************)
(* One open document of the language server and the client that edits it:  *)
(* lsp/resource/FileBrowser.cc called by the textDocument/* handlers.      *)
(* FileBrowser's lock and the scheduler make each notification one step    *)
(* (LspServer models when each happens).                                   *)
(*                                                                         *)
(* The server holds bytes, the client characters.  DidOpen normalises line *)
(* breaks; no other operation does.                                        *)
(***************************************************************************)
EXTENDS TextPosition

CONSTANTS
    Piece,      \* texts the client inserts, in characters
    MaxLen,     \* bound: characters in the client's text after an edit
    MaxBytes,   \* bound: bytes of the document after an edit made elsewhere
    MaxChanges, \* bound: content changes of one notification
    MaxLine, MaxColumn  \* bounds: positions a client of another text may name

ASSUME BoundsAssumption ==
    /\ Piece \subseteq Seq(Char)
    /\ {MaxLen, MaxBytes, MaxChanges, MaxLine, MaxColumn} \subseteq Nat

VARIABLES
    open,       \* the document is in m_files
    raw,        \* its bytes
    text,       \* the client's text, <<>> when not known
    known       \* the client has named positions of its own text only

vars == <<open, raw, text, known>>

NewTexts == { p \o q : p, q \in Piece \cup {<<>>} }

Init ==
    /\ open = FALSE /\ raw = <<>> /\ text = <<>> /\ known = TRUE

Replace(s, from, to, by) == SubSeq(s, 1, from) \o by \o SubSeq(s, to + 1, Len(s))

\* One range edit: each end must be on a line the text has, and an end before
\* the start makes the unsigned length huge and is refused.
Edit(bytes, change) ==
    LET from == GetOffset(bytes, change.start.line, change.start.character)
        to   == GetOffset(bytes, change.end.line, change.end.character)
    IN  IF from = NoOffset \/ to = NoOffset \/ to < from
        THEN [done |-> FALSE, raw |-> bytes]
        ELSE [done |-> TRUE, raw |-> Replace(bytes, from, to, Encode(change.text))]

\* The handler applies the changes of a notification one by one, each in a
\* call of its own, and returns at the first that is refused.
DidChanges(bytes, changes) ==
    LET apply[i \in 0..Len(changes)] ==
          IF i = 0 THEN [done |-> TRUE, raw |-> bytes]
          ELSE IF apply[i - 1].done THEN Edit(apply[i - 1].raw, changes[i])
          ELSE apply[i - 1]
    IN  apply[Len(changes)]

\* A document that is open already is left alone.
DidOpen(new) ==
    /\ ~open
    /\ open' = TRUE /\ raw' = TransformUTF8ToLF(Encode(new))
    /\ text' = new /\ known' = TRUE

\* Closing, changing or saving one that is not open changes nothing.
DidClose ==
    /\ open
    /\ open' = FALSE /\ raw' = <<>> /\ text' = <<>> /\ known' = TRUE

\* A change without a range: the whole text, taken as it is.
DidChange(new) ==
    /\ open
    /\ raw' = Encode(new) /\ text' = new /\ known' = TRUE
    /\ UNCHANGED open

\* textDocument/didSave carries the client's text; it is taken as it is.
DidSave ==
    /\ open /\ known
    /\ raw' = Encode(text)
    /\ UNCHANGED <<open, text, known>>

\* The client replaces parts of its text and describes each edit by positions
\* in the text as the earlier edits of the same notification left it.
ClientEdit(t, from, to, piece) ==
    [text |-> Replace(t, from, to, piece),
     change |-> [start |-> Position(t, from), end |-> Position(t, to), text |-> piece]]

DidEdit ==
    /\ open /\ known
    /\ \E n \in 1..MaxChanges : \E piece \in [1..n -> Piece \cup {<<>>}] :
         \E first \in Boundaries(text) : \E last \in Boundaries(text) :
           /\ first <= last
           /\ LET one == ClientEdit(text, first, last, piece[1])
              IN  IF n = 1
                  THEN text' = one.text /\ raw' = DidChanges(raw, <<one.change>>).raw
                  ELSE \E k \in Boundaries(one.text) :
                         LET two == ClientEdit(one.text, k, Len(one.text), piece[2])
                         IN  /\ text' = two.text
                             /\ raw' = DidChanges(raw, <<one.change, two.change>>).raw
    /\ Len(text') <= MaxLen
    /\ UNCHANGED <<open, known>>

\* A client whose positions belong to some other text.
Place == [line : 0..MaxLine, character : 0..MaxColumn]

DidEditElsewhere ==
    /\ open
    /\ \E n \in 1..MaxChanges : \E piece \in Piece : \E p, q \in Place :
         LET change == [start |-> p, end |-> q, text |-> piece]
             more   == [start |-> q, end |-> q, text |-> piece]
         IN  raw' = DidChanges(raw, IF n = 1 THEN <<change>> ELSE <<change, more>>).raw
    /\ Len(raw') <= MaxBytes
    /\ known' = FALSE /\ text' = <<>>
    /\ UNCHANGED open

Next ==
    \/ \E new \in NewTexts : DidOpen(new) \/ DidChange(new)
    \/ DidClose
    \/ DidSave
    \/ DidEdit
    \/ DidEditElsewhere

Spec == Init /\ [][Next]_vars
-----------------------------------------------------------------------------
OffsetIsBoundary(o) ==
    o \in 1..(Len(raw) - 1) =>
      raw[o + 1][2] = 1 /\ ~(Is(raw, o - 1, CR) /\ Is(raw, o, LF))

\* GetOffset answers with a place between two characters and never with the
\* one between the CR and the LF of a line break, for every position.
OffsetsAreBoundaries ==
    \A p \in Place :
      OffsetIsBoundary(GetOffset(raw, p.line, p.character))

\* As long as the client edits the text it has, the server's document is that
\* text, line breaks normalised: byte offsets and UTF-16 positions, and texts
\* of which only one was normalised, never drift apart.
InSync ==
    open /\ known =>
      TransformUTF8ToLF(raw) = TransformUTF8ToLF(Encode(text))

\* GetLC names a position that GetOffset leads back from, as long as the line
\* holds no character before it that takes more than one byte.
GetLCInverts(o) ==
    LET p     == GetLC(raw, o)
        start == LineStart(raw, p[1])
        plain == \A i \in (start + 1)..o : Width[raw[i][1]] = 1
    IN  /\ p # NoPosition /\ start # NoOffset
        /\ plain => GetOffset(raw, p[1], p[2]) = o

\* Every position of the client's text resolves to the place it means: what
\* stands before it is the same on both sides.  Completion relies on it.  And
\* GetLC leads back to where GetOffset came from.
PositionsAgree ==
    /\ \A o \in 0..Len(raw) : OffsetIsBoundary(o) => GetLCInverts(o)
    /\ open /\ known =>
         \A k \in Boundaries(text) :
           LET p == Position(text, k)
               o == GetOffset(raw, p.line, p.character)
           IN  /\ o # NoOffset
               /\ TransformUTF8ToLF(SubSeq(raw, 1, o))
                    = TransformUTF8ToLF(Encode(SubSeq(text, 1, k)))
=============================================================================
