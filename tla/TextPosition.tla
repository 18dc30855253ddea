---------------------------- MODULE TextPosition ----------------------------
(***************************************************************************)
(* Positions in a text document: lsp/resource/File.cc and the end-of-line  *)
(* normalisation of lsp/resource/FileBrowser.cc.                           *)
(*                                                                         *)
(* A document is a sequence of UTF-8 bytes.  The k-th byte of a character  *)
(* c is the pair <<c, k>>; k = 1 is the lead byte, k > 1 a continuation    *)
(* byte.  An offset i counts bytes from 0 as the code does.  A client      *)
(* speaks in lines and UTF-16 columns.                                     *)
(***************************************************************************)
EXTENDS Integers, Sequences, FiniteSets, SequencesExt, FiniteSetsExt

CONSTANTS
    Width,      \* a function: the number of UTF-8 bytes of each character
    CR, LF      \* the two characters that end lines

ASSUME WidthAssumption ==
    /\ \A c \in DOMAIN Width : Width[c] \in 1..4
    /\ {CR, LF} \subseteq DOMAIN Width /\ CR # LF
    /\ Width[CR] = 1 /\ Width[LF] = 1

Char == DOMAIN Width
Byte == UNION { {c} \X (1..Width[c]) : c \in Char }

\* Characters beyond the basic plane take four bytes and a surrogate pair.
Units(c) == IF Width[c] = 4 THEN 2 ELSE 1

Encode(text) ==
    FlattenSeq([i \in DOMAIN text |-> [k \in 1..Width[text[i]] |-> <<text[i], k>>]])

Is(raw, i, c) == i < Len(raw) /\ raw[i + 1] = <<c, 1>>
AtBreakUnix(raw, i) == Is(raw, i, LF)

AtBreak(raw, i) == Is(raw, i, CR) \/ Is(raw, i, LF)
-----------------------------------------------------------------------------
CharacterCountCodePoints(raw, i) ==
    IF raw[i + 1][2] = 1 THEN [count |-> 1, size |-> Width[raw[i + 1][1]]]
                         ELSE [count |-> 0, size |-> 1]

\* UTF-16 units of the character at i and the bytes to step over.  A
\* continuation byte is no character: it is stepped over without counting.
CharacterCount(raw, i) ==
    LET b == raw[i + 1]
    IN  IF b[2] = 1 THEN [count |-> Units(b[1]), size |-> Width[b[1]]]
                    ELSE [count |-> 0, size |-> 1]

PastOneByte(raw, i) == i + 1

\* CR LF is one line break.
Past(raw, i) == IF Is(raw, i, CR) /\ Is(raw, i + 1, LF) THEN i + 2 ELSE i + 1

NoOffset == -1

\* First byte of a line; NoOffset when the text has fewer lines.
LineStart(raw, line) ==
    LET skip[at \in (0..Len(raw)) \X (0..line)] ==
          LET i == at[1]
              l == at[2]
          IN  IF l = line THEN i
              ELSE IF i = Len(raw) THEN NoOffset
              ELSE skip[<<Past(raw, i), IF AtBreak(raw, i) THEN l + 1 ELSE l>>]
    IN  skip[<<0, 0>>]

\* The walk stops where the column is met exactly, else at the line's end: a
\* column past the end, and one between two surrogates, are clipped to it.
GetOffset(raw, line, column) ==
    LET walk[at \in Nat \X Nat] ==
          LET i     == at[1]
              units == at[2]
              n     == CharacterCount(raw, i)
          IN  IF i >= Len(raw) \/ AtBreak(raw, i) \/ units = column THEN i
              ELSE walk[<<i + n.size, units + n.count>>]
        start == LineStart(raw, line)
    IN  IF start = NoOffset THEN NoOffset ELSE walk[<<start, 0>>]

NoPosition == <<>>

\* Line and column of an offset.  The column counts BYTES.
GetLC(raw, offset) ==
    LET count[at \in Nat \X Nat \X Nat] ==
          LET i      == at[1]
              line   == at[2]
              column == at[3]
          IN  IF i < offset /\ i < Len(raw)
              THEN IF AtBreak(raw, i) THEN count[<<Past(raw, i), line + 1, 0>>]
                                      ELSE count[<<i + 1, line, column + 1>>]
              ELSE IF i = offset THEN <<line, column>> ELSE NoPosition
    IN  count[<<0, 0, 0>>]

\* Every CR LF and every CR alone becomes LF.
TransformUTF8ToLF(raw) ==
    FlattenSeq([i \in DOMAIN raw |->
      IF Is(raw, i - 1, CR) THEN <<<<LF, 1>>>>
      ELSE IF Is(raw, i - 1, LF) /\ i > 1 /\ Is(raw, i - 2, CR) THEN <<>>
      ELSE <<raw[i]>>])
-----------------------------------------------------------------------------
(***************************************************************************)
(* What a client means by a position in its own text, by definition and    *)
(* not by scanning: the number of line breaks before it and the UTF-16     *)
(* units since the last one.  A boundary k is the place after k            *)
(* characters; no position lies between the CR and the LF of one break.    *)
(***************************************************************************)
InsideBreak(text, k) ==
    k \in 1..(Len(text) - 1) /\ text[k] = CR /\ text[k + 1] = LF

Boundaries(text) == { k \in 0..Len(text) : ~InsideBreak(text, k) }

LineEnds(text) ==
    { k \in Boundaries(text) \ {0} : text[k] \in {CR, LF} }

Position(text, k) ==
    LET ends  == { e \in LineEnds(text) : e <= k }
        start == IF ends = {} THEN 0 ELSE Max(ends)
    IN  [line |-> Cardinality(ends),
         character |-> MapThenSumSet(LAMBDA i : Units(text[i]), (start + 1)..k)]
=============================================================================
