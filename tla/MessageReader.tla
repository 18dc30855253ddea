---------------------------- MODULE MessageReader ----------------------------
(***************************************************************************)
(* Reading messages off the byte stream: lsp/server/ReadMessage.cc.        *)
(*                                                                         *)
(* The stream is a sequence of atoms, each of length 1:                    *)
(*   <<"len", n>>   the text "Content-Length: n" (n may be no number)      *)
(*   <<"field", 0>> another header, or any text that has a colon           *)
(*   <<"word", 0>>  text without a colon                                   *)
(*   <<"json", i>>  a piece of a JSON-RPC message                          *)
(*   <<"nl", 0>>    an end of line, with or without a carriage return      *)
(* A frame is what a client means as one message: header lines and a body. *)
(***************************************************************************)
EXTENDS Integers, Sequences, FiniteSets, SequencesExt, FiniteSetsExt

CONSTANTS
    Frame,      \* frames a client may send: [head : Seq(Seq(atom)), body]
    JsonRpc,    \* bodies that pass QuickJsonRPCMessageCheck
    MaxFrames   \* bound: frames on one stream

VARIABLES
    sent,   \* the frames of the stream, in order
    rest,   \* the unread atoms
    got,    \* what the calls of ReadRequest returned until the end was noticed
    state   \* of the stream: "reading", "spoilt" once a read ran over its end (or a write failed),
            \* or "crashed": an exception that nothing catches

vars == <<sent, rest, got, state>>

Newline == <<"nl", 0>>

\* Content-Length values besides the natural numbers.
Negative == -1
NotANumber == -2
Absent == -3

Declared == Nat \cup {Negative, NotANumber}

Atom == ({"len"} \X Declared) \cup ({"field", "word", "json", "nl"} \X Nat)

ASSUME FrameAssumption ==
    /\ \A f \in Frame :
         /\ f.head \in Seq(Seq(Atom) \ {<<>>}) /\ f.body \in Seq(Atom)
         /\ \A i \in DOMAIN f.head : Newline \notin Range(f.head[i])
    /\ <<>> \notin JsonRpc
    /\ MaxFrames \in Nat

Failed == <<>>    \* std::nullopt
-----------------------------------------------------------------------------
Bytes(f) == FlattenSeq([i \in DOMAIN f.head |-> Append(f.head[i], Newline)])
              \o <<Newline>> \o f.body

Stream(frames) == FlattenSeq([i \in DOMAIN frames |-> Bytes(frames[i])])

HasColon(line) == \E i \in DOMAIN line : line[i][1] \in {"len", "field", "json"}

Declares(line) == line[1][1] = "len"

DeclaredByFirst(line, before) ==
    IF Declares(line) /\ before = Absent THEN line[1][2] ELSE before

\* The key is what stands before the first colon.
DeclaredBy(line, before) == IF Declares(line) THEN line[1][2] ELSE before

ConvertUnchecked(content) == content

\* QuickJsonRPCMessageCheck and the conversion of a content.
Convert(content) == IF content \in JsonRpc THEN content ELSE Failed

Result(message, left) == [message |-> message, rest |-> left, state |-> "reading"]

\* eofbit and failbit: the stream is good for nothing any more.
RanOut == [message |-> Failed, rest |-> <<>>, state |-> "spoilt"]

\* ParseHttpMessage from the blank line on.  A negative length becomes a size
\* no string can have: the exception ends the process.
ReadContent(in, length) ==
    IF length = Negative
    THEN [message |-> Failed, rest |-> in, state |-> "crashed"]
    ELSE IF length \in {Absent, NotANumber} THEN Result(Failed, in)
    ELSE IF length > Len(in) THEN RanOut
    ELSE Result(Convert(SubSeq(in, 1, length)), SubSeq(in, length + 1, Len(in)))

\* ParseHttpHeader in ParseHttpMessage's loop, from an atom of the input on and
\* with the length declared before it.  The last of several lengths counts; a
\* line without a colon ends the reading where it stands.
ReadHttpMessage(in) ==
    LET header[w \in (1..(Len(in) + 1)) \X (Declared \cup {Absent})] ==
          LET nl   == SelectInSubSeq(in, w[1], Len(in), LAMBDA a : a = Newline)
              line == SubSeq(in, w[1], nl - 1)
              left == SubSeq(in, nl + 1, Len(in))
          IN  IF nl = 0 THEN RanOut
              ELSE IF line = <<>> THEN ReadContent(left, w[2])
              ELSE IF ~HasColon(line) THEN Result(Failed, left)
              ELSE header[<<nl + 1, DeclaredBy(line, w[2])>>]
    IN  header[<<1, Absent>>]
-----------------------------------------------------------------------------
Streams == UNION { [1..n -> Frame] : n \in 1..MaxFrames }

\* Where contents stand in a stream: <<a, b>> is the content after a, up to b.
BodyPlaces(frames) ==
    { <<Len(Stream(SubSeq(frames, 1, k))) - Len(frames[k].body), Len(Stream(SubSeq(frames, 1, k)))>> :
        k \in DOMAIN frames }

\* What passes for a JSON-RPC message stands in a stream only as a whole body:
\* no client wraps one in another text.
ASSUME BodiesAssumption ==
    \A frames \in Streams : \A a, b \in 0..Len(Stream(frames)) :
      SubSeq(Stream(frames), a + 1, b) \in JsonRpc => <<a, b>> \in BodyPlaces(frames)

Init ==
    /\ sent \in Streams
    /\ rest = Stream(sent)
    /\ got = <<>>
    /\ state = "reading"

\* Server::ReadRequest until it notices the end; LspServer models what follows.
ReadRequest ==
    /\ state = "reading"
    /\ LET result == ReadHttpMessage(rest)
       IN  /\ rest' = result.rest
           /\ state' = result.state
           /\ got' = Append(got, result.message)
    /\ UNCHANGED sent
-----------------------------------------------------------------------------
\* Out of whatever a client frames wrongly no message arises that it did not
\* send, none arrives twice and none before an earlier one.
Delivered == { i \in DOMAIN got : got[i] # Failed }

NothingMadeUp ==
    \E origin \in [Delivered -> DOMAIN sent] :
      /\ \A i \in Delivered : got[i] = sent[origin[i]].body
      /\ \A i, j \in Delivered : i < j => origin[i] < origin[j]

\* A frame whose header lines have colons, and declare last what its body is long.
WellFramed(f) ==
    /\ \A i \in DOMAIN f.head : HasColon(f.head[i])
    /\ \E i \in DOMAIN f.head :
         /\ Declares(f.head[i]) /\ f.head[i][1][2] = Len(f.body)
         /\ \A j \in DOMAIN f.head : j > i => ~Declares(f.head[j])

\* The frames before the first wrong one.
Sound(n) == \A i \in 1..n : WellFramed(sent[i])
SoundLength == Max({ n \in 0..Len(sent) : Sound(n) })

FirstFew(s, n) == SubSeq(s, 1, Min({n, Len(s)}))

\* Up to the first wrong frame the stream is read frame by frame, whatever the
\* bodies hold and whatever follows: what arrives of these frames is what a
\* channel of frames delivers.
Channel == INSTANCE FrameChannel WITH
    sent <- FirstFew(sent, SoundLength),
    got <- FirstFew(got, SoundLength),
    Verdict <- LAMBDA f : Convert(f.body)

ImplementsFrameChannel == Channel!Spec
=============================================================================
