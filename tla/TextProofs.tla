----------------------------- MODULE TextProofs -----------------------------
(***************************************************************************)
(* Proofs about TextPosition and TextDocument, in two parts.               *)
(*                                                                         *)
(* First, where an offset can fall.  The bytes of a document are those of  *)
(* whole characters, whatever was opened, saved or edited (Whole, kept by  *)
(* every step: TextStep).  In such bytes the two scans of GetOffset, for   *)
(* the line and for the column, stop between two characters and never      *)
(* inside a line break (GetOffsetIs).  The one needs the other: an edit    *)
(* cuts the bytes where GetOffset says.                                    *)
(*                                                                         *)
(* Then, that bytes and text stay in step.  A text is cut into cells, a    *)
(* character or the two of a CR LF; so are the bytes, with or without the  *)
(* CRs (Aligned).  Positions count cells (PositionsCount) and the scans of *)
(* GetOffset and GetLC go from cell to cell (GetOffsetAt, GetLCAt), so an  *)
(* edit cuts bytes and text between the same cells (EditAgrees), and every *)
(* step keeps them aligned (DocStep).                                      *)
(***************************************************************************)
EXTENDS TextDocument, Recursion, FiniteSetTheorems

(* Every byte stands beside the other bytes of its character.              *)
Whole(doc) ==
  /\ doc \in Seq(Byte)
  /\ \A i \in 1..Len(doc) :
       /\ doc[i][2] < Width[doc[i][1]] =>
            i < Len(doc) /\ doc[i + 1] = <<doc[i][1], doc[i][2] + 1>>
       /\ doc[i][2] > 1 => i > 1 /\ doc[i - 1] = <<doc[i][1], doc[i][2] - 1>>

(* Offset o is between two characters, or at an end.                       *)
Cut(doc, o) == o \in 0..Len(doc) /\ (o < Len(doc) => doc[o + 1][2] = 1)

(* A byte is a character and one of its places in it.                      *)
LEMMA BytesAre ==
  ASSUME NEW b \in Byte
  PROVE  /\ b[1] \in Char /\ b[2] \in 1..Width[b[1]] /\ b = <<b[1], b[2]>>
         /\ Width[b[1]] \in 1..4 /\ b[2] \in 1..4
<1>1. PICK c \in Char : b \in {c} \X (1..Width[c])
  BY DEF Byte
<1>2. Width[c] \in 1..4
  BY WidthAssumption DEF Char
<1>3. b[1] = c /\ b[2] \in 1..Width[c] /\ b = <<b[1], b[2]>>
  BY <1>1
<1> QED
  BY <1>2, <1>3

(* Any such pair is a byte.                                                *)
LEMMA BytesMade ==
  ASSUME NEW c \in Char, NEW k \in 1..Width[c] PROVE <<c, k>> \in Byte
BY DEF Byte

(* Bytes cut between two characters: what stands before the cut.           *)
LEMMA WholePrefix ==
  ASSUME NEW doc, Whole(doc), NEW o, Cut(doc, o)
  PROVE  Whole(SubSeq(doc, 1, o))
<1> DEFINE s == SubSeq(doc, 1, o)
<1>1. doc \in Seq(Byte) /\ o \in 0..Len(doc) /\ Len(doc) \in Nat
  BY DEF Whole, Cut
<1>2. s \in Seq(Byte) /\ Len(s) = o /\ \A i \in 1..o : s[i] = doc[i]
  BY <1>1
<1> HIDE DEF s
<1>3. ASSUME NEW i \in 1..o
      PROVE  /\ doc[i][2] < Width[doc[i][1]] =>
                  i < o /\ doc[i + 1] = <<doc[i][1], doc[i][2] + 1>>
             /\ doc[i][2] > 1 => i > 1 /\ doc[i - 1] = <<doc[i][1], doc[i][2] - 1>>
  <2>1. i \in 1..Len(doc)
    BY <1>1
  <2>2. doc[i][2] \in 1..4
    BY <1>1, <2>1, BytesAre
  <2>3. /\ doc[i][2] < Width[doc[i][1]] =>
             i < Len(doc) /\ doc[i + 1] = <<doc[i][1], doc[i][2] + 1>>
        /\ doc[i][2] > 1 => i > 1 /\ doc[i - 1] = <<doc[i][1], doc[i][2] - 1>>
    BY <2>1 DEF Whole
  <2>4. ASSUME doc[i][2] < Width[doc[i][1]] PROVE i < o
    <3>1. i < Len(doc) /\ doc[i + 1][2] = doc[i][2] + 1
      BY <2>3, <2>4
    <3>2. doc[i + 1][2] # 1
      BY <2>2, <3>1
    <3> QED
      BY <1>1, <3>1, <3>2 DEF Cut
  <2> QED
    BY <2>3, <2>4
<1>4. \A i \in 1..o : /\ i < o => i + 1 \in 1..o
                      /\ i > 1 => i - 1 \in 1..o
  BY <1>1
<1>5. Whole(s)
  BY <1>2, <1>3, <1>4 DEF Whole
<1> QED
  BY <1>5 DEF s

(* What stands after it.                                                   *)
LEMMA WholeSuffix ==
  ASSUME NEW doc, Whole(doc), NEW o, Cut(doc, o)
  PROVE  Whole(SubSeq(doc, o + 1, Len(doc)))
<1> DEFINE s == SubSeq(doc, o + 1, Len(doc))
           n == Len(doc) - o
<1>1. doc \in Seq(Byte) /\ o \in 0..Len(doc) /\ Len(doc) \in Nat /\ n \in Nat
  BY DEF Whole, Cut
<1>2. s \in Seq(Byte) /\ Len(s) = n /\ \A i \in 1..n : s[i] = doc[o + i]
  BY <1>1
<1>3. Len(doc) = n + o
  BY <1>1
<1> HIDE DEF s, n
<1>4. ASSUME NEW i \in 1..n
      PROVE  /\ s[i][2] < Width[s[i][1]] =>
                  i < n /\ s[i + 1] = <<s[i][1], s[i][2] + 1>>
             /\ s[i][2] > 1 => i > 1 /\ s[i - 1] = <<s[i][1], s[i][2] - 1>>
  <2> DEFINE j == o + i
  <2>1. j \in 1..Len(doc)
    BY <1>1, <1>3
  <2>2. doc[j][2] \in 1..4
    BY <1>1, <2>1, BytesAre
  <2>3. /\ doc[j][2] < Width[doc[j][1]] =>
             j < Len(doc) /\ doc[j + 1] = <<doc[j][1], doc[j][2] + 1>>
        /\ doc[j][2] > 1 => j > 1 /\ doc[j - 1] = <<doc[j][1], doc[j][2] - 1>>
    BY <2>1 DEF Whole
  <2>4. s[i] = doc[j]
    BY <1>2
  <2>5. ASSUME doc[j][2] < Width[doc[j][1]] PROVE i < n /\ s[i + 1] = doc[j + 1]
    <3>1. j < Len(doc)
      BY <2>3, <2>5
    <3>2. i < n /\ i + 1 \in 1..n /\ o + (i + 1) = j + 1
      BY <1>1, <1>3, <3>1
    <3> QED
      BY <1>2, <3>2
  <2>6. ASSUME doc[j][2] > 1 PROVE i > 1 /\ s[i - 1] = doc[j - 1]
    <3>1. i # 1
      <4>1. ASSUME i = 1 PROVE FALSE
        <5>1. o < Len(doc) /\ j = o + 1
          BY <1>1, <1>3, <4>1
        <5>2. doc[o + 1][2] = 1
          BY <5>1 DEF Cut
        <5> QED
          BY <2>6, <5>1, <5>2
      <4> QED
        BY <4>1
    <3>2. i > 1 /\ i - 1 \in 1..n /\ o + (i - 1) = j - 1
      BY <1>1, <3>1
    <3> QED
      BY <1>2, <3>2
  <2> HIDE DEF j
  <2> QED
    BY <2>3, <2>4, <2>5, <2>6
<1>5. Whole(s)
  BY <1>2, <1>4 DEF Whole
<1> QED
  BY <1>5 DEF s

(* Whole bytes put after whole bytes.                                      *)
LEMMA WholeCat ==
  ASSUME NEW x, NEW y, Whole(x), Whole(y) PROVE Whole(x \o y)
<1> DEFINE s == x \o y
           m == Len(x)
           n == Len(y)
<1>1. /\ x \in Seq(Byte) /\ y \in Seq(Byte) /\ m \in Nat /\ n \in Nat
      /\ s \in Seq(Byte) /\ Len(s) = m + n
      /\ \A i \in 1..m : s[i] = x[i]
      /\ \A i \in 1..n : s[m + i] = y[i]
  BY DEF Whole
<1> HIDE DEF s
<1>2. ASSUME NEW i \in 1..m
      PROVE  /\ s[i][2] < Width[s[i][1]] =>
                  i < m + n /\ s[i + 1] = <<s[i][1], s[i][2] + 1>>
             /\ s[i][2] > 1 => i > 1 /\ s[i - 1] = <<s[i][1], s[i][2] - 1>>
  <2>1. /\ x[i][2] < Width[x[i][1]] => i < m /\ x[i + 1] = <<x[i][1], x[i][2] + 1>>
        /\ x[i][2] > 1 => i > 1 /\ x[i - 1] = <<x[i][1], x[i][2] - 1>>
    BY DEF Whole
  <2>2. /\ i < m => i + 1 \in 1..m /\ i < m + n
        /\ i > 1 => i - 1 \in 1..m
    BY <1>1
  <2> HIDE DEF m, n
  <2> QED
    BY <1>1, <2>1, <2>2
<1>3. ASSUME NEW i \in 1..n
      PROVE  /\ s[m + i][2] < Width[s[m + i][1]] =>
                  m + i < m + n /\ s[(m + i) + 1] = <<s[m + i][1], s[m + i][2] + 1>>
             /\ s[m + i][2] > 1 => m + i > 1 /\ s[(m + i) - 1] = <<s[m + i][1], s[m + i][2] - 1>>
  <2>1. /\ y[i][2] < Width[y[i][1]] => i < n /\ y[i + 1] = <<y[i][1], y[i][2] + 1>>
        /\ y[i][2] > 1 => i > 1 /\ y[i - 1] = <<y[i][1], y[i][2] - 1>>
    BY DEF Whole
  <2> DEFINE a == i + 1
             b == i - 1
  <2>2. /\ i < n => a \in 1..n /\ m + i < m + n
        /\ i > 1 => b \in 1..n /\ m + i > 1
        /\ (m + i) + 1 = m + a /\ (m + i) - 1 = m + b
    BY <1>1
  <2> HIDE DEF m, n, a, b
  <2>3. /\ i < n => s[(m + i) + 1] = y[a]
        /\ i > 1 => s[(m + i) - 1] = y[b]
        /\ s[m + i] = y[i]
    BY <1>1, <2>2
  <2> QED
    BY <2>1, <2>2, <2>3 DEF a, b
<1>4. ASSUME NEW i \in 1..(m + n)
      PROVE  /\ s[i][2] < Width[s[i][1]] =>
                  i < m + n /\ s[i + 1] = <<s[i][1], s[i][2] + 1>>
             /\ s[i][2] > 1 => i > 1 /\ s[i - 1] = <<s[i][1], s[i][2] - 1>>
  <2>1. CASE i \in 1..m
    BY <1>2, <2>1
  <2>2. CASE i \notin 1..m
    <3> DEFINE j == i - m
    <3>1. j \in 1..n /\ i = m + j
      BY <1>1, <2>2
    <3> HIDE DEF j, m, n
    <3> QED
      BY <1>3, <3>1
  <2> QED
    BY <2>1, <2>2
<1>5. Whole(s)
  <2> HIDE DEF m, n
  <2> QED
    BY <1>1, <1>4 DEF Whole
<1> QED
  BY <1>5 DEF s

(* An edit between two cuts.                                               *)
LEMMA WholeReplace ==
  ASSUME NEW doc, Whole(doc), NEW from, NEW to, Cut(doc, from), Cut(doc, to), NEW by, Whole(by)
  PROVE  Whole(Replace(doc, from, to, by))
<1>1. Whole(SubSeq(doc, 1, from)) /\ Whole(SubSeq(doc, to + 1, Len(doc)))
  BY WholePrefix, WholeSuffix
<1> QED
  BY <1>1, WholeCat DEF Replace

Wholes == {doc \in Seq(Byte) : Whole(doc)}

(* Whole bytes can be flattened like texts.                                *)
LEMMA WholesAreTexts == Texts(Wholes)
<1> DEFINE V == Seq(Byte)
<1>1. Texts(V)
  BY SequencesAreTexts
<1> HIDE DEF V
<1>2. Wholes \subseteq V
  BY DEF Wholes, V
<1>3. <<>> \in Wholes
  BY DEF Wholes, Whole
<1>4. \A x, y \in Wholes : Cat(x, y) \in Wholes
  <2> SUFFICES ASSUME NEW x \in Wholes, NEW y \in Wholes PROVE Cat(x, y) \in Wholes
    OBVIOUS
  <2>1. Whole(x) /\ Whole(y)
    BY DEF Wholes
  <2>2. Whole(x \o y)
    BY <2>1, WholeCat
  <2> QED
    BY <2>2 DEF Wholes, Cat, Whole
<1>5. /\ \A x \in V : Cat(<<>>, x) = x /\ Cat(x, <<>>) = x
      /\ \A x, y, z \in V : Cat(Cat(x, y), z) = Cat(x, Cat(y, z))
      /\ \A x \in V : Len(x) \in Nat
      /\ \A x, y \in V :
           /\ Len(Cat(x, y)) = Len(x) + Len(y)
           /\ \A i \in 1..Len(x) : Cat(x, y)[i] = x[i]
           /\ \A i \in 1..Len(y) : Cat(x, y)[Len(x) + i] = y[i]
  BY <1>1 DEF Texts
<1>6. /\ \A x \in Wholes : Cat(<<>>, x) = x /\ Cat(x, <<>>) = x
      /\ \A x, y, z \in Wholes : Cat(Cat(x, y), z) = Cat(x, Cat(y, z))
  BY <1>2, <1>5
<1>7. /\ \A x \in Wholes : Len(x) \in Nat
      /\ \A x, y \in Wholes :
           /\ Len(Cat(x, y)) = Len(x) + Len(y)
           /\ \A i \in 1..Len(x) : Cat(x, y)[i] = x[i]
           /\ \A i \in 1..Len(y) : Cat(x, y)[Len(x) + i] = y[i]
  BY <1>2, <1>5
<1> QED
  BY <1>3, <1>4, <1>6, <1>7 DEF Texts

(* The bytes of one character.                                             *)
Shape(c) == [k \in 1..Width[c] |-> <<c, k>>]

(* They are whole.                                                         *)
LEMMA ShapesAreWhole == ASSUME NEW c \in Char PROVE Shape(c) \in Wholes
<1> DEFINE n == Width[c]
           s == Shape(c)
<1>1. n \in 1..4
  BY WidthAssumption DEF Char
<1>2. \A k \in 1..n : <<c, k>> \in Byte
  BY BytesMade
<1>3. s = [k \in 1..n |-> <<c, k>>]
  BY DEF Shape
<1> HIDE DEF s
<1>4. s \in Seq(Byte) /\ Len(s) = n /\ \A k \in 1..n : s[k] = <<c, k>>
  <2> HIDE DEF n
  <2> QED
    BY <1>1, <1>2, <1>3
<1>5. \A i \in 1..n : /\ i < n => i + 1 \in 1..n
                      /\ i > 1 => i - 1 \in 1..n
  BY <1>1
<1>6. Whole(s)
  BY <1>1, <1>4, <1>5, SMTT(30) DEF Whole
<1> QED
  BY <1>4, <1>6 DEF Wholes, s

(* Encode makes whole bytes, for every text.                               *)
LEMMA EncodeIsWhole == ASSUME NEW t \in Seq(Char) PROVE Whole(Encode(t))
<1> DEFINE p == [i \in DOMAIN t |-> Shape(t[i])]
<1>1. \A i \in DOMAIN t : Shape(t[i]) \in Wholes
  BY ShapesAreWhole
<1>2. p \in Seq(Wholes)
  <2> DEFINE n == Len(t)
  <2>1. n \in Nat /\ DOMAIN t = 1..n
    OBVIOUS
  <2> HIDE DEF n
  <2>2. p = [i \in 1..n |-> Shape(t[i])]
    BY <2>1
  <2> HIDE DEF p
  <2> QED
    BY <1>1, <2>1, <2>2
<1>3. FlattenSeq(p) \in Wholes
  <2> HIDE DEF p
  <2> QED
    BY <1>2, WholesAreTexts, FlattenTyped
<1>4. Encode(t) = FlattenSeq(p)
  BY DEF Encode, Shape
<1> QED
  BY <1>3, <1>4 DEF Wholes

-----------------------------------------------------------------------------

(* Where a position can be: a cut, and not between CR and LF.              *)
AtPlace(doc, o) ==
  Cut(doc, o) /\ (o \in 1..(Len(doc) - 1) => ~(Is(doc, o - 1, CR) /\ Is(doc, o, LF)))

(* Past steps forward, from a line break to the place after it.            *)
LEMMA PastIsPlace ==
  ASSUME NEW doc, Whole(doc), NEW i \in 0..Len(doc), i < Len(doc)
  PROVE  /\ Past(doc, i) \in 0..Len(doc) /\ Past(doc, i) > i
         /\ AtBreak(doc, i) => AtPlace(doc, Past(doc, i))
<1> DEFINE n == Len(doc)
<1>1. n \in Nat /\ i \in Nat /\ i + 1 \in 1..n
  BY DEF Whole
<1>2. /\ \A j \in 0..(n - 1) : \A c : Is(doc, j, c) <=> doc[j + 1] = <<c, 1>>
      /\ \A c : ~Is(doc, n, c)
  BY <1>1 DEF Is
<1>3. CR # LF /\ Width[CR] = 1 /\ Width[LF] = 1
  BY WidthAssumption
<1>4. ASSUME NEW j \in 0..(n - 1), Is(doc, j, CR) \/ Is(doc, j, LF)
      PROVE  Cut(doc, j + 1)
  <2>1. j + 1 \in 1..n /\ doc[j + 1] \in {<<CR, 1>>, <<LF, 1>>}
    <3>1. j + 1 \in 1..n
      BY <1>1
    <3>2. \A c : Is(doc, j, c) => doc[j + 1] = <<c, 1>>
      BY <1>2
    <3> QED
      BY <1>4, <3>1, <3>2
  <2>2. ASSUME j + 1 < n PROVE doc[(j + 1) + 1][2] = 1
    <3> DEFINE k == (j + 1) + 1
    <3>1. k \in 1..n /\ k - 1 = j + 1
      BY <1>1, <2>2
    <3>2. doc[k] \in Byte
      BY <3>1 DEF Whole
    <3>3. doc[k][2] \in 1..4 /\ doc[k][2] <= Width[doc[k][1]]
      BY <3>2, BytesAre
    <3>4. doc[k][2] > 1 => doc[k - 1] = <<doc[k][1], doc[k][2] - 1>>
      BY <3>1 DEF Whole
    <3> HIDE DEF k
    <3>5. ASSUME doc[k][2] > 1 PROVE FALSE
      <4>1. <<doc[k][1], doc[k][2] - 1>> \in {<<CR, 1>>, <<LF, 1>>}
        BY <2>1, <3>1, <3>4, <3>5
      <4>2. doc[k][1] \in {CR, LF} /\ doc[k][2] = 2
        BY <3>3, <4>1
      <4> QED
        BY <1>3, <3>3, <4>2
    <3>6. doc[k][2] = 1
      BY <3>3, <3>5
    <3> QED
      BY <3>6 DEF k
  <2> QED
    BY <2>1, <2>2 DEF Cut
<1>5. CASE Is(doc, i, CR) /\ Is(doc, i + 1, LF)
  <2>1. Past(doc, i) = i + 2
    BY <1>5 DEF Past
  <2>2. i + 1 \in 0..(n - 1)
    BY <1>1, <1>2, <1>5 DEF Is
  <2>3. Cut(doc, i + 2)
    <3>1. Cut(doc, (i + 1) + 1)
      BY <1>4, <1>5, <2>2
    <3>2. (i + 1) + 1 = i + 2
      BY <1>1
    <3> QED
      BY <3>1, <3>2
  <2>4. doc[i + 2] = <<LF, 1>>
    <3>1. (i + 1) + 1 = i + 2
      BY <1>1
    <3> QED
      BY <1>2, <1>5, <2>2, <3>1
  <2>5. (i + 2) - 1 = i + 1
    BY <1>1
  <2>6. ~Is(doc, i + 1, CR)
    BY <1>2, <1>3, <1>5, <2>2
  <2>7. AtPlace(doc, i + 2)
    BY <2>3, <2>5, <2>6 DEF AtPlace
  <2> QED
    BY <1>1, <2>1, <2>2, <2>7
<1>6. CASE ~(Is(doc, i, CR) /\ Is(doc, i + 1, LF))
  <2>1. Past(doc, i) = i + 1
    BY <1>6 DEF Past
  <2>2. i \in 0..(n - 1)
    BY <1>1
  <2>3. AtBreak(doc, i) => Cut(doc, i + 1)
    BY <1>4, <2>2 DEF AtBreak
  <2>4. (i + 1) - 1 = i
    BY <1>1
  <2>5. AtBreak(doc, i) => AtPlace(doc, i + 1)
    BY <1>6, <2>3, <2>4 DEF AtPlace
  <2> QED
    BY <1>1, <2>1, <2>5
<1> QED
  BY <1>5, <1>6

(* CharacterCount steps forward, over one character from its lead byte.    *)
LEMMA CharacterCountIs ==
  ASSUME NEW doc, Whole(doc), NEW i \in 0..Len(doc), i < Len(doc)
  PROVE  /\ CharacterCount(doc, i).size \in 1..4 /\ CharacterCount(doc, i).count \in Nat
         /\ doc[i + 1][2] = 1 => CharacterCount(doc, i).size = Width[doc[i + 1][1]]
<1>1. doc[i + 1] \in Byte
  BY DEF Whole
<1>2. Width[doc[i + 1][1]] \in 1..4
  BY <1>1, BytesAre
<1>3. Units(doc[i + 1][1]) \in Nat
  BY DEF Units
<1> QED
  BY <1>2, <1>3 DEF CharacterCount

(* A step over a character that ends no line is from place to place.       *)
LEMMA NextIsPlace ==
  ASSUME NEW doc, Whole(doc), NEW i, AtPlace(doc, i), i < Len(doc), ~AtBreak(doc, i)
  PROVE  AtPlace(doc, i + CharacterCount(doc, i).size)
<1> DEFINE n == Len(doc)
           c == doc[i + 1][1]
           w == Width[c]
<1>1. n \in Nat /\ i \in 0..n /\ i < n /\ doc[i + 1][2] = 1 /\ i + 1 \in 1..n
  BY DEF AtPlace, Cut, Whole
<1>2. doc[i + 1] \in Byte
  BY <1>1 DEF Whole
<1>3. w \in 1..4 /\ doc[i + 1] = <<c, 1>> /\ c \in Char
  BY <1>1, <1>2, BytesAre
<1>4. CharacterCount(doc, i).size = w
  BY <1>1, CharacterCountIs
<1>5. ASSUME NEW k \in 1..3, k < w, i + k \in 1..n, doc[i + k] = <<c, k>>
      PROVE  i + (k + 1) \in 1..n /\ doc[i + (k + 1)] = <<c, k + 1>>
  <2> DEFINE j == i + k
  <2>1. j < n /\ doc[j + 1] = <<doc[j][1], doc[j][2] + 1>>
    BY <1>5 DEF Whole
  <2>2. j + 1 = i + (k + 1) /\ j + 1 \in 1..n
    BY <1>1, <2>1
  <2>3. <<doc[j][1], doc[j][2] + 1>> = <<c, k + 1>>
    BY <1>5
  <2> QED
    BY <2>1, <2>2, <2>3
<1> HIDE DEF n, c, w
<1>6. i + w \in 1..n /\ doc[i + w] = <<c, w>>
  <2>1. w > 1 => i + 2 \in 1..n /\ doc[i + 2] = <<c, 2>>
    BY <1>1, <1>3, <1>5
  <2>2. w > 2 => i + 3 \in 1..n /\ doc[i + 3] = <<c, 3>>
    BY <1>1, <1>3, <1>5, <2>1
  <2>3. w > 3 => i + 4 \in 1..n /\ doc[i + 4] = <<c, 4>>
    BY <1>1, <1>3, <1>5, <2>2
  <2> QED
    BY <1>1, <1>3, <2>1, <2>2, <2>3
<1> DEFINE o == i + w
<1>7. ASSUME o < n PROVE doc[o + 1][2] = 1
  <2> DEFINE k == o + 1
  <2>1. k \in 1..n /\ k - 1 = o /\ k \in 1..Len(doc)
    BY <1>1, <1>6, <1>7 DEF n
  <2>2. doc[k] \in Byte
    BY <2>1 DEF Whole
  <2>3. doc[k][2] \in 1..4 /\ doc[k][2] <= Width[doc[k][1]]
    BY <2>2, BytesAre
  <2>4. doc[k][2] > 1 => doc[k - 1] = <<doc[k][1], doc[k][2] - 1>>
    BY <2>1 DEF Whole
  <2> HIDE DEF k
  <2>5. ASSUME doc[k][2] > 1 PROVE FALSE
    <3>1. <<doc[k][1], doc[k][2] - 1>> = <<c, w>>
      BY <1>6, <2>1, <2>4, <2>5
    <3>2. doc[k][1] = c /\ doc[k][2] = w + 1
      BY <1>3, <2>3, <3>1
    <3>3. Width[doc[k][1]] = w
      BY <3>2 DEF w
    <3> QED
      BY <1>3, <2>3, <3>2, <3>3
  <2>6. doc[k][2] = 1
    BY <2>3, <2>5
  <2> QED
    BY <2>6 DEF k
<1>8. Cut(doc, o)
  BY <1>1, <1>6, <1>7 DEF Cut, n
<1>9. ~Is(doc, o - 1, CR)
  <2> SUFFICES ASSUME Is(doc, o - 1, CR) PROVE FALSE
    OBVIOUS
  <2>1. doc[(o - 1) + 1] = <<CR, 1>>
    BY DEF Is
  <2>2. (o - 1) + 1 = o
    BY <1>1, <1>3
  <2>3. <<c, w>> = <<CR, 1>>
    BY <1>6, <2>1, <2>2
  <2>4. Is(doc, i, CR)
    BY <1>1, <1>3, <2>3 DEF Is
  <2> QED
    BY <2>4 DEF AtBreak
<1> QED
  BY <1>4, <1>8, <1>9 DEF AtPlace

(* The beginning is a place.                                               *)
LEMMA StartIsPlace == ASSUME NEW doc, Whole(doc) PROVE AtPlace(doc, 0)
<1>1. Len(doc) \in Nat
  BY DEF Whole
<1>2. ASSUME 0 < Len(doc) PROVE doc[0 + 1][2] = 1
  <2>1. 1 \in 1..Len(doc) /\ doc[1] \in Byte
    BY <1>1, <1>2 DEF Whole
  <2>2. ~(doc[1][2] > 1)
    BY <2>1 DEF Whole
  <2>3. doc[1][2] \in 1..4
    BY <2>1, BytesAre
  <2> QED
    BY <2>2, <2>3
<1> QED
  BY <1>1, <1>2 DEF AtPlace, Cut

-----------------------------------------------------------------------------

(* What LineStart's recursive function says of itself.                     *)
SkipFrom(doc, line, f, at) ==
  IF at[2] = line THEN at[1]
  ELSE IF at[1] = Len(doc) THEN NoOffset
  ELSE f[<<Past(doc, at[1]), IF AtBreak(doc, at[1]) THEN at[2] + 1 ELSE at[2]>>]

Skips(doc, line, f) ==
  f = [at \in (0..Len(doc)) \X (0..line) |-> SkipFrom(doc, line, f, at)]

(* Where it goes on.                                                       *)
SkipAfter(doc, at) == <<Past(doc, at[1]), IF AtBreak(doc, at[1]) THEN at[2] + 1 ELSE at[2]>>

(* It goes on behind, and to a new line from a place only.                 *)
LEMMA SkipGoesOn ==
  ASSUME NEW doc, Whole(doc), NEW line \in Nat, NEW at \in (0..Len(doc)) \X (0..line),
         at[2] # line, at[1] # Len(doc)
  PROVE  /\ SkipAfter(doc, at) \in (0..Len(doc)) \X (0..line)
         /\ Len(doc) - Past(doc, at[1]) < Len(doc) - at[1]
         /\ SkipAfter(doc, at)[1] = Past(doc, at[1])
         /\ SkipAfter(doc, at)[2] = line => AtPlace(doc, Past(doc, at[1]))
<1> DEFINE n == Len(doc)
           q == Past(doc, at[1])
           r == IF AtBreak(doc, at[1]) THEN at[2] + 1 ELSE at[2]
<1>1. n \in Nat
  BY DEF Whole
<1>2. at[1] \in 0..n /\ at[1] < n /\ at[2] \in 0..line /\ at[2] < line
  BY <1>1
<1>3. q \in 0..n /\ q > at[1] /\ (AtBreak(doc, at[1]) => AtPlace(doc, q))
  BY <1>2, PastIsPlace
<1>4. r \in 0..line /\ (r = line => AtBreak(doc, at[1]))
  BY <1>2
<1>5. SkipAfter(doc, at) = <<q, r>>
  BY DEF SkipAfter
<1> HIDE DEF q, r, n
<1>6. /\ SkipAfter(doc, at) \in (0..n) \X (0..line)
      /\ SkipAfter(doc, at)[1] = q /\ SkipAfter(doc, at)[2] = r
  BY <1>3, <1>4, <1>5
<1>7. n - q < n - at[1]
  BY <1>1, <1>2, <1>3
<1> QED
  BY <1>3, <1>4, <1>6, <1>7 DEF q, n

(* There is such a function, and LineStart is its value at the start.      *)
LEMMA SkipExists ==
  ASSUME NEW doc, Whole(doc), NEW line \in Nat
  PROVE  \E f : Skips(doc, line, f) /\ LineStart(doc, line) = f[<<0, 0>>]
<1> DEFINE n == Len(doc)
           D == (0..n) \X (0..line)
           V == Int
           m == [at \in D |-> n - at[1]]
           F == [g \in [D -> V] |-> [at \in D |-> SkipFrom(doc, line, g, at)]]
           after(at) == SkipAfter(doc, at)
           f == CHOOSE g : Skips(doc, line, g)
<1>1. n \in Nat
  BY DEF Whole
<1>2. ASSUME NEW at \in D, at[2] # line, at[1] # n
      PROVE  /\ after(at) \in D /\ n - Past(doc, at[1]) < n - at[1]
             /\ after(at)[1] = Past(doc, at[1])
  BY <1>2, SkipGoesOn
<1>3. \A g : \A at \in D : at[2] # line /\ at[1] # n => SkipFrom(doc, line, g, at) = g[after(at)]
  BY DEF SkipFrom, SkipAfter
<1>4. \A g : \A at \in D : /\ at[2] = line => SkipFrom(doc, line, g, at) = at[1]
                           /\ at[2] # line /\ at[1] = n => SkipFrom(doc, line, g, at) = NoOffset
  BY DEF SkipFrom
<1>5. m \in [D -> Nat] /\ \A at \in D : m[at] = n - at[1]
  BY <1>1
<1>6. \A at \in D : at[1] \in Int
  OBVIOUS
<1> HIDE DEF D, after, m
<1>7. \A g \in [D -> V] : \A at \in D : SkipFrom(doc, line, g, at) \in V
  BY <1>2, <1>3, <1>4, <1>6 DEF NoOffset
<1>8. F \in [[D -> V] -> [D -> V]]
      /\ \A g \in [D -> V] : \A at \in D : F[g][at] = SkipFrom(doc, line, g, at)
  BY <1>7
<1>9. ASSUME NEW at \in D, at[2] # line, at[1] # n PROVE after(at) \in D /\ m[after(at)] < m[at]
  BY <1>2, <1>5, <1>9
<1> HIDE DEF F
<1>10. \A g, h \in [D -> V] : \A x \in D :
         (\A y \in D : m[y] < m[x] => g[y] = h[y]) => F[g][x] = F[h][x]
  <2> SUFFICES ASSUME NEW g \in [D -> V], NEW h \in [D -> V], NEW x \in D,
                      \A y \in D : m[y] < m[x] => g[y] = h[y]
               PROVE  SkipFrom(doc, line, g, x) = SkipFrom(doc, line, h, x)
    BY <1>8
  <2>1. CASE x[2] # line /\ x[1] # n
    BY <1>3, <1>9, <2>1
  <2>2. CASE ~(x[2] # line /\ x[1] # n)
    BY <1>4, <2>2
  <2> QED
    BY <2>1, <2>2
<1>11. Descends(F, D, V, m)
  BY <1>5, <1>8, <1>10 DEF Descends
<1>12. Tells(F, D, V)
  <2>1. V # {}
    OBVIOUS
  <2> HIDE DEF V
  <2> QED
    BY <1>11, <2>1, RecursionHasFixpoint
<1>13. \E g : Skips(doc, line, g)
  <2>1. PICK g \in [D -> V] : g = F[g]
    BY <1>12 DEF Tells
  <2>2. \A at \in D : g[at] = SkipFrom(doc, line, g, at)
    BY <1>8, <2>1
  <2>3. g = [at \in D |-> SkipFrom(doc, line, g, at)]
    BY <2>2
  <2> QED
    BY <2>3 DEF Skips, D
<1>14. Skips(doc, line, f)
  BY <1>13
<1>15. LineStart(doc, line) = f[<<0, 0>>]
  BY DEF LineStart, Skips, SkipFrom
<1> QED
  BY <1>14, <1>15

(* LineStart finds a place or no offset, for every line.                   *)
LEMMA LineStartIs ==
  ASSUME NEW doc, Whole(doc), NEW line \in Nat
  PROVE  LineStart(doc, line) = NoOffset \/ AtPlace(doc, LineStart(doc, line))
<1> DEFINE n == Len(doc)
           D == (0..n) \X (0..line)
           m == [at \in D |-> n - at[1]]
           after(at) == SkipAfter(doc, at)
<1>15. PICK f : Skips(doc, line, f) /\ LineStart(doc, line) = f[<<0, 0>>]
  BY SkipExists
<1>1. n \in Nat
  BY DEF Whole
<1>2. ASSUME NEW at \in D, at[2] # line, at[1] # n
      PROVE  /\ after(at) \in D /\ n - Past(doc, at[1]) < n - at[1]
             /\ after(at)[1] = Past(doc, at[1])
             /\ after(at)[2] = line => AtPlace(doc, Past(doc, at[1]))
  BY <1>2, SkipGoesOn
<1>3. \A at \in D : at[2] # line /\ at[1] # n => SkipFrom(doc, line, f, at) = f[after(at)]
  BY DEF SkipFrom, SkipAfter
<1>4. \A at \in D : /\ at[2] = line => SkipFrom(doc, line, f, at) = at[1]
                    /\ at[2] # line /\ at[1] = n => SkipFrom(doc, line, f, at) = NoOffset
  BY DEF SkipFrom
<1>5. m \in [D -> Nat] /\ \A at \in D : m[at] = n - at[1]
  BY <1>1
<1>16. \A at \in D : f[at] = SkipFrom(doc, line, f, at)
  BY <1>15 DEF Skips
<1> HIDE DEF D, after, m
<1>9. ASSUME NEW at \in D, at[2] # line, at[1] # n PROVE after(at) \in D /\ m[after(at)] < m[at]
  BY <1>2, <1>5, <1>9
<1> DEFINE Good(at) == at[2] = line => AtPlace(doc, at[1])
           Fine(o) == o = NoOffset \/ AtPlace(doc, o)
           T == {d \in Nat : \A at \in D : m[at] <= d /\ Good(at) => Fine(f[at])}
<1>17. ASSUME NEW d \in Int, \A y \in D : m[y] < d /\ Good(y) => Fine(f[y]),
              NEW at \in D, m[at] <= d, Good(at)
       PROVE  Fine(f[at])
  <2>1. CASE at[2] # line /\ at[1] # n
    <3>1. f[at] = f[after(at)] /\ after(at) \in D /\ m[after(at)] < m[at]
      BY <1>3, <1>9, <1>16, <2>1
    <3>2. Good(after(at))
      BY <1>2, <2>1
    <3>3. m[after(at)] \in Nat /\ m[at] \in Nat
      BY <1>5, <3>1
    <3>4. m[after(at)] < d
      BY <1>17, <3>1, <3>3
    <3> QED
      BY <1>17, <3>1, <3>2, <3>4
  <2>2. CASE ~(at[2] # line /\ at[1] # n)
    BY <1>4, <1>16, <1>17, <2>2
  <2> QED
    BY <2>1, <2>2
<1> HIDE DEF Good, Fine
<1>18. 0 \in T
  <2>1. \A y \in D : m[y] \in Nat
    BY <1>5
  <2>2. \A y \in D : ~(m[y] < 0)
    BY <2>1
  <2> QED
    BY <1>17, <2>2
<1>19. ASSUME NEW d \in Nat, d \in T PROVE d + 1 \in T
  <2>1. \A y \in D : m[y] < d + 1 => m[y] <= d
    BY <1>5
  <2>2. \A y \in D : m[y] < d + 1 /\ Good(y) => Fine(f[y])
    BY <1>19, <2>1
  <2>3. d + 1 \in Int
    OBVIOUS
  <2> QED
    BY <1>17, <2>2, <2>3
<1>20. \A d \in Nat : d \in T
  <2> HIDE DEF T
  <2> QED
    BY <1>18, <1>19, InductionOnNat
<1>21. <<0, 0>> \in D /\ Good(<<0, 0>>)
  <2>1. <<0, 0>> \in D
    BY <1>1 DEF D
  <2>2. AtPlace(doc, 0)
    BY StartIsPlace
  <2> QED
    BY <2>1, <2>2 DEF Good
<1>22. Fine(f[<<0, 0>>])
  <2>1. m[<<0, 0>>] \in Nat
    BY <1>5, <1>21
  <2> QED
    BY <1>20, <1>21, <2>1
<1> QED
  BY <1>15, <1>22 DEF Fine

(* What GetOffset's recursive function says of itself.                     *)
WalkFrom(doc, column, f, at) ==
  IF at[1] >= Len(doc) \/ AtBreak(doc, at[1]) \/ at[2] = column THEN at[1]
  ELSE f[<<at[1] + CharacterCount(doc, at[1]).size, at[2] + CharacterCount(doc, at[1]).count>>]

Walks(doc, column, f) == f = [at \in Nat \X Nat |-> WalkFrom(doc, column, f, at)]

(* Where it goes on.                                                       *)
WalkAfter(doc, at) == <<at[1] + CharacterCount(doc, at[1]).size,
                        at[2] + CharacterCount(doc, at[1]).count>>
WalkEnds(doc, column, at) == at[1] >= Len(doc) \/ AtBreak(doc, at[1]) \/ at[2] = column
WalkLeft(doc) == [at \in Nat \X Nat |-> IF at[1] >= Len(doc) THEN 0 ELSE Len(doc) - at[1]]

(* It goes on behind, from place to place.                                 *)
LEMMA WalkGoesOn ==
  ASSUME NEW doc, Whole(doc), NEW column, NEW at \in Nat \X Nat, ~WalkEnds(doc, column, at)
  PROVE  /\ WalkAfter(doc, at) \in Nat \X Nat
         /\ WalkLeft(doc)[WalkAfter(doc, at)] < WalkLeft(doc)[at]
         /\ AtPlace(doc, at[1]) => AtPlace(doc, WalkAfter(doc, at)[1])
<1> DEFINE n == Len(doc)
           D == Nat \X Nat
           m == WalkLeft(doc)
           after(a) == WalkAfter(doc, a)
           ends(a) == WalkEnds(doc, column, a)
           i == at[1]
           u == at[2]
           z == CharacterCount(doc, i).size
           k == CharacterCount(doc, i).count
<1>0. n \in Nat
  BY DEF Whole
<1>a. \A a \in D : m[a] = IF a[1] >= n THEN 0 ELSE n - a[1]
  BY DEF WalkLeft
<1>1. i \in Nat /\ i < n /\ i \in 0..n /\ ~AtBreak(doc, i) /\ u \in Nat
  BY <1>0 DEF WalkEnds
<1>2. z \in 1..4 /\ k \in Nat
  BY <1>1, CharacterCountIs
<1>3. AtPlace(doc, i) => AtPlace(doc, i + z)
  BY <1>1, NextIsPlace
<1>4. after(at) = <<i + z, u + k>> /\ m[at] = n - i
  BY <1>a, <1>1 DEF WalkAfter
<1> HIDE DEF i, z, k, u, after, m
<1>5. after(at) \in D /\ after(at)[1] = i + z
  BY <1>1, <1>2, <1>4
<1>6. m[after(at)] = IF i + z >= n THEN 0 ELSE n - (i + z)
  BY <1>a, <1>5
<1>7. m[after(at)] < m[at]
  BY <1>0, <1>1, <1>2, <1>4, <1>6
<1> QED
  BY <1>3, <1>5, <1>7 DEF i, after, m

(* There is such a function, and GetOffset its value at the line's start.  *)
LEMMA WalkExists ==
  ASSUME NEW doc, Whole(doc), NEW line \in Nat, NEW column
  PROVE  \E f : /\ Walks(doc, column, f)
                /\ GetOffset(doc, line, column) =
                     IF LineStart(doc, line) = NoOffset THEN NoOffset
                     ELSE f[<<LineStart(doc, line), 0>>]
<1> DEFINE n == Len(doc)
           D == Nat \X Nat
           V == Nat
           m == WalkLeft(doc)
           F == [g \in [D -> V] |-> [at \in D |-> WalkFrom(doc, column, g, at)]]
           after(at) == WalkAfter(doc, at)
           ends(at) == WalkEnds(doc, column, at)
           f == CHOOSE g : Walks(doc, column, g)
           start == LineStart(doc, line)
<1>1. n \in Nat
  BY DEF Whole
<1>2. m \in [D -> Nat]
  BY <1>1 DEF WalkLeft
<1>3. ASSUME NEW at \in D, ~ends(at) PROVE after(at) \in D /\ m[after(at)] < m[at]
  BY <1>3, WalkGoesOn
<1>4. \A g : \A at \in D : /\ ~ends(at) => WalkFrom(doc, column, g, at) = g[after(at)]
                           /\ ends(at) => WalkFrom(doc, column, g, at) = at[1]
  BY DEF WalkFrom, WalkAfter, WalkEnds
<1>5. \A at \in D : at[1] \in V
  OBVIOUS
<1> HIDE DEF D, after, m, ends
<1>6. \A g \in [D -> V] : \A at \in D : WalkFrom(doc, column, g, at) \in V
  <2> HIDE DEF V
  <2> QED
    BY <1>3, <1>4, <1>5
<1>7. F \in [[D -> V] -> [D -> V]]
      /\ \A g \in [D -> V] : \A at \in D : F[g][at] = WalkFrom(doc, column, g, at)
  BY <1>6
<1> HIDE DEF F
<1>8. \A g, h \in [D -> V] : \A x \in D :
        (\A y \in D : m[y] < m[x] => g[y] = h[y]) => F[g][x] = F[h][x]
  <2> SUFFICES ASSUME NEW g \in [D -> V], NEW h \in [D -> V], NEW x \in D,
                      \A y \in D : m[y] < m[x] => g[y] = h[y]
               PROVE  WalkFrom(doc, column, g, x) = WalkFrom(doc, column, h, x)
    BY <1>7
  <2>1. CASE ~ends(x)
    BY <1>3, <1>4, <2>1
  <2>2. CASE ends(x)
    BY <1>4, <2>2
  <2> QED
    BY <2>1, <2>2
<1>9. Descends(F, D, V, m)
  BY <1>2, <1>7, <1>8 DEF Descends
<1>10. Tells(F, D, V)
  <2>1. V # {}
    OBVIOUS
  <2> HIDE DEF V
  <2> QED
    BY <1>9, <2>1, RecursionHasFixpoint
<1>11. \E g : Walks(doc, column, g)
  <2>1. PICK g \in [D -> V] : g = F[g]
    BY <1>10 DEF Tells
  <2>2. \A at \in D : g[at] = WalkFrom(doc, column, g, at)
    BY <1>7, <2>1
  <2>3. g = [at \in D |-> WalkFrom(doc, column, g, at)]
    BY <2>2
  <2> QED
    BY <2>3 DEF Walks, D
<1>12. Walks(doc, column, f)
  BY <1>11
<1>13. GetOffset(doc, line, column) = IF start = NoOffset THEN NoOffset ELSE f[<<start, 0>>]
  BY DEF GetOffset, Walks, WalkFrom
<1> QED
  BY <1>12, <1>13

(* GetOffset finds a place or no offset, for every line and column.        *)
LEMMA GetOffsetIs ==
  ASSUME NEW doc, Whole(doc), NEW line \in Nat, NEW column
  PROVE  GetOffset(doc, line, column) = NoOffset \/ AtPlace(doc, GetOffset(doc, line, column))
<1> DEFINE n == Len(doc)
           D == Nat \X Nat
           m == WalkLeft(doc)
           after(at) == WalkAfter(doc, at)
           ends(at) == WalkEnds(doc, column, at)
           start == LineStart(doc, line)
<1>13. PICK f : /\ Walks(doc, column, f)
                /\ GetOffset(doc, line, column) = IF start = NoOffset THEN NoOffset ELSE f[<<start, 0>>]
  BY WalkExists
<1>1. n \in Nat
  BY DEF Whole
<1>2. m \in [D -> Nat]
  BY <1>1 DEF WalkLeft
<1>3. ASSUME NEW at \in D, ~ends(at)
      PROVE  /\ after(at) \in D /\ m[after(at)] < m[at]
             /\ AtPlace(doc, at[1]) => AtPlace(doc, after(at)[1])
  BY <1>3, WalkGoesOn
<1>4. \A at \in D : /\ ~ends(at) => WalkFrom(doc, column, f, at) = f[after(at)]
                    /\ ends(at) => WalkFrom(doc, column, f, at) = at[1]
  BY DEF WalkFrom, WalkAfter, WalkEnds
<1>14. \A at \in D : f[at] = WalkFrom(doc, column, f, at)
  BY <1>13 DEF Walks
<1> HIDE DEF D, after, m, ends
<1> DEFINE T == {d \in Nat : \A at \in D : m[at] <= d /\ AtPlace(doc, at[1]) => AtPlace(doc, f[at])}
<1>15. ASSUME NEW d \in Int, \A y \in D : m[y] < d /\ AtPlace(doc, y[1]) => AtPlace(doc, f[y]),
              NEW at \in D, m[at] <= d, AtPlace(doc, at[1])
       PROVE  AtPlace(doc, f[at])
  <2>1. CASE ~ends(at)
    <3>1. /\ f[at] = f[after(at)] /\ after(at) \in D /\ m[after(at)] < m[at]
          /\ AtPlace(doc, after(at)[1])
      BY <1>3, <1>4, <1>14, <1>15, <2>1
    <3>2. m[after(at)] \in Nat /\ m[at] \in Nat
      BY <1>2, <3>1
    <3>3. m[after(at)] < d
      BY <1>15, <3>1, <3>2
    <3> QED
      BY <1>15, <3>1, <3>3
  <2>2. CASE ends(at)
    BY <1>4, <1>14, <1>15, <2>2
  <2> QED
    BY <2>1, <2>2
<1>16. 0 \in T
  <2>1. \A y \in D : m[y] \in Nat
    BY <1>2
  <2>2. \A y \in D : ~(m[y] < 0)
    BY <2>1
  <2> QED
    BY <1>15, <2>2
<1>17. ASSUME NEW d \in Nat, d \in T PROVE d + 1 \in T
  <2>1. \A y \in D : m[y] < d + 1 => m[y] <= d
    <3>1. \A y \in D : m[y] \in Nat
      BY <1>2
    <3> QED
      BY <3>1
  <2>2. \A y \in D : m[y] < d + 1 /\ AtPlace(doc, y[1]) => AtPlace(doc, f[y])
    BY <1>17, <2>1
  <2>3. d + 1 \in Int
    OBVIOUS
  <2> QED
    BY <1>15, <2>2, <2>3
<1>18. \A d \in Nat : d \in T
  <2> HIDE DEF T
  <2> QED
    BY <1>16, <1>17, InductionOnNat
<1>19. CASE start # NoOffset
  <2>1. AtPlace(doc, start)
    BY <1>19, LineStartIs
  <2>2. start \in Nat
    BY <2>1 DEF AtPlace, Cut
  <2> HIDE DEF start
  <2> DEFINE at == <<start, 0>>
  <2>3. at \in D /\ at[1] = start
    BY <2>2 DEF D
  <2> HIDE DEF at
  <2>4. m[at] \in Nat /\ m[at] \in T
    BY <1>2, <1>18, <2>3
  <2>5. AtPlace(doc, f[at])
    BY <2>1, <2>3, <2>4
  <2> QED
    BY <1>13, <1>19, <2>5 DEF at
<1>20. CASE start = NoOffset
  BY <1>13, <1>20
<1> QED
  BY <1>19, <1>20

(* Bytes of whole characters but for the last, which may be cut short.     *)
Half(s) ==
  /\ s \in Seq(Byte)
  /\ \A i \in 1..Len(s) :
       /\ s[i][2] < Width[s[i][1]] /\ i < Len(s) =>
            s[i + 1] = <<s[i][1], s[i][2] + 1>>
       /\ s[i][2] > 1 => i > 1 /\ s[i - 1] = <<s[i][1], s[i][2] - 1>>

(* The last is not cut short.                                              *)
Ended(s) == s = <<>> \/ ~(s[Len(s)][2] < Width[s[Len(s)][1]])

(* Byte b goes on with the last character or begins the next one.          *)
Follows(s, b) ==
  \/ b[2] = 1 /\ Ended(s)
  \/ b[2] > 1 /\ s # <<>> /\ s[Len(s)] = <<b[1], b[2] - 1>>

(* Bytes not cut short are whole.                                          *)
LEMMA HalfIsWhole == ASSUME NEW s, Half(s), Ended(s) PROVE Whole(s)
<1>1. s \in Seq(Byte)
  BY DEF Half
<1>2. ASSUME NEW i \in 1..Len(s), s[i][2] < Width[s[i][1]] PROVE i < Len(s)
  <2>1. s # <<>> /\ Len(s) \in Nat
    BY <1>1
  <2>2. i # Len(s)
    BY <1>2, <2>1 DEF Ended
  <2> QED
    BY <2>1, <2>2
<1> QED
  BY <1>1, <1>2 DEF Half, Whole

(* Whole bytes are not cut short.                                          *)
LEMMA WholeIsHalf == ASSUME NEW s, Whole(s) PROVE Half(s) /\ Ended(s)
<1>1. Half(s)
  BY DEF Half, Whole
<1>2. Ended(s)
  <2> SUFFICES ASSUME s # <<>>, s[Len(s)][2] < Width[s[Len(s)][1]] PROVE FALSE
    BY DEF Ended
  <2>1. Len(s) \in 1..Len(s)
    BY <1>1 DEF Half
  <2>2. Len(s) < Len(s)
    BY <2>1 DEF Whole
  <2> QED
    BY <2>1, <2>2
<1> QED
  BY <1>1, <1>2

(* One more byte, where it belongs.                                        *)
LEMMA HalfGrows ==
  ASSUME NEW s, Half(s), NEW b \in Byte, Follows(s, b)
  PROVE  /\ Half(s \o <<b>>) /\ s \o <<b>> # <<>>
         /\ (s \o <<b>>)[Len(s \o <<b>>)] = b
<1> DEFINE t == s \o <<b>>
           n == Len(s)
<1>1. /\ s \in Seq(Byte) /\ n \in Nat /\ t \in Seq(Byte) /\ Len(t) = n + 1 /\ t[n + 1] = b
      /\ \A i \in 1..n : t[i] = s[i]
      /\ s # <<>> <=> n > 0
  BY DEF Half
<1>2. b = <<b[1], b[2]>> /\ b[2] \in 1..4
  BY BytesAre
<1> HIDE DEF t
<1>3. ASSUME NEW i \in 1..n
      PROVE  /\ t[i][2] < Width[t[i][1]] => t[i + 1] = <<t[i][1], t[i][2] + 1>>
             /\ t[i][2] > 1 => i > 1 /\ t[i - 1] = <<t[i][1], t[i][2] - 1>>
  <2>1. s[i] \in Byte /\ s[i][2] \in 1..4
    BY <1>1, <1>3, BytesAre
  <2>2. t[i] = s[i] /\ (i < n => t[i + 1] = s[i + 1]) /\ (i > 1 => t[i - 1] = s[i - 1])
    <3>1. (i < n => i + 1 \in 1..n) /\ (i > 1 => i - 1 \in 1..n)
      BY <1>1, <1>3
    <3> HIDE DEF n
    <3> QED
      BY <1>1, <1>3, <3>1
  <2>3. /\ s[i][2] < Width[s[i][1]] /\ i < n => s[i + 1] = <<s[i][1], s[i][2] + 1>>
        /\ s[i][2] > 1 => i > 1 /\ s[i - 1] = <<s[i][1], s[i][2] - 1>>
    BY <1>3 DEF Half
  <2>4. CASE i < n
    BY <2>2, <2>3, <2>4
  <2>5. CASE ~(i < n)
    <3>1. i = n /\ n > 0 /\ s # <<>>
      BY <1>1, <1>3, <2>5
    <3>2. ASSUME s[i][2] < Width[s[i][1]] PROVE t[i + 1] = <<s[i][1], s[i][2] + 1>>
      <4>1. ~Ended(s)
        BY <3>1, <3>2 DEF Ended
      <4>2. s[n] = <<b[1], b[2] - 1>>
        BY <4>1 DEF Follows
      <4>3. b = <<s[i][1], s[i][2] + 1>>
        <5>1. s[i][1] = b[1] /\ s[i][2] = b[2] - 1
          BY <3>1, <4>2
        <5>2. s[i][2] + 1 = b[2]
          BY <1>2, <5>1
        <5> QED
          BY <1>2, <5>1, <5>2
      <4> QED
        BY <1>1, <3>1, <4>3
    <3> QED
      BY <2>2, <2>3, <3>2
  <2> QED
    BY <2>4, <2>5
<1>4. t[n + 1][2] > 1 => n + 1 > 1 /\ t[(n + 1) - 1] = <<t[n + 1][1], t[n + 1][2] - 1>>
  <2> SUFFICES ASSUME b[2] > 1 PROVE n + 1 > 1 /\ t[n] = <<b[1], b[2] - 1>>
    <3>1. (n + 1) - 1 = n
      BY <1>1
    <3> QED
      BY <1>1, <3>1
  <2>1. s # <<>> /\ s[n] = <<b[1], b[2] - 1>>
    BY <1>2 DEF Follows
  <2> QED
    BY <1>1, <2>1
<1>5. Half(t)
  <2> SUFFICES ASSUME NEW i \in 1..(n + 1)
               PROVE  /\ t[i][2] < Width[t[i][1]] /\ i < n + 1 =>
                           t[i + 1] = <<t[i][1], t[i][2] + 1>>
                      /\ t[i][2] > 1 => i > 1 /\ t[i - 1] = <<t[i][1], t[i][2] - 1>>
    BY <1>1 DEF Half
  <2>1. CASE i \in 1..n
    BY <1>3, <2>1
  <2>2. CASE i \notin 1..n
    <3>1. i = n + 1 /\ ~(i < n + 1)
      BY <1>1, <2>2
    <3> QED
      BY <1>4, <3>1
  <2> QED
    BY <2>1, <2>2
<1>6. t # <<>>
  BY <1>1
<1> QED
  BY <1>1, <1>5, <1>6 DEF t

(* The bytes that end lines.                                               *)
Breaks == {<<CR, 1>>, <<LF, 1>>}

(* What TransformUTF8ToLF makes of byte i.                                 *)
Part(doc, i) ==
  IF Is(doc, i - 1, CR) THEN <<<<LF, 1>>>>
  ELSE IF Is(doc, i - 1, LF) /\ i > 1 /\ Is(doc, i - 2, CR) THEN <<>>
  ELSE <<doc[i]>>

(* What it has made of the first k bytes: s ends as they end.              *)
MadeOf(doc, k, s) ==
  /\ Half(s)
  /\ IF k = 0 \/ doc[k] \in Breaks THEN Ended(s) ELSE s # <<>> /\ s[Len(s)] = doc[k]

(* Line breaks are characters of one byte.                                 *)
LEMMA BreaksAre ==
  /\ Breaks \subseteq Byte
  /\ \A b \in Breaks : b[2] = 1 /\ Width[b[1]] = 1
<1>1. CR \in Char /\ LF \in Char /\ Width[CR] = 1 /\ Width[LF] = 1
  BY WidthAssumption DEF Char
<1>2. 1 \in 1..Width[CR] /\ 1 \in 1..Width[LF]
  BY <1>1
<1>3. <<CR, 1>> \in Byte /\ <<LF, 1>> \in Byte
  BY <1>1, <1>2, BytesMade
<1>4. \A b \in Breaks : b[2] = 1 /\ Width[b[1]] = 1
  BY <1>1 DEF Breaks
<1> QED
  BY <1>3, <1>4 DEF Breaks

(* After a whole character, what was made is whole too.                    *)
LEMMA MadeIsEnded ==
  ASSUME NEW doc, Whole(doc), NEW k \in 0..Len(doc), NEW s, MadeOf(doc, k, s),
         k > 0 => ~(doc[k][2] < Width[doc[k][1]])
  PROVE  Ended(s)
<1>1. CASE k = 0 \/ doc[k] \in Breaks
  BY <1>1 DEF MadeOf
<1>2. CASE ~(k = 0 \/ doc[k] \in Breaks)
  BY <1>2 DEF MadeOf, Ended
<1> QED
  BY <1>1, <1>2

(* The next byte keeps it so.                                              *)
LEMMA MadeGrows ==
  ASSUME NEW doc, Whole(doc), NEW k \in Nat, k + 1 \in 1..Len(doc), NEW s, MadeOf(doc, k, s)
  PROVE  MadeOf(doc, k + 1, s \o Part(doc, k + 1))
<1> DEFINE b == doc[k + 1]
           n == Len(doc)
<1>1. n \in Nat /\ b \in Byte /\ s \in Seq(Byte) /\ k \in 0..n
  BY DEF Whole, MadeOf, Half
<1>2. b = <<b[1], b[2]>> /\ b[2] \in 1..4
  BY <1>1, BytesAre
<1>3. /\ \A c : Is(doc, k, c) <=> b = <<c, 1>>
      /\ (k + 1) - 1 = k /\ (k + 1) - 2 = k - 1 /\ (k + 1 > 1 <=> k > 0)
      /\ \A c : k > 0 => (Is(doc, k - 1, c) <=> doc[k] = <<c, 1>>)
  BY <1>1 DEF Is
<1>4. k > 0 => /\ k \in 1..n /\ doc[k] \in Byte
               /\ doc[k][2] < Width[doc[k][1]] => b = <<doc[k][1], doc[k][2] + 1>>
  BY <1>1 DEF Whole
<1>5. b[2] > 1 => k > 0 /\ doc[k] = <<b[1], b[2] - 1>>
  <2>1. k + 1 > 1 => k > 0
    BY <1>1
  <2> QED
    BY <1>3, <2>1 DEF Whole
<1> HIDE DEF b
<1>6. b[2] = 1 => Ended(s)
  <2> SUFFICES ASSUME b[2] = 1 PROVE Ended(s)
    OBVIOUS
  <2>1. ASSUME k > 0, doc[k][2] < Width[doc[k][1]] PROVE FALSE
    <3>1. b[2] = doc[k][2] + 1 /\ doc[k][2] \in 1..4
      BY <1>4, <2>1, BytesAre
    <3> QED
      BY <3>1
  <2> QED
    BY <1>1, <2>1, MadeIsEnded
<1>7. b \in Breaks => b[2] = 1 /\ Ended(s)
  BY <1>6, BreaksAre
<1>8. <<LF, 1>> \in Breaks /\ <<LF, 1>> \in Byte /\ <<LF, 1>>[2] = 1
  BY BreaksAre DEF Breaks
<1>9. CASE b = <<CR, 1>>
  <2>1. Part(doc, k + 1) = <<<<LF, 1>>>>
    BY <1>3, <1>9 DEF Part
  <2>2. b \in Breaks
    BY <1>9 DEF Breaks
  <2> DEFINE l == <<LF, 1>>
             t == s \o <<l>>
  <2>3. Follows(s, l)
    BY <1>7, <2>2 DEF Follows
  <2>4. Half(t) /\ t # <<>> /\ t[Len(t)] = l
    <3> HIDE DEF l
    <3>1. l \in Byte /\ Half(s)
      BY <1>8 DEF l, MadeOf
    <3> QED
      BY <2>3, <3>1, HalfGrows
  <2>5. Ended(t)
    <3>1. l[2] = 1 /\ Width[l[1]] = 1
      BY <1>8, BreaksAre
    <3> HIDE DEF l, t
    <3> QED
      BY <2>4, <3>1 DEF Ended
  <2>6. MadeOf(doc, k + 1, t)
    <3> HIDE DEF t
    <3> QED
      BY <2>2, <2>4, <2>5 DEF MadeOf, b
  <2> QED
    BY <2>1, <2>6
<1>10. CASE b = <<LF, 1>> /\ k > 0 /\ doc[k] = <<CR, 1>>
  <2>0. CR # LF
    BY WidthAssumption
  <2>1. Part(doc, k + 1) = <<>>
    <3>1. ~Is(doc, k, CR)
      BY <1>3, <1>10, <2>0
    <3> QED
      BY <1>3, <1>10, <3>1 DEF Part
  <2>2. b \in Breaks /\ s \o <<>> = s
    BY <1>1, <1>10 DEF Breaks
  <2>3. MadeOf(doc, k + 1, s)
    BY <1>7, <2>2 DEF MadeOf, b
  <2> QED
    BY <2>1, <2>2, <2>3
<1>11. CASE b # <<CR, 1>> /\ ~(b = <<LF, 1>> /\ k > 0 /\ doc[k] = <<CR, 1>>)
  <2>1. Part(doc, k + 1) = <<b>>
    BY <1>3, <1>11 DEF Part, b
  <2>2. Follows(s, b)
    <3>1. CASE b[2] = 1
      BY <1>6, <3>1 DEF Follows
    <3>2. CASE b[2] # 1
      <4>1. b[2] > 1 /\ k > 0 /\ doc[k] = <<b[1], b[2] - 1>>
        BY <1>2, <1>5, <3>2
      <4>2. doc[k] \notin Breaks
        <5> SUFFICES ASSUME doc[k] \in Breaks PROVE FALSE
          OBVIOUS
        <5>1. Width[doc[k][1]] = 1 /\ doc[k][1] = b[1]
          BY <4>1, BreaksAre
        <5>2. b[2] \in 1..Width[b[1]]
          BY <1>1, BytesAre
        <5> QED
          BY <4>1, <5>1, <5>2
      <4>3. s # <<>> /\ s[Len(s)] = doc[k]
        BY <4>1, <4>2 DEF MadeOf
      <4> QED
        BY <4>1, <4>3 DEF Follows
    <3> QED
      BY <3>1, <3>2
  <2> DEFINE t == s \o <<b>>
  <2>3. Half(t) /\ t # <<>> /\ t[Len(t)] = b
    BY <1>1, <2>2, HalfGrows DEF MadeOf
  <2>4. b \in Breaks => Ended(t)
    <3> HIDE DEF t
    <3> QED
      BY <2>3, BreaksAre DEF Ended
  <2>5. MadeOf(doc, k + 1, t)
    <3>1. k + 1 # 0
      OBVIOUS
    <3> HIDE DEF t
    <3> QED
      BY <2>3, <2>4, <3>1 DEF MadeOf, b
  <2> QED
    BY <2>1, <2>5
<1> QED
  BY <1>9, <1>10, <1>11

(* TransformUTF8ToLF makes whole bytes of whole bytes.                     *)
LEMMA TransformIsWhole == ASSUME NEW doc, Whole(doc) PROVE Whole(TransformUTF8ToLF(doc))
<1> DEFINE V == Seq(Byte)
           n == Len(doc)
           p == [i \in DOMAIN doc |-> Part(doc, i)]
           pre(k) == FlattenSeq(SubSeq(p, 1, k))
           T == {k \in Nat : k <= n => MadeOf(doc, k, pre(k))}
<1>1. doc \in V /\ n \in Nat /\ DOMAIN doc = 1..n
  BY DEF Whole
<1>2. \A i \in 1..n : Part(doc, i) \in V
  <2> SUFFICES ASSUME NEW i \in 1..n PROVE Part(doc, i) \in V
    OBVIOUS
  <2>1. <<LF, 1>> \in Byte /\ doc[i] \in Byte
    BY <1>1, BreaksAre DEF Breaks
  <2> HIDE DEF n
  <2>2. <<<<LF, 1>>>> \in V /\ <<>> \in V /\ <<doc[i]>> \in V
    BY <2>1
  <2> QED
    BY <2>2 DEF Part
<1>3. p \in Seq(V) /\ Len(p) = n /\ \A i \in 1..n : p[i] = Part(doc, i)
  <2> HIDE DEF V, n
  <2>1. p = [i \in 1..n |-> Part(doc, i)]
    BY <1>1
  <2> HIDE DEF p
  <2> QED
    BY <1>1, <1>2, <2>1
<1>4. Texts(V)
  BY SequencesAreTexts
<1>5. TransformUTF8ToLF(doc) = FlattenSeq(p)
  BY DEF TransformUTF8ToLF, Part
<1> HIDE DEF p, V
<1>6. 0 \in T
  <2>1. pre(0) = <<>>
    <3>1. SubSeq(p, 1, 0) = <<>>
      BY <1>3
    <3> QED
      BY <3>1, FlattenEmpty
  <2>2. Whole(<<>>)
    BY DEF Whole
  <2>3. Half(<<>>) /\ Ended(<<>>)
    BY <2>2, WholeIsHalf
  <2> QED
    BY <2>1, <2>3 DEF MadeOf
<1>7. ASSUME NEW k \in Nat, k \in T PROVE k + 1 \in T
  <2> SUFFICES ASSUME k + 1 \in 1..n PROVE MadeOf(doc, k + 1, pre(k + 1))
    OBVIOUS
  <2>1. MadeOf(doc, k, pre(k))
    BY <1>7
  <2> DEFINE a == SubSeq(p, 1, k)
             c == p[k + 1]
  <2>2. a \in Seq(V) /\ c \in V /\ SubSeq(p, 1, k + 1) = Append(a, c)
    BY <1>3, PrefixGrows
  <2>3. c = Part(doc, k + 1)
    BY <1>3
  <2>4. pre(k) = FlattenSeq(a)
    OBVIOUS
  <2> HIDE DEF a, c
  <2>5. FlattenSeq(Append(a, c)) = Cat(FlattenSeq(a), c)
    BY <1>4, <2>2, FlattenAppend
  <2>6. pre(k + 1) = pre(k) \o Part(doc, k + 1)
    BY <2>2, <2>3, <2>4, <2>5 DEF Cat
  <2> HIDE DEF pre
  <2> QED
    BY <2>1, <2>6, MadeGrows
<1>8. \A k \in Nat : k \in T
  <2> HIDE DEF T
  <2> QED
    BY <1>6, <1>7, InductionOnNat
<1>9. MadeOf(doc, n, pre(n))
  BY <1>1, <1>8
<1>10. SubSeq(p, 1, n) = p
  BY <1>3
<1>11. Ended(pre(n))
  <2>1. ASSUME n > 0, doc[n][2] < Width[doc[n][1]] PROVE FALSE
    <3>1. n \in 1..Len(doc)
      BY <1>1, <2>1
    <3>2. n < Len(doc)
      BY <2>1, <3>1 DEF Whole
    <3> QED
      BY <1>1, <3>2
  <2>2. n \in 0..Len(doc)
    BY <1>1
  <2> HIDE DEF pre
  <2> QED
    BY <1>9, <2>1, <2>2, MadeIsEnded
<1>12. Half(pre(n))
  BY <1>9 DEF MadeOf
<1>13. Whole(pre(n))
  <2> HIDE DEF pre
  <2> QED
    BY <1>11, <1>12, HalfIsWhole
<1> QED
  BY <1>5, <1>10, <1>13

(* A line is a number; the column may be anything.                         *)
Named(p) == p.line \in Nat
IsChange(c) == Named(c.start) /\ Named(c.end) /\ c.text \in Seq(Char)

Answers == [done : BOOLEAN, raw : Wholes]

(* One change of a notification leaves whole bytes, done or refused.       *)
LEMMA EditIsWhole ==
  ASSUME NEW bytes \in Wholes, NEW c, IsChange(c)
  PROVE  Edit(bytes, c) \in Answers
<1> DEFINE from == GetOffset(bytes, c.start.line, c.start.character)
           to   == GetOffset(bytes, c.end.line, c.end.character)
           by   == Encode(c.text)
           new  == Replace(bytes, from, to, by)
<1>1. Whole(bytes)
  BY DEF Wholes
<1>2. /\ from = NoOffset \/ Cut(bytes, from)
      /\ to = NoOffset \/ Cut(bytes, to)
  <2>1. c.start.line \in Nat /\ c.end.line \in Nat
    BY DEF IsChange, Named
  <2>2. \A line \in Nat : \A column :
          GetOffset(bytes, line, column) = NoOffset \/ AtPlace(bytes, GetOffset(bytes, line, column))
    BY <1>1, GetOffsetIs
  <2>3. \A o : AtPlace(bytes, o) => Cut(bytes, o)
    BY DEF AtPlace
  <2> QED
    BY <2>1, <2>2, <2>3
<1>3. Whole(by)
  BY EncodeIsWhole DEF IsChange
<1>4. Edit(bytes, c) = IF from = NoOffset \/ to = NoOffset \/ to < from
                       THEN [done |-> FALSE, raw |-> bytes]
                       ELSE [done |-> TRUE, raw |-> new]
  BY DEF Edit
<1> HIDE DEF from, to, by
<1>5. CASE from = NoOffset \/ to = NoOffset \/ to < from
  BY <1>4, <1>5 DEF Answers
<1>6. CASE ~(from = NoOffset \/ to = NoOffset \/ to < from)
  <2>1. Whole(new)
    BY <1>1, <1>2, <1>3, <1>6, WholeReplace
  <2> HIDE DEF new
  <2>2. new \in Wholes
    BY <2>1 DEF Wholes, Whole
  <2> QED
    BY <1>4, <1>6, <2>2 DEF Answers
<1> QED
  BY <1>5, <1>6

(* What DidChanges' recursive function says of itself.                     *)
ApplyTo(bytes, changes, f, i) ==
  IF i = 0 THEN [done |-> TRUE, raw |-> bytes]
  ELSE IF f[i - 1].done THEN Edit(f[i - 1].raw, changes[i])
  ELSE f[i - 1]

Applies(bytes, changes, f) ==
  f = [i \in 0..Len(changes) |-> ApplyTo(bytes, changes, f, i)]

(* There is such a function, and DidChanges is its last value.             *)
LEMMA ChangesExist ==
  ASSUME NEW bytes, Whole(bytes), NEW changes, Len(changes) \in Nat,
         \A i \in 1..Len(changes) : IsChange(changes[i])
  PROVE  \E f : Applies(bytes, changes, f) /\ DidChanges(bytes, changes) = f[Len(changes)]
<1> DEFINE n == Len(changes)
           D == 0..n
           V == Answers
           m == [i \in D |-> i]
           F == [g \in [D -> V] |-> [i \in D |-> ApplyTo(bytes, changes, g, i)]]
           f == CHOOSE g : Applies(bytes, changes, g)
<1>1. n \in Nat
  OBVIOUS
<1>2. bytes \in Wholes /\ [done |-> TRUE, raw |-> bytes] \in V
  BY DEF Wholes, Whole, Answers
<1>3. \A e \in V : e.raw \in Wholes
  BY DEF Answers
<1>4. m \in [D -> Nat] /\ \A i \in D : m[i] = i
  OBVIOUS
<1>5. \A i \in D : i # 0 => i - 1 \in D /\ i - 1 < i /\ i \in 1..n
  BY <1>1
<1> HIDE DEF D, V, n, m
<1>6. ASSUME NEW g, NEW i \in D, i # 0 => g[i - 1] \in V
      PROVE  ApplyTo(bytes, changes, g, i) \in V
  <2>1. i # 0 => IsChange(changes[i])
    BY <1>5 DEF n
  <2>2. i # 0 => g[i - 1].raw \in Wholes
    BY <1>3, <1>6
  <2>3. i # 0 => Edit(g[i - 1].raw, changes[i]) \in V
    BY <2>1, <2>2, EditIsWhole DEF V
  <2> QED
    BY <1>2, <1>6, <2>3 DEF ApplyTo
<1>7. \A g \in [D -> V] : \A i \in D : ApplyTo(bytes, changes, g, i) \in V
  BY <1>5, <1>6
<1>8. F \in [[D -> V] -> [D -> V]]
      /\ \A g \in [D -> V] : \A i \in D : F[g][i] = ApplyTo(bytes, changes, g, i)
  BY <1>7
<1> HIDE DEF F
<1>9. \A g, h \in [D -> V] : \A x \in D :
        (\A y \in D : m[y] < m[x] => g[y] = h[y]) => F[g][x] = F[h][x]
  <2> SUFFICES ASSUME NEW g \in [D -> V], NEW h \in [D -> V], NEW x \in D,
                      \A y \in D : m[y] < m[x] => g[y] = h[y]
               PROVE  ApplyTo(bytes, changes, g, x) = ApplyTo(bytes, changes, h, x)
    BY <1>8
  <2>1. x # 0 => g[x - 1] = h[x - 1]
    BY <1>4, <1>5
  <2> QED
    BY <2>1 DEF ApplyTo
<1>10. Descends(F, D, V, m)
  BY <1>4, <1>8, <1>9 DEF Descends
<1>11. Tells(F, D, V)
  <2>1. V # {}
    BY <1>2
  <2> QED
    BY <1>10, <2>1, RecursionHasFixpoint
<1>12. \E g : Applies(bytes, changes, g)
  <2>1. PICK g \in [D -> V] : g = F[g]
    BY <1>11 DEF Tells
  <2>2. \A i \in D : g[i] = ApplyTo(bytes, changes, g, i)
    BY <1>8, <2>1
  <2>3. g = [i \in D |-> ApplyTo(bytes, changes, g, i)]
    BY <2>2
  <2> QED
    BY <2>3 DEF Applies, D, n
<1>13. Applies(bytes, changes, f)
  BY <1>12
<1>14. DidChanges(bytes, changes) = f[n]
  BY DEF DidChanges, Applies, ApplyTo, n
<1> QED
  BY <1>13, <1>14 DEF n

(* One change.                                                             *)
LEMMA OneChange ==
  ASSUME NEW bytes, Whole(bytes), NEW c, IsChange(c)
  PROVE  DidChanges(bytes, <<c>>) = Edit(bytes, c)
<1> DEFINE s == <<c>>
<1>1. Len(s) = 1 /\ s[1] = c
  OBVIOUS
<1> HIDE DEF s
<1>2. Len(s) \in Nat /\ \A i \in 1..Len(s) : IsChange(s[i])
  BY <1>1
<1>3. PICK f : Applies(bytes, s, f) /\ DidChanges(bytes, s) = f[Len(s)]
  BY <1>2, ChangesExist
<1>4. \A i \in 0..1 : f[i] = ApplyTo(bytes, s, f, i)
  BY <1>1, <1>3 DEF Applies
<1>5. f[0] = [done |-> TRUE, raw |-> bytes]
  BY <1>4 DEF ApplyTo
<1>6. f[1] = Edit(bytes, c)
  <2>1. f[1] = ApplyTo(bytes, s, f, 1) /\ 1 - 1 = 0
    BY <1>4
  <2> QED
    BY <1>1, <1>5, <2>1 DEF ApplyTo
<1> QED
  BY <1>1, <1>3, <1>6 DEF s

(* Two changes: the second is applied to what the first left, unless the   *)
(* first was refused.                                                      *)
LEMMA TwoChanges ==
  ASSUME NEW bytes, Whole(bytes), NEW c, IsChange(c), NEW d, IsChange(d)
  PROVE  DidChanges(bytes, <<c, d>>) =
           IF Edit(bytes, c).done THEN Edit(Edit(bytes, c).raw, d) ELSE Edit(bytes, c)
<1> DEFINE s == <<c, d>>
<1>1. Len(s) = 2 /\ s[1] = c /\ s[2] = d
  OBVIOUS
<1> HIDE DEF s
<1>2. Len(s) \in Nat /\ \A i \in 1..Len(s) : IsChange(s[i])
  BY <1>1
<1>3. PICK f : Applies(bytes, s, f) /\ DidChanges(bytes, s) = f[Len(s)]
  BY <1>2, ChangesExist
<1>4. \A i \in 0..2 : f[i] = ApplyTo(bytes, s, f, i)
  BY <1>1, <1>3 DEF Applies
<1>5. f[0] = [done |-> TRUE, raw |-> bytes]
  BY <1>4 DEF ApplyTo
<1>6. f[1] = Edit(bytes, c)
  <2>1. f[1] = ApplyTo(bytes, s, f, 1) /\ 1 - 1 = 0
    BY <1>4
  <2> QED
    BY <1>1, <1>5, <2>1 DEF ApplyTo
<1>7. f[2] = IF f[1].done THEN Edit(f[1].raw, d) ELSE f[1]
  <2>1. f[2] = ApplyTo(bytes, s, f, 2) /\ 2 - 1 = 1
    BY <1>4
  <2> QED
    BY <1>1, <2>1 DEF ApplyTo
<1> QED
  BY <1>1, <1>3, <1>6, <1>7 DEF s

(* So do all of them, one after the other.                                 *)
LEMMA DidChangesIsWhole ==
  ASSUME NEW bytes, Whole(bytes), NEW changes, Len(changes) \in Nat,
         \A i \in 1..Len(changes) : IsChange(changes[i])
  PROVE  Whole(DidChanges(bytes, changes).raw)
<1> DEFINE n == Len(changes)
           D == 0..n
           V == Answers
<1>1. n \in Nat
  OBVIOUS
<1>2. [done |-> TRUE, raw |-> bytes] \in V
  BY DEF Wholes, Whole, Answers
<1>3. \A e \in V : e.raw \in Wholes
  BY DEF Answers
<1>5. \A i \in D : i # 0 => i - 1 \in D /\ i - 1 < i /\ i \in 1..n
  BY <1>1
<1>13. PICK f : Applies(bytes, changes, f) /\ DidChanges(bytes, changes) = f[n]
  BY ChangesExist
<1> HIDE DEF D, V, n
<1>6. ASSUME NEW i \in D, i # 0 => f[i - 1] \in V
      PROVE  ApplyTo(bytes, changes, f, i) \in V
  <2>1. i # 0 => IsChange(changes[i])
    BY <1>5 DEF n
  <2>2. i # 0 => f[i - 1].raw \in Wholes
    BY <1>3, <1>6
  <2>3. i # 0 => Edit(f[i - 1].raw, changes[i]) \in V
    BY <2>1, <2>2, EditIsWhole DEF V
  <2> QED
    BY <1>2, <1>6, <2>3 DEF ApplyTo
<1>15. \A i \in D : f[i] = ApplyTo(bytes, changes, f, i)
  BY <1>13 DEF Applies, D, n
<1> DEFINE T == {i \in Nat : i \in D => f[i] \in V}
<1>16. 0 \in T
  BY <1>6, <1>15
<1>17. ASSUME NEW i \in Nat, i \in T PROVE i + 1 \in T
  <2> SUFFICES ASSUME i + 1 \in D PROVE f[i + 1] \in V
    OBVIOUS
  <2>1. i \in D /\ (i + 1) - 1 = i
    BY <1>1 DEF D
  <2>2. f[i] \in V
    BY <1>17, <2>1
  <2> QED
    BY <1>6, <1>15, <2>1, <2>2
<1>18. \A i \in Nat : i \in T
  <2> HIDE DEF T
  <2> QED
    BY <1>16, <1>17, InductionOnNat
<1>19. f[n] \in V
  BY <1>1, <1>18 DEF D
<1> QED
  BY <1>3, <1>13, <1>19 DEF Wholes

(* A client's position is on a line.                                       *)
LEMMA PositionsAreNamed ==
  ASSUME NEW t \in Seq(Char), NEW k PROVE Named(Position(t, k))
<1> DEFINE ends == { e \in LineEnds(t) : e <= k }
<1>1. ends \subseteq 0..Len(t) /\ Len(t) \in Nat
  BY DEF LineEnds, Boundaries
<1>2. IsFiniteSet(0..Len(t))
  BY <1>1, FS_Interval
<1> HIDE DEF ends
<1>3. IsFiniteSet(ends)
  BY <1>1, <1>2, FS_Subset
<1>4. Cardinality(ends) \in Nat
  BY <1>3, FS_CardinalityType
<1>5. Position(t, k).line = Cardinality(ends)
  BY DEF Position, ends
<1> QED
  BY <1>4, <1>5 DEF Named

(* An edit a client describes is a change.                                 *)
LEMMA ClientEditIs ==
  ASSUME NEW t \in Seq(Char), NEW from \in Boundaries(t), NEW to \in Boundaries(t),
         NEW piece \in Seq(Char)
  PROVE  /\ ClientEdit(t, from, to, piece).text \in Seq(Char)
         /\ IsChange(ClientEdit(t, from, to, piece).change)
<1>1. from \in 0..Len(t) /\ to \in 0..Len(t)
  BY DEF Boundaries
<1>2. Replace(t, from, to, piece) \in Seq(Char)
  BY <1>1 DEF Replace
<1>3. Named(Position(t, from)) /\ Named(Position(t, to))
  BY PositionsAreNamed
<1> QED
  BY <1>2, <1>3 DEF ClientEdit, IsChange

(* The inductive invariant.                                                *)
TextInv == Whole(raw) /\ text \in Seq(Char)

(* It holds at first.                                                      *)
LEMMA TextInit == Init => TextInv
  BY DEF Init, TextInv, Whole

(* What a client inserts is a text.                                        *)
LEMMA PiecesAre == \A p \in Piece \cup {<<>>} : p \in Seq(Char)
<1> DEFINE S == Seq(Char)
<1>1. <<>> \in S /\ Piece \subseteq S
  BY BoundsAssumption
<1> HIDE DEF S
<1>2. \A p \in Piece \cup {<<>>} : p \in S
  BY <1>1
<1> QED
  BY <1>2 DEF S

(* What a client opens is a text.                                          *)
LEMMA NewTextsAre == \A new \in NewTexts : new \in Seq(Char)
<1> SUFFICES ASSUME NEW new \in NewTexts PROVE new \in Seq(Char)
  OBVIOUS
<1>1. PICK p \in Piece \cup {<<>>}, q \in Piece \cup {<<>>} : new = p \o q
  BY DEF NewTexts
<1>2. p \in Seq(Char) /\ q \in Seq(Char)
  BY PiecesAre
<1> QED
  BY <1>1, <1>2

(* An edit of the client's own text keeps the invariant.                   *)
LEMMA EditKeeps == TextInv /\ DidEdit => TextInv'
<1> SUFFICES ASSUME TextInv, DidEdit PROVE TextInv'
  OBVIOUS
<1>1. Whole(raw) /\ text \in Seq(Char)
  BY DEF TextInv
<1>a. PICK n \in 1..MaxChanges : \E piece \in [1..n -> Piece \cup {<<>>}] :
        \E first \in Boundaries(text) : \E last \in Boundaries(text) :
        LET one == ClientEdit(text, first, last, piece[1])
        IN  IF n = 1
            THEN text' = one.text /\ raw' = DidChanges(raw, <<one.change>>).raw
            ELSE \E k \in Boundaries(one.text) :
                   LET two == ClientEdit(one.text, k, Len(one.text), piece[2])
                   IN  /\ text' = two.text
                       /\ raw' = DidChanges(raw, <<one.change, two.change>>).raw
  BY ZenonT(30) DEF DidEdit
<1>2. PICK piece \in [1..n -> Piece \cup {<<>>}],
           first \in Boundaries(text), last \in Boundaries(text) :
        LET one == ClientEdit(text, first, last, piece[1])
        IN  IF n = 1
            THEN text' = one.text /\ raw' = DidChanges(raw, <<one.change>>).raw
            ELSE \E k \in Boundaries(one.text) :
                   LET two == ClientEdit(one.text, k, Len(one.text), piece[2])
                   IN  /\ text' = two.text
                       /\ raw' = DidChanges(raw, <<one.change, two.change>>).raw
  BY <1>a
<1>3. n \in Nat /\ 1 \in 1..n /\ (n # 1 => 2 \in 1..n)
  BY BoundsAssumption
<1>4. piece[1] \in Seq(Char) /\ (n # 1 => piece[2] \in Seq(Char))
  BY <1>3, PiecesAre
<1> DEFINE one == ClientEdit(text, first, last, piece[1])
<1>5. one.text \in Seq(Char) /\ IsChange(one.change)
  BY <1>1, <1>4, ClientEditIs
<1>6. CASE n = 1
  <2>1. text' = one.text /\ raw' = DidChanges(raw, <<one.change>>).raw
    BY <1>2, <1>6
  <2> DEFINE c == one.change
  <2> HIDE DEF c, one
  <2>2. Whole(DidChanges(raw, <<c>>).raw)
    <3>1. Len(<<c>>) = 1 /\ \A i \in 1..1 : <<c>>[i] = c
      OBVIOUS
    <3>2. Len(<<c>>) \in Nat /\ \A i \in 1..Len(<<c>>) : IsChange(<<c>>[i])
      BY <1>5, <3>1 DEF c
    <3> QED
      BY <1>1, <3>2, DidChangesIsWhole
  <2> QED
    BY <1>5, <2>1, <2>2 DEF TextInv, c
<1>7. CASE n # 1
  <2>1. PICK k \in Boundaries(one.text) :
          LET two == ClientEdit(one.text, k, Len(one.text), piece[2])
          IN  /\ text' = two.text
              /\ raw' = DidChanges(raw, <<one.change, two.change>>).raw
    BY <1>2, <1>7
  <2> DEFINE two == ClientEdit(one.text, k, Len(one.text), piece[2])
             c == one.change
             d == two.change
  <2>2. Len(one.text) \in Boundaries(one.text)
    <3> DEFINE t == one.text
    <3> HIDE DEF t, one
    <3>1. Len(t) \in Nat
      BY <1>5 DEF t
    <3>2. Len(t) \in Boundaries(t)
      BY <3>1 DEF Boundaries, InsideBreak
    <3> QED
      BY <3>2 DEF t
  <2>3. two.text \in Seq(Char) /\ IsChange(d)
    <3> HIDE DEF one
    <3> QED
      BY <1>4, <1>5, <1>7, <2>2, ClientEditIs
  <2>4. text' = two.text /\ raw' = DidChanges(raw, <<c, d>>).raw
    BY <2>1
  <2> HIDE DEF one, two, c, d
  <2>5. Whole(DidChanges(raw, <<c, d>>).raw)
    <3>1. Len(<<c, d>>) = 2 /\ \A i \in 1..2 : <<c, d>>[i] = c \/ <<c, d>>[i] = d
      OBVIOUS
    <3>2. Len(<<c, d>>) \in Nat /\ \A i \in 1..Len(<<c, d>>) : IsChange(<<c, d>>[i])
      BY <1>5, <2>3, <3>1 DEF c
    <3> QED
      BY <1>1, <3>2, DidChangesIsWhole
  <2> QED
    BY <2>3, <2>4, <2>5 DEF TextInv
<1> QED
  BY <1>6, <1>7

(* An edit by positions of some other text keeps it too.                   *)
LEMMA EditElsewhereKeeps == TextInv /\ DidEditElsewhere => TextInv'
<1> SUFFICES ASSUME TextInv, DidEditElsewhere PROVE TextInv'
  OBVIOUS
<1>1. Whole(raw) /\ text' = <<>>
  BY DEF TextInv, DidEditElsewhere
<1>2. PICK n \in 1..MaxChanges, piece \in Piece, p \in Place, q \in Place :
        LET change == [start |-> p, end |-> q, text |-> piece]
            more   == [start |-> q, end |-> q, text |-> piece]
        IN  raw' = DidChanges(raw, IF n = 1 THEN <<change>> ELSE <<change, more>>).raw
  BY DEF DidEditElsewhere
<1> DEFINE c == [start |-> p, end |-> q, text |-> piece]
           d == [start |-> q, end |-> q, text |-> piece]
           s == IF n = 1 THEN <<c>> ELSE <<c, d>>
<1>3. Named(p) /\ Named(q) /\ piece \in Seq(Char)
  BY BoundsAssumption DEF Place, Named
<1>4. IsChange(c) /\ IsChange(d)
  BY <1>3 DEF IsChange
<1>5. raw' = DidChanges(raw, s).raw
  BY <1>2
<1> HIDE DEF c, d
<1>6. Len(s) \in Nat /\ \A i \in 1..Len(s) : s[i] = c \/ s[i] = d
  <2>1. CASE n = 1
    <3>1. s = <<c>>
      BY <2>1
    <3> QED
      BY <3>1
  <2>2. CASE n # 1
    <3>1. s = <<c, d>>
      BY <2>2
    <3> QED
      BY <3>1
  <2> QED
    BY <2>1, <2>2
<1> HIDE DEF s
<1>7. Whole(DidChanges(raw, s).raw)
  BY <1>1, <1>4, <1>6, DidChangesIsWhole
<1> QED
  BY <1>1, <1>5, <1>7 DEF TextInv

(* Every step keeps it.                                                    *)
LEMMA TextStep == TextInv /\ [Next]_vars => TextInv'
<1> SUFFICES ASSUME TextInv, [Next]_vars PROVE TextInv'
  OBVIOUS
<1>1. ASSUME NEW new \in NewTexts, DidOpen(new) PROVE TextInv'
  <2>1. new \in Seq(Char)
    BY NewTextsAre
  <2>2. Whole(TransformUTF8ToLF(Encode(new)))
    BY <2>1, EncodeIsWhole, TransformIsWhole
  <2> QED
    BY <1>1, <2>1, <2>2 DEF DidOpen, TextInv
<1>2. ASSUME NEW new \in NewTexts, DidChange(new) PROVE TextInv'
  <2>1. new \in Seq(Char)
    BY NewTextsAre
  <2>2. Whole(Encode(new))
    BY <2>1, EncodeIsWhole
  <2> QED
    BY <1>2, <2>1, <2>2 DEF DidChange, TextInv
<1>3. CASE DidClose
  BY <1>3 DEF DidClose, TextInv, Whole
<1>4. CASE DidSave
  <2>1. Whole(Encode(text))
    BY EncodeIsWhole DEF TextInv
  <2> QED
    BY <1>4, <2>1 DEF DidSave, TextInv
<1>5. CASE DidEdit
  BY <1>5, EditKeeps
<1>6. CASE DidEditElsewhere
  BY <1>6, EditElsewhereKeeps
<1>7. CASE UNCHANGED vars
  BY <1>7 DEF vars, TextInv
<1> QED
  BY <1>1, <1>2, <1>3, <1>4, <1>5, <1>6, <1>7 DEF Next

(* In a document of whole bytes GetOffset tells places only.               *)
LEMMA OffsetsFollow == TextInv => OffsetsAreBoundaries
<1> SUFFICES ASSUME TextInv, NEW p \in Place
             PROVE  OffsetIsBoundary(GetOffset(raw, p.line, p.character))
  BY DEF OffsetsAreBoundaries
<1>1. p.line \in Nat /\ Whole(raw) /\ Len(raw) \in Nat
  BY BoundsAssumption DEF Place, TextInv, Whole
<1> DEFINE o == GetOffset(raw, p.line, p.character)
<1>2. o = NoOffset \/ AtPlace(raw, o)
  BY <1>1, GetOffsetIs
<1> HIDE DEF o
<1>3. ASSUME o = NoOffset PROVE OffsetIsBoundary(o)
  BY <1>1, <1>3 DEF NoOffset, OffsetIsBoundary
<1>4. ASSUME AtPlace(raw, o) PROVE OffsetIsBoundary(o)
  BY <1>1, <1>4 DEF AtPlace, Cut, OffsetIsBoundary
<1>5. OffsetIsBoundary(o)
  BY <1>2, <1>3, <1>4
<1> QED
  BY <1>5 DEF o

(* Whatever was opened, edited or saved, and whatever position a client    *)
(* names, GetOffset (resource/File.cc) answers with a place between two    *)
(* characters and not inside a CR LF.                                      *)
THEOREM OffsetsFallBetweenCharacters == Spec => []OffsetsAreBoundaries
<1>1. TextInv => OffsetsAreBoundaries
  BY OffsetsFollow
<1> QED
  BY <1>1, TextInit, TextStep, PTL DEF Spec

-----------------------------------------------------------------------------

(* What neither side ever cuts: a character, or the CR LF of one break.    *)
Cell == {<<c>> : c \in Char \ {CR}} \cup {<<CR, LF>>}

(* A break is a break, whichever way it is written.                        *)
Kind(x) == x[Len(x)]

(* The bytes of a cell, of each cell, and of all of them.                  *)
Bytes(x) == IF Len(x) = 1 THEN Shape(x[1]) ELSE <<<<CR, 1>>, <<LF, 1>>>>

BytesOf(s) == [i \in 1..Len(s) |-> Bytes(s[i])]
RawOf(s) == FlattenSeq(BytesOf(s))

(* Every break written as LF.                                              *)
Plain(s) == [i \in 1..Len(s) |-> <<Kind(s[i])>>]

(* A cell is one character, or CR LF.                                      *)
LEMMA CellsAre ==
  ASSUME NEW x \in Cell
  PROVE  /\ x \in Seq(Char) /\ Len(x) \in 1..2
         /\ Kind(x) \in Char \ {CR} /\ <<Kind(x)>> \in Cell
         /\ Len(x) = 1 => x = <<Kind(x)>> /\ Bytes(x) = Shape(Kind(x))
         /\ Len(x) = 2 => x = <<CR, LF>> /\ Kind(x) = LF /\ Bytes(x) = <<<<CR, 1>>, <<LF, 1>>>>
<1>0. CR \in Char /\ LF \in Char /\ CR # LF
  BY WidthAssumption DEF Char
<1>1. CASE \E c \in Char \ {CR} : x = <<c>>
  <2>1. PICK c \in Char \ {CR} : x = <<c>>
    BY <1>1
  <2>2. Len(x) = 1 /\ x[1] = c /\ x \in Seq(Char)
    BY <2>1
  <2>3. Kind(x) = c
    BY <2>2 DEF Kind
  <2>4. Bytes(x) = Shape(c)
    BY <2>2 DEF Bytes
  <2>5. <<Kind(x)>> \in Cell
    BY <2>3 DEF Cell
  <2> QED
    BY <2>1, <2>2, <2>3, <2>4, <2>5
<1>2. CASE x = <<CR, LF>>
  <2>1. Len(x) = 2 /\ x[2] = LF /\ x \in Seq(Char)
    BY <1>0, <1>2
  <2>2. Kind(x) = LF
    BY <2>1 DEF Kind
  <2>3. Bytes(x) = <<<<CR, 1>>, <<LF, 1>>>>
    BY <2>1 DEF Bytes
  <2>4. <<Kind(x)>> \in Cell
    BY <1>0, <2>2 DEF Cell
  <2> QED
    BY <1>0, <1>2, <2>1, <2>2, <2>3, <2>4
<1> QED
  BY <1>1, <1>2 DEF Cell

(* The bytes of the two ways to write a line break.                        *)
LEMMA BreakBytes ==
  /\ <<<<LF, 1>>>> = Shape(LF)
  /\ Cat(Shape(CR), Shape(LF)) = <<<<CR, 1>>, <<LF, 1>>>>
  /\ Shape(CR) = <<<<CR, 1>>>>
  /\ <<CR, 1>> \in Byte /\ <<LF, 1>> \in Byte
<1>1. Width[CR] = 1 /\ Width[LF] = 1 /\ CR \in Char /\ LF \in Char
  BY WidthAssumption DEF Char
<1>2. Shape(CR) = [k \in 1..1 |-> <<CR, k>>] /\ Shape(LF) = [k \in 1..1 |-> <<LF, k>>]
  BY <1>1 DEF Shape
<1>3. <<CR, 1>> \in Byte /\ <<LF, 1>> \in Byte
  BY <1>1, BytesMade
<1>4. 1..1 = {1}
  OBVIOUS
<1>5. Shape(CR) = <<<<CR, 1>>>> /\ Shape(LF) = <<<<LF, 1>>>>
  BY <1>2, <1>4
<1>6. ASSUME NEW a \in Byte, NEW b \in Byte PROVE Cat(<<a>>, <<b>>) = <<a, b>>
  <2> DEFINE x == <<a>> \o <<b>>
             y == <<a, b>>
  <2>1. x \in Seq(Byte) /\ Len(x) = 2 /\ x[1] = a /\ x[2] = b
    OBVIOUS
  <2>2. y \in Seq(Byte) /\ Len(y) = 2 /\ y[1] = a /\ y[2] = b
    OBVIOUS
  <2> HIDE DEF x, y
  <2>3. x = y
    BY <2>1, <2>2
  <2> QED
    BY <2>3 DEF x, y, Cat
<1>7. Cat(<<<<CR, 1>>>>, <<<<LF, 1>>>>) = <<<<CR, 1>>, <<LF, 1>>>>
  <2> DEFINE a == <<CR, 1>>
             b == <<LF, 1>>
  <2>0. a \in Byte /\ b \in Byte
    BY <1>3
  <2> HIDE DEF a, b
  <2>1. Cat(<<a>>, <<b>>) = <<a, b>>
    BY <1>6, <2>0
  <2> QED
    BY <2>1 DEF a, b
<1>8. Cat(Shape(CR), Shape(LF)) = <<<<CR, 1>>, <<LF, 1>>>>
  BY <1>5, <1>7
<1> QED
  BY <1>3, <1>5, <1>8

(* The bytes of a cell are whole, and four at most.                        *)
LEMMA CellBytes ==
  ASSUME NEW x \in Cell PROVE Bytes(x) \in Seq(Byte) /\ Whole(Bytes(x)) /\ Len(Bytes(x)) \in 1..4
<1>1. Len(x) \in 1..2 /\ Kind(x) \in Char
  BY CellsAre
<1>2. CASE Len(x) = 1
  <2>1. Bytes(x) = Shape(Kind(x))
    BY <1>2, CellsAre
  <2>2. Shape(Kind(x)) \in Wholes
    BY <1>1, ShapesAreWhole
  <2>3. Len(Shape(Kind(x))) = Width[Kind(x)] /\ Width[Kind(x)] \in 1..4
    BY <1>1, WidthAssumption DEF Shape, Char
  <2> QED
    BY <2>1, <2>2, <2>3 DEF Wholes
<1>3. CASE Len(x) = 2
  <2>1. Bytes(x) = Cat(Shape(CR), Shape(LF)) /\ Bytes(x) = <<<<CR, 1>>, <<LF, 1>>>>
    BY <1>3, CellsAre, BreakBytes
  <2>2. CR \in Char /\ LF \in Char
    BY WidthAssumption DEF Char
  <2>3. Whole(Shape(CR)) /\ Whole(Shape(LF))
    BY <2>2, ShapesAreWhole DEF Wholes
  <2>4. Whole(Bytes(x))
    BY <2>1, <2>3, WholeCat DEF Cat
  <2> QED
    BY <2>1, <2>4 DEF Whole
<1> QED
  BY <1>1, <1>2, <1>3

(* What is made of cells one by one.                                       *)
LEMMA MapsAre ==
  ASSUME NEW s \in Seq(Cell)
  PROVE  /\ BytesOf(s) \in Seq(Seq(Byte)) /\ Len(BytesOf(s)) = Len(s) 
         /\ Plain(s) \in Seq(Cell) /\ Len(Plain(s)) = Len(s)
         /\ Texts(Seq(Byte)) /\ Texts(Seq(Char)) /\ s \in Seq(Seq(Char))
         /\ RawOf(s) \in Seq(Byte) /\ FlattenSeq(s) \in Seq(Char)
<1>1. Len(s) \in Nat /\ \A i \in 1..Len(s) : s[i] \in Cell
  OBVIOUS
<1>2. \A i \in 1..Len(s) : Bytes(s[i]) \in Seq(Byte) /\ <<Kind(s[i])>> \in Cell /\ s[i] \in Seq(Char)
  BY <1>1, CellBytes, CellsAre
<1>3. BytesOf(s) \in Seq(Seq(Byte)) /\ Len(BytesOf(s)) = Len(s)
  <2> DEFINE V == Seq(Byte)
             n == Len(s)
  <2> HIDE DEF V, n
  <2>1. BytesOf(s) = [i \in 1..n |-> Bytes(s[i])]
    BY DEF BytesOf, n
  <2>2. \A i \in 1..n : Bytes(s[i]) \in V
    BY <1>2 DEF n, V
  <2>3. n \in Nat
    BY <1>1 DEF n
  <2>4. BytesOf(s) \in Seq(V) /\ Len(BytesOf(s)) = n
    BY <2>1, <2>2, <2>3
  <2> QED
    BY <2>4 DEF V, n
<1>4. Plain(s) \in Seq(Cell) /\ Len(Plain(s)) = Len(s)
  <2> DEFINE n == Len(s)
  <2> HIDE DEF n
  <2>1. Plain(s) = [i \in 1..n |-> <<Kind(s[i])>>]
    BY DEF Plain, n
  <2>2. \A i \in 1..n : <<Kind(s[i])>> \in Cell
    BY <1>2 DEF n
  <2>3. n \in Nat
    BY <1>1 DEF n
  <2>4. Plain(s) \in Seq(Cell) /\ Len(Plain(s)) = n
    BY <2>1, <2>2, <2>3
  <2> QED
    BY <2>4 DEF n
<1>5. s \in Seq(Seq(Char))
  <2> DEFINE V == Seq(Char)
  <2> HIDE DEF V
  <2>1. \A i \in 1..Len(s) : s[i] \in V
    BY <1>2 DEF V
  <2>2. s \in Seq(V)
    BY <2>1
  <2> QED
    BY <2>2 DEF V
<1>6. Texts(Seq(Byte)) /\ Texts(Seq(Char))
  BY SequencesAreTexts
<1>7. RawOf(s) \in Seq(Byte)
  <2> DEFINE V == Seq(Byte)
  <2> HIDE DEF V
  <2>1. Texts(V) /\ BytesOf(s) \in Seq(V)
    BY <1>3, <1>6 DEF V
  <2>2. RawOf(s) \in V
    BY <2>1, FlattenTyped DEF RawOf
  <2> QED
    BY <2>2 DEF V
<1>8. FlattenSeq(s) \in Seq(Char)
  <2> DEFINE V == Seq(Char)
  <2> HIDE DEF V
  <2>1. Texts(V) /\ s \in Seq(V)
    BY <1>5, <1>6 DEF V
  <2>2. FlattenSeq(s) \in V
    BY <2>1, FlattenTyped
  <2> QED
    BY <2>2 DEF V
<1> QED
  BY <1>3, <1>4, <1>5, <1>6, <1>7, <1>8

(* Encode goes character by character.                                     *)
LEMMA EncodeAppend ==
  ASSUME NEW t \in Seq(Char), NEW c \in Char
  PROVE  Encode(Append(t, c)) = Cat(Encode(t), Shape(c)) /\ Encode(t) \in Seq(Byte)
<1> DEFINE V == Seq(Byte)
           n == Len(t)
           p == [i \in 1..n |-> Shape(t[i])]
           q == [i \in 1..(n + 1) |-> Shape(Append(t, c)[i])]
<1>1. n \in Nat /\ DOMAIN t = 1..n /\ DOMAIN Append(t, c) = 1..(n + 1)
      /\ (\A i \in 1..n : t[i] \in Char /\ Append(t, c)[i] = t[i]) /\ Append(t, c)[n + 1] = c
  OBVIOUS
<1>2. Encode(t) = FlattenSeq(p) /\ Encode(Append(t, c)) = FlattenSeq(q)
  BY <1>1 DEF Encode, Shape
<1>3. \A d \in Char : Shape(d) \in V
  BY ShapesAreWhole DEF Wholes
<1>4. Texts(V)
  BY SequencesAreTexts
<1> HIDE DEF V, n
<1>5. p \in Seq(V) /\ Shape(c) \in V
  BY <1>1, <1>3
<1>6. q = Append(p, Shape(c))
  BY <1>1
<1> HIDE DEF p, q
<1>7. FlattenSeq(q) = Cat(FlattenSeq(p), Shape(c)) /\ FlattenSeq(p) \in V
  BY <1>4, <1>5, <1>6, FlattenAppend, FlattenTyped
<1> QED
  BY <1>2, <1>7 DEF V

(* One more cell.                                                          *)
LEMMA MapsAppend ==
  ASSUME NEW s \in Seq(Cell), NEW x \in Cell
  PROVE  /\ BytesOf(Append(s, x)) = Append(BytesOf(s), Bytes(x))
         /\ Plain(Append(s, x)) = Append(Plain(s), <<Kind(x)>>)
         /\ RawOf(Append(s, x)) = Cat(RawOf(s), Bytes(x))
         /\ FlattenSeq(Append(s, x)) = Cat(FlattenSeq(s), x)
<1> DEFINE n == Len(s)
           t == Append(s, x)
<1>1. n \in Nat /\ Len(t) = n + 1 /\ (\A i \in 1..n : t[i] = s[i]) /\ t[n + 1] = x
  OBVIOUS
<1> HIDE DEF n, t
<1>2. BytesOf(s) = [i \in 1..n |-> Bytes(s[i])] /\ BytesOf(t) = [i \in 1..(n + 1) |-> Bytes(t[i])]
  BY <1>1 DEF BytesOf, n
<1>3. BytesOf(t) = Append(BytesOf(s), Bytes(x))
  BY <1>1, <1>2
<1>4. Plain(s) = [i \in 1..n |-> <<Kind(s[i])>>] /\ Plain(t) = [i \in 1..(n + 1) |-> <<Kind(t[i])>>]
  BY <1>1 DEF Plain, n
<1>5. Plain(t) = Append(Plain(s), <<Kind(x)>>)
  BY <1>1, <1>4
<1>6. FlattenSeq(t) = Cat(FlattenSeq(s), x)
  <2> DEFINE V == Seq(Char)
  <2> HIDE DEF V
  <2>1. Texts(V) /\ s \in Seq(V) /\ x \in V
    BY MapsAre, CellsAre DEF V
  <2> QED
    BY <2>1, FlattenAppend DEF t
<1>7. RawOf(t) = Cat(RawOf(s), Bytes(x))
  <2> DEFINE V == Seq(Byte)
  <2> HIDE DEF V
  <2>1. Texts(V) /\ BytesOf(s) \in Seq(V) /\ Bytes(x) \in V
    BY MapsAre, CellBytes DEF V
  <2>2. FlattenSeq(Append(BytesOf(s), Bytes(x))) = Cat(FlattenSeq(BytesOf(s)), Bytes(x))
    BY <2>1, FlattenAppend
  <2> QED
    BY <1>3, <2>2 DEF RawOf
<1> QED
  BY <1>3, <1>5, <1>6, <1>7 DEF t

(* What is so of no cells, and of one cell more, is so of all.             *)
LEMMA InductionOnCells ==
  ASSUME NEW G, <<>> \in G,
         \A s \in Seq(Cell) : \A x \in Cell : s \in G => Append(s, x) \in G
  PROVE  \A s \in Seq(Cell) : s \in G
<1> SUFFICES ASSUME NEW s \in Seq(Cell) PROVE s \in G
  OBVIOUS
<1> DEFINE T == {k \in Nat : k <= Len(s) => SubSeq(s, 1, k) \in G}
<1>1. 0 \in T
  <2>1. SubSeq(s, 1, 0) = <<>>
    OBVIOUS
  <2> QED
    BY <2>1
<1>2. ASSUME NEW k \in Nat, k \in T PROVE k + 1 \in T
  <2> SUFFICES ASSUME k + 1 \in 1..Len(s) PROVE SubSeq(s, 1, k + 1) \in G
    OBVIOUS
  <2>1. SubSeq(s, 1, k) \in G
    BY <1>2
  <2> DEFINE a == SubSeq(s, 1, k)
             b == s[k + 1]
  <2>2. a \in Seq(Cell) /\ b \in Cell /\ SubSeq(s, 1, k + 1) = Append(a, b)
    BY PrefixGrows
  <2> HIDE DEF a, b
  <2> QED
    BY <2>1, <2>2 DEF a
<1>3. \A k \in Nat : k \in T
  <2> HIDE DEF T
  <2> QED
    BY <1>1, <1>2, InductionOnNat
<1>4. Len(s) \in Nat /\ SubSeq(s, 1, Len(s)) = s
  OBVIOUS
<1>5. SubSeq(s, 1, Len(s)) \in G
  BY <1>3, <1>4
<1> QED
  BY <1>4, <1>5

(* Cells encode as their bytes.                                            *)
LEMMA EncodeCells == \A s \in Seq(Cell) : Encode(FlattenSeq(s)) = RawOf(s)
<1> DEFINE G == {s \in Seq(Cell) : Encode(FlattenSeq(s)) = RawOf(s)}
<1>1. <<>> \in G
  <2>1. FlattenSeq(<<>>) = <<>> /\ BytesOf(<<>>) = <<>> /\ Encode(<<>>) = FlattenSeq(<<>>)
    BY FlattenEmpty DEF BytesOf, Encode
  <2> QED
    BY <2>1 DEF RawOf
<1>2. ASSUME NEW s \in Seq(Cell), NEW x \in Cell, s \in G PROVE Append(s, x) \in G
  <2> DEFINE t == FlattenSeq(s)
  <2>1. t \in Seq(Char) /\ Encode(t) = RawOf(s)
    BY <1>2, MapsAre
  <2>2. FlattenSeq(Append(s, x)) = Cat(t, x) /\ RawOf(Append(s, x)) = Cat(RawOf(s), Bytes(x))
    BY MapsAppend
  <2> HIDE DEF t
  <2>3. Encode(Cat(t, x)) = Cat(Encode(t), Bytes(x))
    <3>1. Len(x) \in 1..2 /\ Kind(x) \in Char
      BY CellsAre
    <3>2. CASE Len(x) = 1
      <4>1. x = <<Kind(x)>> /\ Bytes(x) = Shape(Kind(x))
        BY <3>2, CellsAre
      <4>2. Cat(t, x) = Append(t, Kind(x))
        <5>1. \A c \in Char : Cat(t, <<c>>) = Append(t, c)
          BY <2>1 DEF Cat
        <5> QED
          BY <3>1, <4>1, <5>1
      <4> QED
        BY <2>1, <3>1, <4>1, <4>2, EncodeAppend
    <3>3. CASE Len(x) = 2
      <4>0. CR \in Char /\ LF \in Char
        BY WidthAssumption DEF Char
      <4>1. x = <<CR, LF>> /\ Bytes(x) = Cat(Shape(CR), Shape(LF))
        BY <3>3, CellsAre, BreakBytes
      <4>2. Cat(t, x) = Append(Append(t, CR), LF) /\ Append(t, CR) \in Seq(Char)
        BY <2>1, <4>0, <4>1 DEF Cat
      <4>3. /\ Encode(Append(Append(t, CR), LF)) = Cat(Encode(Append(t, CR)), Shape(LF))
            /\ Encode(Append(t, CR)) = Cat(Encode(t), Shape(CR))
            /\ Encode(t) \in Seq(Byte)
        BY <2>1, <4>0, <4>2, EncodeAppend
      <4>4. Shape(CR) \in Seq(Byte) /\ Shape(LF) \in Seq(Byte)
        BY <4>0, ShapesAreWhole DEF Wholes
      <4>5. Cat(Cat(Encode(t), Shape(CR)), Shape(LF)) = Cat(Encode(t), Cat(Shape(CR), Shape(LF)))
        <5> DEFINE V == Seq(Byte)
        <5>1. Texts(V)
          BY SequencesAreTexts
        <5> HIDE DEF V
        <5>2. Encode(t) \in V /\ Shape(CR) \in V /\ Shape(LF) \in V
          BY <4>3, <4>4 DEF V
        <5> QED
          BY <5>1, <5>2 DEF Texts
      <4> QED
        BY <4>1, <4>2, <4>3, <4>5
    <3> QED
      BY <3>1, <3>2, <3>3
  <2> QED
    BY <2>1, <2>2, <2>3
<1>3. \A s \in Seq(Cell) : s \in G
  <2> HIDE DEF G
  <2> QED
    BY <1>1, <1>2, InductionOnCells
<1> QED
  BY <1>3

-----------------------------------------------------------------------------

(* No CR stands alone.                                                     *)
Paired(t) == \A i \in 1..Len(t) : t[i] = CR => i < Len(t) /\ t[i + 1] = LF

(* A part of such a text that does not end in a CR is one.                 *)
LEMMA PairedPrefix ==
  ASSUME NEW t \in Seq(Char), Paired(t), NEW k \in Nat, k <= Len(t),
         k > 0 => t[k] # CR
  PROVE  SubSeq(t, 1, k) \in Seq(Char) /\ Len(SubSeq(t, 1, k)) = k /\ Paired(SubSeq(t, 1, k))
<1> DEFINE r == SubSeq(t, 1, k)
<1>1. r \in Seq(Char) /\ Len(r) = k /\ \A i \in 1..k : r[i] = t[i]
  OBVIOUS
<1> HIDE DEF r
<1>2. ASSUME NEW i \in 1..k, r[i] = CR PROVE i < k /\ r[i + 1] = LF
  <2>1. i \in 1..Len(t) /\ t[i] = CR
    BY <1>1, <1>2
  <2>2. t[i + 1] = LF /\ i # k
    BY <2>1 DEF Paired
  <2>3. i + 1 \in 1..k
    BY <2>2
  <2> QED
    BY <1>1, <2>2, <2>3
<1>3. Paired(r)
  BY <1>1, <1>2 DEF Paired
<1> QED
  BY <1>1, <1>3 DEF r

(* A text in which none does is one of cells.                              *)
LEMMA PairedHasCells ==
  ASSUME NEW t \in Seq(Char), Paired(t)
  PROVE  \E s \in Seq(Cell) : t = FlattenSeq(s)
<1> DEFINE Told(u) == \E s \in Seq(Cell) : u = FlattenSeq(s)
           T == {n \in Nat : \A u \in Seq(Char) : Len(u) <= n /\ Paired(u) => Told(u)}
<1>0. CR \in Char /\ LF \in Char /\ CR # LF
  BY WidthAssumption DEF Char
<1>1. Told(<<>>)
  <2>1. <<>> \in Seq(Cell) /\ <<>> = FlattenSeq(<<>>)
    BY FlattenEmpty
  <2> QED
    BY <2>1
<1>2. \A r : \A x \in Cell : Told(r) => Told(Cat(r, x))
  <2> SUFFICES ASSUME NEW r, NEW x \in Cell, Told(r) PROVE Told(Cat(r, x))
    OBVIOUS
  <2>1. PICK s \in Seq(Cell) : r = FlattenSeq(s)
    OBVIOUS
  <2>2. FlattenSeq(Append(s, x)) = Cat(r, x)
    BY <2>1, MapsAppend
  <2>3. Append(s, x) \in Seq(Cell)
    OBVIOUS
  <2> QED
    BY <2>2, <2>3
<1> HIDE DEF Told
<1>3. 0 \in T
  <2>1. \A u \in Seq(Char) : Len(u) <= 0 => u = <<>>
    OBVIOUS
  <2> QED
    BY <1>1, <2>1
<1>4. ASSUME NEW n \in Nat, n \in T PROVE n + 1 \in T
  <2> SUFFICES ASSUME NEW u \in Seq(Char), Len(u) <= n + 1, Paired(u) PROVE Told(u)
    OBVIOUS
  <2> DEFINE m == Len(u)
             c == u[m]
  <2>0. CASE u = <<>>
    BY <1>1, <2>0
  <2>1. CASE u # <<>> /\ c = LF /\ m > 1 /\ u[m - 1] = CR
    <3> DEFINE k == m - 2
               r == SubSeq(u, 1, k)
               x == <<CR, LF>>
    <3>1. k \in Nat /\ k <= Len(u) /\ k <= n /\ m = k + 2
      BY <2>1
    <3>2. k > 0 => u[k] # CR
      <4> SUFFICES ASSUME k > 0, u[k] = CR PROVE FALSE
        OBVIOUS
      <4>1. k \in 1..Len(u) /\ k + 1 = m - 1
        BY <3>1
      <4>2. u[k + 1] = LF
        BY <4>1 DEF Paired
      <4> QED
        BY <1>0, <2>1, <4>1, <4>2
    <3> HIDE DEF k
    <3>3. r \in Seq(Char) /\ Len(r) = k /\ Paired(r)
      BY <3>1, <3>2, PairedPrefix
    <3>4. Told(r)
      BY <1>4, <3>1, <3>3
    <3>5. x \in Cell /\ x \in Seq(Char)
      BY <1>0 DEF Cell
    <3>6. u = r \o x
      <4>1. Len(u) = k + 2 /\ u[k + 1] = CR /\ u[k + 2] = LF
        <5>1. k + 1 = m - 1 /\ k + 2 = m
          BY <3>1
        <5> QED
          BY <2>1, <5>1
      <4>2. /\ \A i \in 1..k : r[i] = u[i]
            /\ Len(x) = 2 /\ x[1] = CR /\ x[2] = LF
        BY <3>1
      <4> DEFINE v == r \o x
      <4>3. v \in Seq(Char) /\ Len(v) = k + 2
        BY <3>1, <3>3, <3>5, <4>2
      <4>4. (\A i \in 1..k : v[i] = r[i]) /\ v[k + 1] = x[1] /\ v[k + 2] = x[2]
        BY <3>1, <3>3, <3>5, <4>2
      <4>5. \A i \in 1..(k + 2) : i \in 1..k \/ i = k + 1 \/ i = k + 2
        BY <3>1
      <4> HIDE DEF v, r, x, m, c
      <4>6. \A i \in 1..(k + 2) : u[i] = v[i]
        BY <4>1, <4>2, <4>4, <4>5
      <4>7. u = v
        BY <4>1, <4>3, <4>6
      <4> QED
        BY <4>7 DEF v
    <3> HIDE DEF r, x
    <3> QED
      BY <1>2, <3>4, <3>5, <3>6 DEF Cat
  <2>2. CASE u # <<>> /\ ~(c = LF /\ m > 1 /\ u[m - 1] = CR)
    <3> DEFINE k == m - 1
               r == SubSeq(u, 1, k)
               x == <<c>>
    <3>1. k \in Nat /\ k <= Len(u) /\ k <= n /\ m = k + 1 /\ m \in 1..Len(u)
      BY <2>2
    <3>2. c \in Char /\ c # CR
      <4>1. c = CR => m < Len(u)
        BY <3>1 DEF Paired
      <4> QED
        BY <3>1, <4>1
    <3>3. k > 0 => u[k] # CR
      <4> SUFFICES ASSUME k > 0, u[k] = CR PROVE FALSE
        OBVIOUS
      <4>1. k \in 1..Len(u) /\ k + 1 = m
        BY <3>1
      <4>2. u[k + 1] = LF
        BY <4>1 DEF Paired
      <4> QED
        BY <2>2, <4>1, <4>2
    <3> HIDE DEF k
    <3>4. r \in Seq(Char) /\ Len(r) = k /\ Paired(r)
      BY <3>1, <3>3, PairedPrefix
    <3>5. Told(r)
      BY <1>4, <3>1, <3>4
    <3>6. x \in Cell
      BY <3>2 DEF Cell
    <3>7. u = r \o x
      BY <3>1
    <3> HIDE DEF r, x
    <3> QED
      BY <1>2, <3>5, <3>6, <3>7 DEF Cat
  <2> QED
    BY <2>0, <2>1, <2>2
<1>5. \A n \in Nat : n \in T
  <2> HIDE DEF T
  <2> QED
    BY <1>3, <1>4, InductionOnNat
<1>6. Len(t) \in Nat /\ Len(t) \in T
  BY <1>5
<1>7. Told(t)
  BY <1>6
<1> QED
  BY <1>7 DEF Told

(* One more byte changes what is normalised by its own part only.          *)
LEMMA TransformAppend ==
  ASSUME NEW r \in Seq(Byte), NEW b \in Byte
  PROVE  /\ TransformUTF8ToLF(Append(r, b))
              = Cat(TransformUTF8ToLF(r), Part(Append(r, b), Len(r) + 1))
         /\ TransformUTF8ToLF(r) \in Seq(Byte)
<1> DEFINE V == Seq(Byte)
           n == Len(r)
           w == Append(r, b)
           p == [i \in 1..n |-> Part(r, i)]
           q == [i \in 1..(n + 1) |-> Part(w, i)]
<1>1. /\ n \in Nat /\ DOMAIN r = 1..n /\ DOMAIN w = 1..(n + 1) /\ Len(w) = n + 1
      /\ \A i \in 1..n : w[i] = r[i] /\ r[i] \in Byte
      /\ \A i \in 1..(n + 1) : w[i] \in Byte
  OBVIOUS
<1>2. TransformUTF8ToLF(r) = FlattenSeq(p) /\ TransformUTF8ToLF(w) = FlattenSeq(q)
  BY <1>1 DEF TransformUTF8ToLF, Part
<1>3. \A z : \A i : z[i] \in Byte => Part(z, i) \in V
  <2> SUFFICES ASSUME NEW z, NEW i, z[i] \in Byte PROVE Part(z, i) \in V
    OBVIOUS
  <2>1. <<LF, 1>> \in Byte
    BY BreaksAre DEF Breaks
  <2>2. <<<<LF, 1>>>> \in V /\ <<>> \in V /\ <<z[i]>> \in V
    BY <2>1
  <2> QED
    BY <2>2 DEF Part
<1>4. Texts(V)
  BY SequencesAreTexts
<1> HIDE DEF V, n, w
<1>5. \A i \in 1..n : Part(w, i) = Part(r, i)
  <2> SUFFICES ASSUME NEW i \in 1..n PROVE Part(w, i) = Part(r, i)
    OBVIOUS
  <2>1. \A c : Is(w, i - 1, c) <=> Is(r, i - 1, c)
    <3>1. i - 1 < n /\ i - 1 < n + 1 /\ (i - 1) + 1 = i
      BY <1>1
    <3> QED
      BY <1>1, <3>1 DEF Is, n
  <2>2. i > 1 => \A c : Is(w, i - 2, c) <=> Is(r, i - 2, c)
    <3>1. i > 1 => i - 2 < n /\ i - 2 < n + 1 /\ (i - 2) + 1 \in 1..n
      BY <1>1
    <3> QED
      BY <1>1, <3>1 DEF Is, n
  <2> QED
    BY <1>1, <2>1, <2>2 DEF Part
<1>6. p \in Seq(V) /\ Part(w, n + 1) \in V
  BY <1>1, <1>3
<1>7. q = Append(p, Part(w, n + 1))
  BY <1>1, <1>5
<1> HIDE DEF p, q
<1>8. FlattenSeq(q) = Cat(FlattenSeq(p), Part(w, n + 1)) /\ FlattenSeq(p) \in V
  BY <1>4, <1>6, <1>7, FlattenAppend, FlattenTyped
<1> QED
  BY <1>2, <1>8 DEF V, w, n

(* The last byte is a CR.                                                  *)
EndsInCR(r) == r # <<>> /\ r[Len(r)] = <<CR, 1>>

(* What becomes of the last byte.                                          *)
LEMMA LastPart ==
  ASSUME NEW r \in Seq(Byte), NEW b \in Byte
  PROVE  /\ b \notin Breaks => Part(Append(r, b), Len(r) + 1) = <<b>>
         /\ b = <<LF, 1>> /\ ~EndsInCR(r) => Part(Append(r, b), Len(r) + 1) = <<b>>
         /\ b = <<LF, 1>> /\ EndsInCR(r) => Part(Append(r, b), Len(r) + 1) = <<>>
         /\ b = <<CR, 1>> => Part(Append(r, b), Len(r) + 1) = <<<<LF, 1>>>>
         /\ EndsInCR(Append(r, b)) <=> b = <<CR, 1>>
<1> DEFINE n == Len(r)
           w == Append(r, b)
<1>1. n \in Nat /\ Len(w) = n + 1 /\ w[n + 1] = b /\ w # <<>>
      /\ (\A i \in 1..n : w[i] = r[i]) /\ (r = <<>> <=> n = 0)
  OBVIOUS
<1> HIDE DEF w
<1>2. \A c : Is(w, (n + 1) - 1, c) <=> b = <<c, 1>>
  <2>1. (n + 1) - 1 < n + 1 /\ ((n + 1) - 1) + 1 = n + 1
    BY <1>1
  <2> QED
    BY <1>1, <2>1 DEF Is
<1>3. n + 1 > 1 /\ Is(w, (n + 1) - 2, CR) <=> EndsInCR(r)
  <2>1. CASE n = 0
    BY <1>1, <2>1 DEF EndsInCR
  <2>2. CASE n # 0
    <3>1. (n + 1) - 2 < n + 1 /\ ((n + 1) - 2) + 1 = n /\ n + 1 > 1 /\ n \in 1..n
      BY <1>1, <2>2
    <3>2. Is(w, (n + 1) - 2, CR) <=> r[n] = <<CR, 1>>
      BY <1>1, <3>1 DEF Is
    <3> QED
      BY <1>1, <2>2, <3>1, <3>2 DEF EndsInCR
  <2> QED
    BY <2>1, <2>2
<1>4. <<CR, 1>> # <<LF, 1>>
  BY WidthAssumption
<1>5. Part(w, n + 1) = IF b = <<CR, 1>> THEN <<<<LF, 1>>>>
                       ELSE IF b = <<LF, 1>> /\ EndsInCR(r) THEN <<>>
                       ELSE <<b>>
  BY <1>1, <1>2, <1>3 DEF Part
<1>6. EndsInCR(w) <=> b = <<CR, 1>>
  BY <1>1 DEF EndsInCR
<1>7. /\ b \notin Breaks => Part(w, n + 1) = <<b>>
      /\ b = <<LF, 1>> /\ ~EndsInCR(r) => Part(w, n + 1) = <<b>>
      /\ b = <<LF, 1>> /\ EndsInCR(r) => Part(w, n + 1) = <<>>
      /\ b = <<CR, 1>> => Part(w, n + 1) = <<<<LF, 1>>>>
  BY <1>4, <1>5 DEF Breaks
<1> QED
  BY <1>6, <1>7 DEF w

(* Bytes that end no line stay as they are.                                *)
LEMMA TransformOther ==
  ASSUME NEW r \in Seq(Byte), NEW y \in Seq(Byte), \A i \in 1..Len(y) : y[i] \notin Breaks, y # <<>>
  PROVE  /\ TransformUTF8ToLF(Cat(r, y)) = Cat(TransformUTF8ToLF(r), y)
         /\ ~EndsInCR(Cat(r, y))
<1> DEFINE V == Seq(Byte)
           n == Len(y)
           pre(k) == SubSeq(y, 1, k)
           So(k) == TransformUTF8ToLF(Cat(r, pre(k))) = Cat(TransformUTF8ToLF(r), pre(k))
           T == {k \in Nat : k <= n => So(k)}
<1>1. n \in Nat /\ n > 0 /\ pre(n) = y /\ \A k \in 0..n : pre(k) \in V
  OBVIOUS
<1>2. TransformUTF8ToLF(r) \in V /\ r \in V
  <2>1. <<LF, 1>> \in Byte
    BY BreakBytes
  <2> QED
    BY <2>1, TransformAppend
<1>3. Texts(V)
  BY SequencesAreTexts
<1>4. 0 \in T
  <2>1. pre(0) = <<>>
    OBVIOUS
  <2>2. Cat(r, <<>>) = r /\ Cat(TransformUTF8ToLF(r), <<>>) = TransformUTF8ToLF(r)
    <3> HIDE DEF V
    <3> QED
      BY <1>2, <1>3 DEF Texts
  <2> QED
    BY <2>1, <2>2
<1>5. ASSUME NEW k \in Nat, k + 1 \in 1..n
      PROVE  /\ y[k + 1] \in Byte /\ y[k + 1] \notin Breaks
             /\ Cat(r, pre(k + 1)) = Append(Cat(r, pre(k)), y[k + 1])
             /\ Cat(r, pre(k)) \in V
  <2>1. pre(k) \in V /\ y[k + 1] \in Byte /\ pre(k + 1) = Append(pre(k), y[k + 1])
    BY <1>5, PrefixGrows
  <2> DEFINE a == pre(k)
             b == y[k + 1]
  <2>2. Cat(r, Append(a, b)) = Append(Cat(r, a), b) /\ Cat(r, a) \in V
    <3> HIDE DEF a, b
    <3> QED
      BY <2>1 DEF Cat, a, b
  <2> QED
    BY <1>5, <2>1, <2>2
<1>6. ASSUME NEW k \in Nat, k \in T PROVE k + 1 \in T
  <2> SUFFICES ASSUME k + 1 \in 1..n PROVE So(k + 1)
    OBVIOUS
  <2>1. So(k)
    BY <1>6
  <2> DEFINE a == pre(k)
             b == y[k + 1]
             w == Cat(r, a)
  <2>2. b \in Byte /\ b \notin Breaks /\ Cat(r, pre(k + 1)) = Append(w, b) /\ w \in V
    BY <1>5
  <2>3. pre(k + 1) = Append(a, b) /\ a \in V
    BY <2>2, PrefixGrows
  <2>4. TransformUTF8ToLF(w) = Cat(TransformUTF8ToLF(r), a)
    BY <2>1
  <2> HIDE DEF a, b, w, pre
  <2>5. TransformUTF8ToLF(Append(w, b)) = Cat(TransformUTF8ToLF(w), <<b>>)
    <3>1. w \in Seq(Byte) /\ b \in Byte
      BY <2>2
    <3>2. Part(Append(w, b), Len(w) + 1) = <<b>>
      BY <2>2, <3>1, LastPart
    <3> QED
      BY <3>1, <3>2, TransformAppend
  <2>6. Cat(Cat(TransformUTF8ToLF(r), a), <<b>>) = Cat(TransformUTF8ToLF(r), Append(a, b))
    <3> DEFINE v == TransformUTF8ToLF(r)
    <3>1. v \in Seq(Byte) /\ a \in Seq(Byte) /\ b \in Byte
      BY <1>2, <2>2, <2>3
    <3> HIDE DEF v
    <3>2. Cat(Cat(v, a), <<b>>) = Cat(v, Append(a, b))
      <4>1. Cat(a, <<b>>) = Append(a, b) /\ <<b>> \in Seq(Byte)
        BY <3>1 DEF Cat
      <4>2. Cat(Cat(v, a), <<b>>) = Cat(v, Cat(a, <<b>>))
        <5> DEFINE c == <<b>>
        <5>1. v \in V /\ a \in V /\ c \in V
          BY <3>1, <4>1
        <5> HIDE DEF V, c
        <5>2. Cat(Cat(v, a), c) = Cat(v, Cat(a, c))
          BY <1>3, <5>1 DEF Texts
        <5> QED
          BY <5>2 DEF c
      <4> QED
        BY <4>1, <4>2
    <3> QED
      BY <3>2 DEF v
  <2> QED
    BY <2>2, <2>3, <2>4, <2>5, <2>6
<1>7. \A k \in Nat : k \in T
  <2> HIDE DEF T
  <2> QED
    BY <1>4, <1>6, InductionOnNat
<1>8. So(n)
  BY <1>1, <1>7
<1>9. ~EndsInCR(Cat(r, y))
  <2>1. y[n] \notin Breaks /\ Cat(r, y)[Len(Cat(r, y))] = y[n]
    <3>1. n \in 1..n
      BY <1>1
    <3>2. Len(Cat(r, y)) = Len(r) + n /\ Cat(r, y)[Len(r) + n] = y[n]
      BY <1>1, <3>1 DEF Cat
    <3> QED
      BY <3>1, <3>2
  <2> QED
    BY <2>1 DEF EndsInCR, Breaks
<1> QED
  BY <1>1, <1>8, <1>9

(* A cell more of bytes is a character more of the normal text.            *)
LEMMA TransformCell ==
  ASSUME NEW r \in Seq(Byte), ~EndsInCR(r), NEW x \in Cell
  PROVE  /\ TransformUTF8ToLF(Cat(r, Bytes(x))) = Cat(TransformUTF8ToLF(r), Shape(Kind(x)))
         /\ ~EndsInCR(Cat(r, Bytes(x)))
<1> DEFINE V == Seq(Byte)
           lf == <<LF, 1>>
           cr == <<CR, 1>>
<1>0. CR # LF /\ Width[LF] = 1 /\ lf \in Byte /\ cr \in Byte /\ lf # cr
  BY WidthAssumption, BreakBytes
<1>1. Len(x) \in 1..2 /\ Kind(x) \in Char \ {CR}
  BY CellsAre
<1>2. TransformUTF8ToLF(r) \in V
  BY <1>0, TransformAppend
<1>3. CASE Len(x) = 1 /\ Kind(x) # LF
  <2> DEFINE y == Bytes(x)
  <2>1. y = Shape(Kind(x))
    BY <1>3, CellsAre
  <2>2. y \in V /\ y # <<>>
    <3>1. y \in V /\ Len(y) \in 1..4
      BY CellBytes
    <3> HIDE DEF y, V
    <3>2. Len(<<>>) = 0
      OBVIOUS
    <3>3. ASSUME y = <<>> PROVE FALSE
      BY <3>1, <3>2, <3>3
    <3> QED
      BY <3>1, <3>3
  <2>3. \A i \in 1..Len(y) : y[i] \notin Breaks
    <3>1. Len(Shape(Kind(x))) = Width[Kind(x)] /\ Width[Kind(x)] \in 1..4
      BY <1>1, WidthAssumption DEF Shape, Char
    <3>2. \A i \in 1..Len(y) : y[i] = <<Kind(x), i>>
      BY <2>1, <3>1 DEF Shape
    <3> QED
      BY <1>1, <1>3, <3>2 DEF Breaks
  <2> HIDE DEF y
  <2>4. TransformUTF8ToLF(Cat(r, y)) = Cat(TransformUTF8ToLF(r), y) /\ ~EndsInCR(Cat(r, y))
    BY <2>2, <2>3, TransformOther
  <2> QED
    BY <2>1, <2>4 DEF y
<1>4. CASE Len(x) = 1 /\ Kind(x) = LF
  <2>1. Bytes(x) = <<lf>> /\ Shape(Kind(x)) = <<lf>>
    BY <1>4, CellsAre, BreakBytes
  <2> HIDE DEF lf, cr
  <2>2. Cat(r, <<lf>>) = Append(r, lf)
    BY <1>0 DEF Cat
  <2>3. TransformUTF8ToLF(Append(r, lf)) = Cat(TransformUTF8ToLF(r), <<lf>>)
    <3>1. Part(Append(r, lf), Len(r) + 1) = <<lf>>
      BY <1>0, LastPart DEF lf
    <3> QED
      BY <1>0, <3>1, TransformAppend
  <2>4. ~EndsInCR(Append(r, lf))
    BY <1>0, LastPart DEF cr
  <2> QED
    BY <2>1, <2>2, <2>3, <2>4
<1>5. CASE Len(x) = 2
  <2>1. Bytes(x) = <<cr, lf>> /\ Shape(Kind(x)) = <<lf>>
    BY <1>5, CellsAre, BreakBytes
  <2> HIDE DEF lf, cr
  <2> DEFINE w == Append(r, cr)
  <2>2. Cat(r, <<cr, lf>>) = Append(w, lf) /\ w \in V
    BY <1>0 DEF Cat
  <2>3. TransformUTF8ToLF(w) = Cat(TransformUTF8ToLF(r), <<lf>>)
    <3>1. Part(Append(r, cr), Len(r) + 1) = <<lf>>
      BY <1>0, LastPart DEF lf, cr
    <3> QED
      BY <1>0, <3>1, TransformAppend
  <2>4. EndsInCR(w)
    BY <1>0, LastPart DEF cr
  <2> HIDE DEF w
  <2>5. TransformUTF8ToLF(Append(w, lf)) = Cat(TransformUTF8ToLF(w), <<>>)
    <3>1. Part(Append(w, lf), Len(w) + 1) = <<>>
      BY <1>0, <2>2, <2>4, LastPart DEF lf
    <3> QED
      BY <1>0, <2>2, <3>1, TransformAppend
  <2>6. TransformUTF8ToLF(w) \in V
    BY <1>0, <2>2, TransformAppend
  <2>7. Cat(TransformUTF8ToLF(w), <<>>) = TransformUTF8ToLF(w)
    BY <2>6 DEF Cat
  <2>8. ~EndsInCR(Append(w, lf))
    BY <1>0, <2>2, LastPart DEF cr
  <2> QED
    BY <2>1, <2>2, <2>3, <2>5, <2>7, <2>8
<1> QED
  BY <1>1, <1>3, <1>4, <1>5

(* Normalised, the bytes of cells are those with every break an LF.        *)
LEMMA TransformCells ==
  \A s \in Seq(Cell) : TransformUTF8ToLF(RawOf(s)) = RawOf(Plain(s)) /\ ~EndsInCR(RawOf(s))
<1> DEFINE G == {s \in Seq(Cell) : TransformUTF8ToLF(RawOf(s)) = RawOf(Plain(s)) /\ ~EndsInCR(RawOf(s))}
<1>1. <<>> \in G
  <2>1. BytesOf(<<>>) = <<>> /\ Plain(<<>>) = <<>>
    BY DEF BytesOf, Plain
  <2>2. RawOf(<<>>) = <<>> /\ TransformUTF8ToLF(<<>>) = FlattenSeq(<<>>)
    BY <2>1, FlattenEmpty DEF RawOf, TransformUTF8ToLF
  <2> QED
    BY <2>1, <2>2, FlattenEmpty DEF EndsInCR
<1>2. ASSUME NEW s \in Seq(Cell), NEW x \in Cell, s \in G PROVE Append(s, x) \in G
  <2>1. RawOf(s) \in Seq(Byte) /\ Plain(s) \in Seq(Cell)
    BY MapsAre
  <2>2. RawOf(Append(s, x)) = Cat(RawOf(s), Bytes(x)) /\ Plain(Append(s, x)) = Append(Plain(s), <<Kind(x)>>)
    BY MapsAppend
  <2>3. <<Kind(x)>> \in Cell
    BY CellsAre
  <2>4. Bytes(<<Kind(x)>>) = Shape(Kind(x))
    <3> DEFINE c == Kind(x)
    <3> HIDE DEF c
    <3>1. Len(<<c>>) = 1 /\ <<c>>[1] = c
      OBVIOUS
    <3>2. Bytes(<<c>>) = Shape(c)
      BY <3>1 DEF Bytes
    <3> QED
      BY <3>2 DEF c
  <2>5. RawOf(Append(Plain(s), <<Kind(x)>>)) = Cat(RawOf(Plain(s)), Shape(Kind(x)))
    BY <2>1, <2>3, <2>4, MapsAppend
  <2>6. /\ TransformUTF8ToLF(Cat(RawOf(s), Bytes(x))) = Cat(TransformUTF8ToLF(RawOf(s)), Shape(Kind(x)))
        /\ ~EndsInCR(Cat(RawOf(s), Bytes(x)))
    BY <1>2, <2>1, TransformCell
  <2>7. TransformUTF8ToLF(RawOf(s)) = RawOf(Plain(s)) /\ Append(s, x) \in Seq(Cell)
    BY <1>2
  <2> DEFINE w == Append(s, x)
  <2> HIDE DEF w
  <2>8. TransformUTF8ToLF(RawOf(w)) = RawOf(Plain(w)) /\ ~EndsInCR(RawOf(w)) /\ w \in Seq(Cell)
    BY <2>2, <2>5, <2>6, <2>7 DEF w
  <2> QED
    BY <2>8 DEF w
<1>3. \A s \in Seq(Cell) : s \in G
  <2> HIDE DEF G
  <2> QED
    BY <1>1, <1>2, InductionOnCells
<1> QED
  BY <1>3

-----------------------------------------------------------------------------

(* The same elements, one after the other.                                 *)
LEMMA SameSequence ==
  ASSUME NEW S, NEW x \in Seq(S), NEW y \in Seq(S), Len(x) = Len(y),
         \A i \in 1..Len(x) : x[i] = y[i]
  PROVE  x = y
OBVIOUS

(* One sequence after the other, element by element.                       *)
LEMMA CatIs ==
  ASSUME NEW S, NEW x \in Seq(S), NEW y \in Seq(S)
  PROVE  /\ x \o y \in Seq(S) /\ Len(x \o y) = Len(x) + Len(y)
         /\ Len(x) \in Nat /\ Len(y) \in Nat
         /\ \A i \in 1..Len(x) : (x \o y)[i] = x[i]
         /\ \A i \in 1..Len(y) : (x \o y)[Len(x) + i] = y[i]
OBVIOUS

(* A sequence of texts cut between two of its parts.                       *)
LEMMA CutAt ==
  ASSUME NEW S, NEW s \in Seq(Seq(S)), NEW P, Places(s, P), NEW a \in 0..Len(s)
  PROVE  /\ SubSeq(FlattenSeq(s), 1, P[a]) = FlattenSeq(SubSeq(s, 1, a))
         /\ SubSeq(FlattenSeq(s), P[a] + 1, Len(FlattenSeq(s))) = FlattenSeq(SubSeq(s, a + 1, Len(s)))
<1> DEFINE V == Seq(S)
           x == SubSeq(s, 1, a)
           y == SubSeq(s, a + 1, Len(s))
<1>1. Texts(V)
  BY SequencesAreTexts
<1>2. s \in Seq(V) /\ Len(s) \in Nat
  OBVIOUS
<1> HIDE DEF V
<1>3. x \in Seq(V) /\ y \in Seq(V) /\ s = x \o y
  <2>1. x \in Seq(V) /\ Len(x) = a /\ \A i \in 1..a : x[i] = s[i]
    BY <1>2
  <2>2. y \in Seq(V) /\ Len(y) = Len(s) - a /\ \A i \in 1..(Len(s) - a) : y[i] = s[a + i]
    BY <1>2
  <2> HIDE DEF x, y
  <2>3. /\ x \o y \in Seq(V) /\ Len(x \o y) = Len(x) + Len(y)
        /\ \A i \in 1..Len(x) : (x \o y)[i] = x[i]
        /\ \A i \in 1..Len(y) : (x \o y)[Len(x) + i] = y[i]
    BY <2>1, <2>2, CatIs, SMTT(30)
  <2> DEFINE z == x \o y
  <2> HIDE DEF z
  <2>4. \A i \in 1..Len(s) : i \in 1..a \/ \E j \in 1..(Len(s) - a) : i = a + j
    <3> SUFFICES ASSUME NEW i \in 1..Len(s), i \notin 1..a PROVE \E j \in 1..(Len(s) - a) : i = a + j
      OBVIOUS
    <3>1. i - a \in 1..(Len(s) - a) /\ i = a + (i - a)
      BY <1>2
    <3> QED
      BY <3>1
  <2>5. \A i \in 1..Len(s) : s[i] = z[i]
    <3> SUFFICES ASSUME NEW i \in 1..Len(s) PROVE s[i] = z[i]
      OBVIOUS
    <3>1. CASE i \in 1..a
      BY <2>1, <2>3, <3>1 DEF z
    <3>2. CASE i \notin 1..a
      <4>1. PICK j \in 1..(Len(s) - a) : i = a + j
        BY <2>4, <3>2
      <4>2. y[j] = s[a + j] /\ z[a + j] = y[j]
        BY <2>1, <2>2, <2>3, <4>1 DEF z
      <4> QED
        BY <4>1, <4>2
    <3> QED
      BY <3>1, <3>2
  <2>6. z \in Seq(V) /\ Len(s) = Len(z)
    BY <1>2, <2>1, <2>2, <2>3 DEF z
  <2>7. s = z
    BY <1>2, <2>5, <2>6, SameSequence
  <2> QED
    BY <2>1, <2>2, <2>7 DEF z
<1>4. P[a] = Len(FlattenSeq(x))
  BY <1>1, <1>2, PlacesArePrefixes
<1> HIDE DEF x, y
<1>5. FlattenSeq(s) = Cat(FlattenSeq(x), FlattenSeq(y)) /\ FlattenSeq(x) \in V /\ FlattenSeq(y) \in V
  BY <1>1, <1>3, FlattenCat, FlattenTyped
<1>6. \A u, v \in V : SubSeq(u \o v, 1, Len(u)) = u /\ SubSeq(u \o v, Len(u) + 1, Len(u \o v)) = v
  <2> SUFFICES ASSUME NEW u \in V, NEW v \in V
               PROVE  SubSeq(u \o v, 1, Len(u)) = u /\ SubSeq(u \o v, Len(u) + 1, Len(u \o v)) = v
    OBVIOUS
  <2>1. u \in Seq(S) /\ v \in Seq(S)
    BY DEF V
  <2>2. SubSeq(u \o v, 1, Len(u)) = u
    BY <2>1
  <2>3. SubSeq(u \o v, Len(u) + 1, Len(u \o v)) = v
    BY <2>1
  <2> QED
    BY <2>2, <2>3
<1>7. SubSeq(FlattenSeq(s), 1, P[a]) = FlattenSeq(x)
  BY <1>4, <1>5, <1>6 DEF Cat
<1>8. SubSeq(FlattenSeq(s), P[a] + 1, Len(FlattenSeq(s))) = FlattenSeq(y)
  BY <1>4, <1>5, <1>6 DEF Cat
<1> QED
  BY <1>7, <1>8 DEF x, y

(* What stands between two such cuts replaced.                             *)
LEMMA SpliceAt ==
  ASSUME NEW S, NEW s \in Seq(Seq(S)), NEW p \in Seq(Seq(S)), NEW P, Places(s, P),
         NEW a \in 0..Len(s), NEW b \in 0..Len(s)
  PROVE  Replace(FlattenSeq(s), P[a], P[b], FlattenSeq(p)) = FlattenSeq(Replace(s, a, b, p))
<1> DEFINE V == Seq(S)
           x == SubSeq(s, 1, a)
           y == SubSeq(s, b + 1, Len(s))
<1>1. Texts(V)
  BY SequencesAreTexts
<1>2. s \in Seq(V) /\ Len(s) \in Nat /\ p \in Seq(V)
  OBVIOUS
<1>3. /\ SubSeq(FlattenSeq(s), 1, P[a]) = FlattenSeq(x)
      /\ SubSeq(FlattenSeq(s), P[b] + 1, Len(FlattenSeq(s))) = FlattenSeq(y)
  BY CutAt
<1> HIDE DEF V
<1>4. x \in Seq(V) /\ y \in Seq(V)
  BY <1>2
<1>5. Replace(s, a, b, p) = (x \o p) \o y
  BY DEF Replace
<1>6. Replace(FlattenSeq(s), P[a], P[b], FlattenSeq(p)) = (FlattenSeq(x) \o FlattenSeq(p)) \o FlattenSeq(y)
  BY <1>3 DEF Replace
<1> HIDE DEF x, y
<1>7. x \o p \in Seq(V)
  BY <1>2, <1>4
<1>8. FlattenSeq(x \o p) = Cat(FlattenSeq(x), FlattenSeq(p))
  BY <1>1, <1>2, <1>4, FlattenCat
<1>9. FlattenSeq((x \o p) \o y) = Cat(FlattenSeq(x \o p), FlattenSeq(y))
  BY <1>1, <1>4, <1>7, FlattenCat
<1> QED
  BY <1>5, <1>6, <1>8, <1>9 DEF Cat

(* A function, element by element.                                         *)
MapOf(g, s) == [i \in 1..Len(s) |-> g[s[i]]]

(* Replacing a part and mapping, in either order.                          *)
LEMMA MapReplace ==
  ASSUME NEW C, NEW g, NEW s \in Seq(C), NEW p \in Seq(C),
         NEW a \in 0..Len(s), NEW b \in 0..Len(s)
  PROVE  /\ MapOf(g, Replace(s, a, b, p)) = Replace(MapOf(g, s), a, b, MapOf(g, p))
         /\ MapOf(g, SubSeq(s, 1, a)) = SubSeq(MapOf(g, s), 1, a)
         /\ Replace(s, a, b, p) \in Seq(C)
<1> DEFINE V == {g[c] : c \in C}
<1>0. \A c \in C : g[c] \in V
  OBVIOUS
<1> HIDE DEF V
<1>1. \A x \in Seq(C) : /\ MapOf(g, x) \in Seq(V) /\ Len(MapOf(g, x)) = Len(x) /\ Len(x) \in Nat
                        /\ \A i \in 1..Len(x) : MapOf(g, x)[i] = g[x[i]]
  BY <1>0 DEF MapOf
<1>2. ASSUME NEW x \in Seq(C), NEW y \in Seq(C)
      PROVE  x \o y \in Seq(C) /\ MapOf(g, x \o y) = MapOf(g, x) \o MapOf(g, y)
  <2> DEFINE m == Len(x)
             n == Len(y)
             u == MapOf(g, x \o y)
             v == MapOf(g, x) \o MapOf(g, y)
             fx == MapOf(g, x)
             fy == MapOf(g, y)
  <2>1. /\ m \in Nat /\ n \in Nat /\ x \o y \in Seq(C) /\ Len(x \o y) = m + n
        /\ \A i \in 1..m : (x \o y)[i] = x[i]
        /\ \A i \in 1..n : (x \o y)[m + i] = y[i]
    OBVIOUS
  <2>2. u \in Seq(V) /\ Len(u) = m + n /\ \A i \in 1..(m + n) : u[i] = g[(x \o y)[i]]
    BY <1>1, <2>1
  <2>3. fx \in Seq(V) /\ fy \in Seq(V) /\ Len(fx) = m /\ Len(fy) = n
        /\ (\A i \in 1..m : fx[i] = g[x[i]]) /\ (\A i \in 1..n : fy[i] = g[y[i]])
    BY <1>1
  <2> HIDE DEF u, fx, fy, m, n
  <2>4. /\ fx \o fy \in Seq(V) /\ Len(fx \o fy) = m + n
        /\ \A i \in 1..m : (fx \o fy)[i] = fx[i]
        /\ \A i \in 1..n : (fx \o fy)[m + i] = fy[i]
    <3>1. /\ fx \o fy \in Seq(V) /\ Len(fx \o fy) = Len(fx) + Len(fy)
          /\ \A i \in 1..Len(fx) : (fx \o fy)[i] = fx[i]
          /\ \A i \in 1..Len(fy) : (fx \o fy)[Len(fx) + i] = fy[i]
      <4>1. fx \in Seq(V) /\ fy \in Seq(V)
        BY <2>3
      <4> QED
        BY <4>1, CatIs
    <3>2. Len(fx) = m /\ Len(fy) = n
      BY <2>3
    <3> QED
      BY <3>1, <3>2
  <2> DEFINE w == fx \o fy
             z == x \o y
  <2> HIDE DEF w, z
  <2>5. \A i \in 1..(m + n) : u[i] = w[i]
    <3> SUFFICES ASSUME NEW i \in 1..(m + n) PROVE u[i] = w[i]
      OBVIOUS
    <3>0. u[i] = g[z[i]]
      BY <2>2 DEF z
    <3>1. CASE i \in 1..m
      <4>1. z[i] = x[i] /\ w[i] = fx[i] /\ fx[i] = g[x[i]]
        BY <2>1, <2>3, <2>4, <3>1 DEF z, w
      <4> QED
        BY <3>0, <4>1
    <3>2. CASE i \notin 1..m
      <4> DEFINE j == i - m
      <4>1. j \in 1..n /\ i = m + j
        BY <2>1, <3>2
      <4> HIDE DEF j
      <4>2. z[m + j] = y[j] /\ w[m + j] = fy[j] /\ fy[j] = g[y[j]]
        BY <2>1, <2>3, <2>4, <4>1 DEF z, w
      <4> QED
        BY <3>0, <4>1, <4>2
    <3> QED
      BY <3>1, <3>2
  <2>6. u = w
    <3>1. w \in Seq(V) /\ Len(u) = Len(w)
      BY <2>2, <2>4 DEF w
    <3>2. \A i \in 1..Len(u) : u[i] = w[i]
      BY <2>2, <2>5
    <3> QED
      BY <2>2, <3>1, <3>2, SameSequence
  <2> QED
    BY <2>1, <2>6 DEF u, w, fx, fy
<1>3. ASSUME NEW i \in 1..(Len(s) + 1), NEW j \in 0..Len(s)
      PROVE  MapOf(g, SubSeq(s, i, j)) = SubSeq(MapOf(g, s), i, j) /\ SubSeq(s, i, j) \in Seq(C)
  <2> DEFINE f == MapOf(g, s)
             x == SubSeq(s, i, j)
             n == IF i <= j THEN j - i + 1 ELSE 0
  <2>1. f \in Seq(V) /\ Len(f) = Len(s) /\ Len(s) \in Nat /\ \A k \in 1..Len(s) : f[k] = g[s[k]]
    BY <1>1
  <2>2. x \in Seq(C) /\ Len(x) = n /\ n \in Nat /\ \A k \in 1..n : x[k] = s[i + k - 1] /\ i + k - 1 \in 1..Len(s)
    OBVIOUS
  <2>3. MapOf(g, x) \in Seq(V) /\ Len(MapOf(g, x)) = n /\ \A k \in 1..n : MapOf(g, x)[k] = g[x[k]]
    BY <1>1, <2>2
  <2> HIDE DEF f, x
  <2> DEFINE y == SubSeq(f, i, j)
             z == MapOf(g, x)
  <2>4. y \in Seq(V) /\ Len(y) = n /\ \A k \in 1..n : y[k] = f[i + k - 1]
    BY <2>1
  <2> HIDE DEF y, z, n
  <2>5. \A k \in 1..n : y[k] = z[k]
    <3> SUFFICES ASSUME NEW k \in 1..n PROVE y[k] = z[k]
      OBVIOUS
    <3> DEFINE e == i + k - 1
    <3>1. y[k] = f[e] /\ x[k] = s[e] /\ e \in 1..Len(s)
      BY <2>2, <2>4
    <3> HIDE DEF e
    <3>2. f[e] = g[s[e]] /\ z[k] = g[x[k]]
      BY <2>1, <2>3, <3>1 DEF z
    <3> QED
      BY <3>1, <3>2
  <2>6. y = z
    <3>1. z \in Seq(V) /\ Len(y) = Len(z) /\ y \in Seq(V)
      BY <2>3, <2>4 DEF z
    <3>2. \A k \in 1..Len(y) : y[k] = z[k]
      BY <2>4, <2>5
    <3> QED
      BY <3>1, <3>2, SameSequence
  <2> QED
    BY <2>2, <2>6 DEF y, z, f, x
<1>4. Len(s) \in Nat /\ 1 \in 1..(Len(s) + 1) /\ b + 1 \in 1..(Len(s) + 1) /\ Len(s) \in 0..Len(s)
      /\ Len(MapOf(g, s)) = Len(s)
  BY <1>1
<1> DEFINE x == SubSeq(s, 1, a)
           y == SubSeq(s, b + 1, Len(s))
           f == MapOf(g, s)
           h == MapOf(g, p)
<1>5. /\ MapOf(g, x) = SubSeq(f, 1, a) /\ x \in Seq(C)
      /\ MapOf(g, y) = SubSeq(f, b + 1, Len(f)) /\ y \in Seq(C)
  <2>1. MapOf(g, x) = SubSeq(f, 1, a) /\ x \in Seq(C)
    BY <1>3, <1>4
  <2>2. MapOf(g, y) = SubSeq(f, b + 1, Len(s)) /\ y \in Seq(C)
    BY <1>3, <1>4
  <2> QED
    BY <1>4, <2>1, <2>2
<1>6. Replace(s, a, b, p) = (x \o p) \o y /\ Replace(f, a, b, h) = (SubSeq(f, 1, a) \o h) \o SubSeq(f, b + 1, Len(f))
  BY DEF Replace
<1> HIDE DEF x, y, f
<1>7. MapOf(g, x \o p) = MapOf(g, x) \o h /\ x \o p \in Seq(C)
  BY <1>2, <1>5
<1>8. MapOf(g, (x \o p) \o y) = MapOf(g, x \o p) \o MapOf(g, y) /\ (x \o p) \o y \in Seq(C)
  BY <1>2, <1>5, <1>7
<1>9. MapOf(g, Replace(s, a, b, p)) = Replace(f, a, b, h) /\ Replace(s, a, b, p) \in Seq(C)
  BY <1>5, <1>6, <1>7, <1>8
<1> QED
  BY <1>5, <1>9 DEF f, x

(* The bytes of cells replaced, and their kinds.                           *)
LEMMA SpliceCells ==
  ASSUME NEW s \in Seq(Cell), NEW p \in Seq(Cell), NEW P, Places(BytesOf(s), P),
         NEW a \in 0..Len(s), NEW b \in 0..Len(s)
  PROVE  /\ Replace(s, a, b, p) \in Seq(Cell)
         /\ Replace(RawOf(s), P[a], P[b], RawOf(p)) = RawOf(Replace(s, a, b, p))
         /\ SubSeq(RawOf(s), 1, P[a]) = RawOf(SubSeq(s, 1, a))
         /\ Plain(Replace(s, a, b, p)) = Replace(Plain(s), a, b, Plain(p))
         /\ Plain(SubSeq(s, 1, a)) = SubSeq(Plain(s), 1, a)
<1> DEFINE g == [x \in Cell |-> Bytes(x)]
           h == [x \in Cell |-> <<Kind(x)>>]
<1>2. \A t \in Seq(Cell) : BytesOf(t) = MapOf(g, t) /\ Plain(t) = MapOf(h, t)
  <2> SUFFICES ASSUME NEW t \in Seq(Cell) PROVE BytesOf(t) = MapOf(g, t) /\ Plain(t) = MapOf(h, t)
    OBVIOUS
  <2>1. \A i \in 1..Len(t) : t[i] \in Cell
    OBVIOUS
  <2> QED
    BY <2>1 DEF BytesOf, Plain, MapOf
<1> HIDE DEF g, h
<1>3. /\ MapOf(g, Replace(s, a, b, p)) = Replace(MapOf(g, s), a, b, MapOf(g, p))
      /\ MapOf(g, SubSeq(s, 1, a)) = SubSeq(MapOf(g, s), 1, a)
      /\ Replace(s, a, b, p) \in Seq(Cell)
  BY MapReplace
<1>4. /\ MapOf(h, Replace(s, a, b, p)) = Replace(MapOf(h, s), a, b, MapOf(h, p))
      /\ MapOf(h, SubSeq(s, 1, a)) = SubSeq(MapOf(h, s), 1, a)
  BY MapReplace
<1>5. SubSeq(s, 1, a) \in Seq(Cell)
  OBVIOUS
<1>6. /\ BytesOf(Replace(s, a, b, p)) = Replace(BytesOf(s), a, b, BytesOf(p))
      /\ BytesOf(SubSeq(s, 1, a)) = SubSeq(BytesOf(s), 1, a)
      /\ Plain(Replace(s, a, b, p)) = Replace(Plain(s), a, b, Plain(p))
      /\ Plain(SubSeq(s, 1, a)) = SubSeq(Plain(s), 1, a)
  BY <1>2, <1>3, <1>4, <1>5
<1>7. BytesOf(s) \in Seq(Seq(Byte)) /\ BytesOf(p) \in Seq(Seq(Byte)) /\ Len(BytesOf(s)) = Len(s)
  BY MapsAre
<1> DEFINE u == BytesOf(s)
           w == BytesOf(p)
<1> HIDE DEF u, w
<1>8. Replace(FlattenSeq(u), P[a], P[b], FlattenSeq(w)) = FlattenSeq(Replace(u, a, b, w))
      /\ SubSeq(FlattenSeq(u), 1, P[a]) = FlattenSeq(SubSeq(u, 1, a))
  <2>1. u \in Seq(Seq(Byte)) /\ w \in Seq(Seq(Byte)) /\ Len(u) = Len(s) /\ Places(u, P)
    BY <1>7 DEF u, w
  <2> QED
    BY <2>1, SpliceAt, CutAt
<1> QED
  BY <1>3, <1>6, <1>8 DEF RawOf, u, w

-----------------------------------------------------------------------------

(* The UTF-16 units of the characters of t at the places of S.             *)
SumOf(t, S) == MapThenSumSet(LAMBDA i : Units(t[i]), S)
WeightOf(t, S) == [x \in S |-> Units(t[x])]

(* MapThenSumSet adds them up.                                             *)
LEMMA SumAdds ==
  ASSUME NEW t \in Seq(Char), NEW S \in SUBSET (1..Len(t))
  PROVE  /\ WeightOf(t, S) \in [S -> Nat] /\ IsFiniteSet(S)
         /\ \E f : Adds(WeightOf(t, S), S, f) /\ SumOf(t, S) = f[S]
<1> DEFINE w == WeightOf(t, S)
           ch(s) == CHOOSE x \in s : TRUE
           Iter(f) == f = [s \in SUBSET S |->
                             IF s = {} THEN 0 ELSE Units(t[CHOOSE x \in s : TRUE]) + f[s \ {CHOOSE x \in s : TRUE}]]
           c == CHOOSE f : Iter(f)
<1>1. \A x \in S : Units(t[x]) \in Nat
  BY DEF Units
<1>2. w \in [S -> Nat] /\ \A x \in S : w[x] = Units(t[x])
  BY <1>1 DEF WeightOf
<1>3. IsFiniteSet(S)
  <2>1. Len(t) \in Nat
    OBVIOUS
  <2>2. IsFiniteSet(1..Len(t))
    BY <2>1, FS_Interval
  <2> QED
    BY <2>2, FS_Subset
<1>4. \A s \in SUBSET S : s # {} => ch(s) \in S
  OBVIOUS
<1> HIDE DEF w
<1>5. \A f : Adds(w, S, f) <=> Iter(f)
  <2> SUFFICES ASSUME NEW f PROVE Adds(w, S, f) <=> Iter(f)
    OBVIOUS
  <2> DEFINE x1(s) == IF s = {} THEN 0 ELSE w[ch(s)] + f[s \ {ch(s)}]
             x2(s) == IF s = {} THEN 0 ELSE Units(t[ch(s)]) + f[s \ {ch(s)}]
  <2>1. \A s \in SUBSET S : x1(s) = x2(s)
    <3> HIDE DEF ch
    <3> QED
      BY <1>2, <1>4
  <2>2. [s \in SUBSET S |-> x1(s)] = [s \in SUBSET S |-> x2(s)]
    <3> HIDE DEF x1, x2
    <3> QED
      BY <2>1
  <2> QED
    BY <2>2 DEF Adds
<1>6. \E f : Adds(w, S, f)
  BY <1>2, <1>3, AddsExists
<1>7. \E f : Iter(f)
  <2> HIDE DEF Iter
  <2> QED
    BY <1>5, <1>6
<1>8. Iter(c)
  <2> HIDE DEF Iter
  <2> QED
    BY <1>7
<1>9. SumOf(t, S) = c[S]
  BY DEF SumOf, MapThenSumSet, MapThenFoldSet
<1> HIDE DEF c
<1>10. Adds(w, S, c)
  <2> HIDE DEF Iter
  <2> QED
    BY <1>5, <1>8
<1> QED
  BY <1>2, <1>3, <1>9, <1>10 DEF w

(* One place more is one character's units more.                           *)
LEMMA SumOfIs ==
  ASSUME NEW t \in Seq(Char), NEW a \in Nat \ {0}, NEW b \in 0..Len(t)
  PROVE  /\ SumOf(t, a..b) \in Nat
         /\ a > b => SumOf(t, a..b) = 0
         /\ a <= b => SumOf(t, a..b) = SumOf(t, a..(b - 1)) + Units(t[b])
<1> DEFINE S == a..b
           R == a..(b - 1)
           w == WeightOf(t, S)
           v == WeightOf(t, R)
<1>1. S \in SUBSET (1..Len(t)) /\ R \in SUBSET (1..Len(t)) /\ R \subseteq S /\ (a > b => S = {})
      /\ (a <= b => b \in S /\ S \ {b} = R)
  OBVIOUS
<1>2. (\A x \in S : w[x] = Units(t[x])) /\ (\A x \in R : v[x] = Units(t[x]))
  BY DEF WeightOf
<1> HIDE DEF S, R, w, v
<1>3. PICK f : Adds(w, S, f) /\ SumOf(t, S) = f[S]
  BY <1>1, SumAdds DEF w
<1>4. PICK g : Adds(v, R, g) /\ SumOf(t, R) = g[R]
  BY <1>1, SumAdds DEF v
<1>5. w \in [S -> Nat] /\ v \in [R -> Nat] /\ IsFiniteSet(S) /\ IsFiniteSet(R)
  BY <1>1, SumAdds DEF w, v
<1>6. f[S] \in Nat /\ (S = {} => f[S] = 0)
  <2>1. AddsUp(w, S, f) /\ S \in SUBSET S
    BY <1>3, <1>5, AddsEach
  <2> QED
    BY <2>1 DEF AddsUp
<1>8. ASSUME a <= b PROVE f[S] = g[R] + Units(t[b])
  <2>1. b \in S /\ w[b] = Units(t[b]) /\ OneLess(R, S, b)
    BY <1>1, <1>2, <1>8 DEF OneLess
  <2>2. Adds(w, S, f) /\ Adds(v, R, g) /\ SameOn(R, v, w)
    BY <1>1, <1>2, <1>3, <1>4 DEF SameOn
  <2>3. f[S] = w[b] + g[R] /\ g[R] \in Nat
    BY <1>5, <2>1, <2>2, AddsOne
  <2>4. w[b] \in Nat
    BY <1>5, <2>1
  <2> QED
    BY <2>1, <2>3, <2>4
<1>10. SumOf(t, S) \in Nat /\ (a > b => SumOf(t, S) = 0)
  BY <1>1, <1>3, <1>6
<1>11. a <= b => SumOf(t, S) = SumOf(t, R) + Units(t[b])
  BY <1>3, <1>4, <1>8
<1> QED
  BY <1>10, <1>11 DEF S, R

(* Lines and units before each of the cells of a text.                     *)
Counts(s, L, U) ==
  /\ L \in [0..Len(s) -> Nat] /\ U \in [0..Len(s) -> Nat]
  /\ L[0] = 0 /\ U[0] = 0
  /\ \A i \in 1..Len(s) :
       IF Kind(s[i]) = LF THEN L[i] = L[i - 1] + 1 /\ U[i] = 0
       ELSE L[i] = L[i - 1] /\ U[i] = U[i - 1] + Units(Kind(s[i]))

(* Where the cells of a text are.                                          *)
LEMMA CellPlaces ==
  ASSUME NEW s \in Seq(Cell), NEW P, Places(s, P)
  PROVE  /\ Climbs(P, Len(s)) /\ \A i, j \in 0..Len(s) : i < j => P[i] < P[j]
         /\ Len(FlattenSeq(s)) = P[Len(s)] /\ P[0] = 0
         /\ \A i \in 1..Len(s) :
              /\ P[i] = P[i - 1] + Len(s[i]) /\ Len(s[i]) \in 1..2
              /\ FlattenSeq(s)[P[i]] = Kind(s[i])
              /\ Len(s[i]) = 2 => FlattenSeq(s)[P[i - 1] + 1] = CR /\ Kind(s[i]) = LF
              /\ Kind(s[i]) # LF => P[i] = P[i - 1] + 1
<1> DEFINE n == Len(s)
           t == FlattenSeq(s)
<1>0. n \in Nat /\ \A i \in 1..n : s[i] \in Cell
  OBVIOUS
<1>1. P \in [0..n -> Nat] /\ P[0] = 0 /\ Len(t) = P[n]
  BY DEF Places
<1>2. \A k \in 1..n : P[k] = P[k - 1] + Len(s[k]) /\ \A i \in 1..Len(s[k]) : t[P[k - 1] + i] = s[k][i]
  BY DEF Places
<1> HIDE DEF t, n
<1>3. ASSUME NEW i \in 1..n
      PROVE  /\ P[i] = P[i - 1] + Len(s[i]) /\ Len(s[i]) \in 1..2
             /\ t[P[i]] = Kind(s[i])
             /\ Len(s[i]) = 2 => t[P[i - 1] + 1] = CR /\ Kind(s[i]) = LF
             /\ Kind(s[i]) # LF => P[i] = P[i - 1] + 1
  <2>1. s[i] \in Cell /\ Len(s[i]) \in 1..2
    BY <1>0, CellsAre
  <2>2. P[i] = P[i - 1] + Len(s[i])
    BY <1>2
  <2>3. t[P[i]] = s[i][Len(s[i])]
    <3>1. Len(s[i]) \in 1..Len(s[i])
      <4> DEFINE d == Len(s[i])
      <4>1. d \in 1..2
        BY <2>1
      <4> HIDE DEF d
      <4>2. d \in 1..d
        BY <4>1
      <4> QED
        BY <4>2 DEF d
    <3> QED
      BY <1>2, <2>2, <3>1
  <2>4. ASSUME Len(s[i]) = 2 PROVE t[P[i - 1] + 1] = CR /\ Kind(s[i]) = LF
    <3>1. s[i] = <<CR, LF>> /\ Kind(s[i]) = LF
      BY <2>1, <2>4, CellsAre
    <3>2. s[i][1] = CR /\ 1 \in 1..Len(s[i])
      BY <2>4, <3>1
    <3> QED
      BY <1>2, <3>1, <3>2
  <2>5. ASSUME Kind(s[i]) # LF PROVE P[i] = P[i - 1] + 1
    <3>1. Len(s[i]) = 1
      BY <2>1, <2>4, <2>5
    <3> QED
      BY <2>2, <3>1
  <2> QED
    BY <2>1, <2>2, <2>3, <2>4, <2>5 DEF Kind
<1>4. \A i \in 1..n : P[i - 1] < P[i] /\ P[i - 1] \in Nat /\ P[i] \in Nat
  <2> SUFFICES ASSUME NEW i \in 1..n PROVE P[i - 1] < P[i] /\ P[i - 1] \in Nat /\ P[i] \in Nat
    OBVIOUS
  <2>1. P[i - 1] \in Nat /\ P[i] \in Nat
    BY <1>0, <1>1
  <2> DEFINE d == Len(s[i])
  <2>2. P[i] = P[i - 1] + d /\ d \in 1..2
    BY <1>3
  <2> HIDE DEF d
  <2> QED
    BY <2>1, <2>2
<1>5. Climbs(P, n)
  BY <1>1, <1>4 DEF Climbs
<1>6. ASSUME NEW i \in 0..n, NEW j \in 0..n, i < j PROVE P[i] < P[j]
  <2> DEFINE k == i + 1
  <2>1. k \in 1..n /\ k - 1 = i /\ k <= j /\ k \in 0..n
    BY <1>0, <1>6
  <2> HIDE DEF k
  <2>2. P[i] < P[k]
    BY <1>4, <2>1
  <2>3. P[k] <= P[j]
    BY <1>0, <1>5, <2>1, ClimbsToTheTop
  <2>4. P[i] \in Nat /\ P[j] \in Nat /\ P[k] \in Nat
    BY <1>1, <2>1
  <2> QED
    BY <2>2, <2>3, <2>4
<1> QED
  BY <1>1, <1>3, <1>5, <1>6 DEF t, n

-----------------------------------------------------------------------------

(* The boundaries of a text are between its cells.                         *)
LEMMA CellBoundaries ==
  ASSUME NEW s \in Seq(Cell), NEW P, Places(s, P)
  PROVE  /\ \A k : k \in Boundaries(FlattenSeq(s)) <=> \E i \in 0..Len(s) : k = P[i]
         /\ \A k : k \in LineEnds(FlattenSeq(s)) <=> \E i \in 1..Len(s) : k = P[i] /\ Kind(s[i]) = LF
<1> DEFINE n == Len(s)
           t == FlattenSeq(s)
<1>0. n \in Nat /\ (\A i \in 1..n : s[i] \in Cell) /\ t \in Seq(Char)
  BY MapsAre
<1>1. /\ Climbs(P, n) /\ \A i, j \in 0..n : i < j => P[i] < P[j]
      /\ Len(t) = P[n] /\ P[0] = 0
  BY CellPlaces
<1>2. \A i \in 1..n :
        /\ P[i] = P[i - 1] + Len(s[i]) /\ Len(s[i]) \in 1..2
        /\ t[P[i]] = Kind(s[i])
        /\ Len(s[i]) = 2 => t[P[i - 1] + 1] = CR /\ Kind(s[i]) = LF
  BY CellPlaces
<1>3. \A i \in 1..n : Kind(s[i]) # CR
  BY <1>0, CellsAre
<1>4. P \in [0..n -> Nat] /\ \A i \in 0..n : P[i] <= P[n]
  <2> HIDE DEF t, n
  <2>1. \A j, k \in 0..n : j <= k => P[j] <= P[k]
    BY <1>0, <1>1, ClimbsToTheTop
  <2>2. n \in 0..n /\ \A i \in 0..n : i <= n
    BY <1>0
  <2> QED
    BY <1>1, <2>1, <2>2 DEF Climbs
<1> HIDE DEF t, n
<1>5. CR # LF
  BY WidthAssumption
<1> DEFINE Found(k) == \/ \E i \in 0..n : k = P[i]
                       \/ \E i \in 1..n : Len(s[i]) = 2 /\ k = P[i - 1] + 1
           T == {j \in Nat : j \in 0..n => \A k \in 0..P[j] : Found(k)}
<1>6. 0 \in T
  <2>1. \A k \in 0..P[0] : k = P[0]
    BY <1>1
  <2> QED
    BY <1>0, <2>1
<1>7. ASSUME NEW j \in Nat, j \in T PROVE j + 1 \in T
  <2> SUFFICES ASSUME NEW i \in 1..n, i = j + 1, NEW k \in 0..P[i] PROVE Found(k)
    OBVIOUS
  <2>1. j = i - 1 /\ j \in 0..n /\ i \in 0..n
    BY <1>0
  <2> DEFINE d == Len(s[i])
  <2>2. P[i] = P[j] + d /\ d \in 1..2 /\ P[j] \in Nat
    BY <1>2, <1>4, <2>1
  <2>3. CASE k <= P[j]
    <3>1. \A h \in 0..P[j] : Found(h)
      BY <1>7, <2>1
    <3>2. k \in 0..P[j]
      BY <2>2, <2>3
    <3> HIDE DEF Found
    <3> QED
      BY <3>1, <3>2
  <2>4. CASE ~(k <= P[j])
    <3>1. k = P[i] \/ (d = 2 /\ k = P[j] + 1)
      <4> HIDE DEF d
      <4> QED
        BY <2>2, <2>4
    <3> QED
      BY <2>1, <3>1
  <2> QED
    BY <2>3, <2>4
<1>8. \A j \in Nat : j \in T
  <2> HIDE DEF T
  <2> QED
    BY <1>6, <1>7, InductionOnNat
<1>9. \A k \in 0..Len(t) : Found(k)
  BY <1>0, <1>1, <1>8
<1>10. ASSUME NEW i \in 0..n PROVE P[i] \in Boundaries(t)
  <2>1. P[i] \in 0..Len(t)
    BY <1>1, <1>4
  <2>2. ASSUME P[i] \in 1..(Len(t) - 1), t[P[i]] = CR PROVE FALSE
    <3>1. i # 0
      BY <1>1, <2>2
    <3>2. i \in 1..n
      BY <1>0, <3>1
    <3>3. t[P[i]] = Kind(s[i])
      BY <1>2, <3>2
    <3> QED
      BY <1>3, <2>2, <3>2, <3>3
  <2> QED
    BY <2>1, <2>2 DEF Boundaries, InsideBreak
<1>11. ASSUME NEW i \in 1..n, Len(s[i]) = 2 PROVE P[i - 1] + 1 \notin Boundaries(t)
  <2> DEFINE k == P[i - 1] + 1
             d == Len(s[i])
  <2>1. P[i - 1] \in Nat /\ P[i] \in Nat /\ P[i] <= P[n] /\ Len(t) = P[n] /\ P[n] \in Nat
    BY <1>0, <1>1, <1>4
  <2>2. P[i] = P[i - 1] + 2 /\ t[k] = CR /\ t[P[i]] = LF
    BY <1>2, <1>11
  <2>3. k \in 1..(Len(t) - 1) /\ k + 1 = P[i]
    BY <2>1, <2>2, SMTT(30)
  <2>4. InsideBreak(t, k)
    BY <2>2, <2>3 DEF InsideBreak
  <2> QED
    BY <2>4 DEF Boundaries
<1>12. \A k : k \in Boundaries(t) <=> \E i \in 0..n : k = P[i]
  <2>1. ASSUME NEW k, k \in Boundaries(t) PROVE \E i \in 0..n : k = P[i]
    <3>1. k \in 0..Len(t)
      BY <2>1 DEF Boundaries
    <3> QED
      BY <1>9, <1>11, <2>1, <3>1
  <2> QED
    BY <1>10, <2>1
<1>13. \A k : k \in LineEnds(t) <=> \E i \in 1..n : k = P[i] /\ Kind(s[i]) = LF
  <2>1. ASSUME NEW k, k \in LineEnds(t) PROVE \E i \in 1..n : k = P[i] /\ Kind(s[i]) = LF
    <3>1. k \in Boundaries(t) /\ k # 0 /\ t[k] \in {CR, LF}
      BY <2>1 DEF LineEnds
    <3>2. PICK i \in 0..n : k = P[i]
      BY <1>12, <3>1
    <3>3. i \in 1..n
      BY <1>0, <1>1, <3>1, <3>2
    <3>4. t[k] = Kind(s[i])
      BY <1>2, <3>2, <3>3
    <3> QED
      BY <1>3, <3>1, <3>2, <3>3, <3>4
  <2>2. ASSUME NEW i \in 1..n, Kind(s[i]) = LF PROVE P[i] \in LineEnds(t)
    <3>1. P[i] \in Boundaries(t)
      BY <1>0, <1>12
    <3>2. P[i] # 0
      <4>1. 0 \in 0..n /\ i \in 0..n /\ 0 < i
        BY <1>0
      <4>2. P[0] < P[i]
        BY <1>1, <4>1
      <4> QED
        BY <1>1, <4>2
    <3>3. t[P[i]] = LF
      BY <1>2, <2>2
    <3> QED
      BY <3>1, <3>2, <3>3 DEF LineEnds
  <2> QED
    BY <2>1, <2>2
<1> QED
  BY <1>12, <1>13 DEF t, n

(* Position counts the lines and the units of the cells before it.         *)
LEMMA PositionsCount ==
  ASSUME NEW s \in Seq(Cell), NEW P, Places(s, P)
  PROVE  \E L, U : /\ Counts(s, L, U)
                   /\ \A i \in 0..Len(s) : /\ Position(FlattenSeq(s), P[i]).line = L[i]
                                           /\ Position(FlattenSeq(s), P[i]).character = U[i]
<1> DEFINE n == Len(s)
           t == FlattenSeq(s)
           E(i) == { e \in LineEnds(t) : e <= P[i] }
           start(i) == IF E(i) = {} THEN 0 ELSE Max(E(i))
           Lf(i) == Cardinality(E(i))
           Uf(i) == SumOf(t, (start(i) + 1)..P[i])
           L == [i \in 0..n |-> Lf(i)]
           U == [i \in 0..n |-> Uf(i)]
<1>0. n \in Nat /\ (\A i \in 1..n : s[i] \in Cell) /\ t \in Seq(Char) /\ Len(t) \in Nat
  BY MapsAre
<1>1. /\ Climbs(P, n) /\ \A i, j \in 0..n : i < j => P[i] < P[j]
      /\ Len(t) = P[n] /\ P[0] = 0
  BY CellPlaces
<1>2. \A i \in 1..n : t[P[i]] = Kind(s[i]) /\ (Kind(s[i]) # LF => P[i] = P[i - 1] + 1)
  BY CellPlaces
<1>3. \A k : k \in LineEnds(t) <=> \E i \in 1..n : k = P[i] /\ Kind(s[i]) = LF
  BY CellBoundaries
<1>4. P \in [0..n -> Nat] /\ \A i \in 0..n : P[i] \in 0..Len(t)
  <2> HIDE DEF t, n
  <2>1. \A j, k \in 0..n : j <= k => P[j] <= P[k]
    BY <1>0, <1>1, ClimbsToTheTop
  <2>2. n \in 0..n /\ \A i \in 0..n : i <= n
    BY <1>0
  <2>3. \A i \in 0..n : P[i] <= P[n]
    BY <2>1, <2>2
  <2>4. P \in [0..n -> Nat]
    BY <1>1 DEF Climbs
  <2>5. \A i \in 0..n : P[i] \in Nat /\ P[i] <= Len(t)
    BY <1>1, <2>3, <2>4
  <2> QED
    BY <1>0, <2>4, <2>5
<1>5. \A i \in 0..n : Position(t, P[i]).line = Lf(i) /\ Position(t, P[i]).character = Uf(i)
  BY DEF Position, SumOf
<1> HIDE DEF t, n
<1>6. \A i \in 0..n : E(i) \subseteq 0..P[i] /\ E(i) \subseteq 0..Len(t)
  <2>1. \A k \in LineEnds(t) : k \in 0..Len(t)
    BY <1>0, <1>3, <1>4
  <2> QED
    BY <1>4, <2>1
<1>7. \A i \in 0..n : IsFiniteSet(E(i)) /\ Lf(i) \in Nat
  <2>1. IsFiniteSet(0..Len(t))
    BY <1>0, FS_Interval
  <2>2. \A i \in 0..n : IsFiniteSet(E(i))
    BY <1>6, <2>1, FS_Subset
  <2> QED
    BY <2>2, FS_CardinalityType
<1>8. \A i \in 0..n : start(i) \in 0..P[i]
  <2> SUFFICES ASSUME NEW i \in 0..n, E(i) # {} PROVE Max(E(i)) \in 0..P[i]
    BY <1>4
  <2>1. P[i] \in Nat /\ E(i) \subseteq 0..P[i]
    BY <1>4, <1>6
  <2> HIDE DEF E
  <2>2. Max(E(i)) \in E(i)
    BY <2>1, MaxIs
  <2> QED
    BY <2>1, <2>2
<1>9. E(0) = {}
  <2> SUFFICES ASSUME NEW e \in E(0) PROVE FALSE
    OBVIOUS
  <2>1. PICK i \in 1..n : e = P[i]
    BY <1>3
  <2>2. e <= 0 /\ P[0] < P[i] /\ P[i] \in Nat
    BY <1>0, <1>1, <1>4, <2>1
  <2> QED
    BY <1>1, <2>1, <2>2
<1>10. ASSUME NEW i \in 1..n
       PROVE  /\ Kind(s[i]) = LF => E(i) = E(i - 1) \cup {P[i]} /\ P[i] \notin E(i - 1)
              /\ Kind(s[i]) # LF => E(i) = E(i - 1)
  <2>1. i - 1 \in 0..n /\ i \in 0..n /\ P[i - 1] < P[i] /\ P[i - 1] \in Nat /\ P[i] \in Nat
    BY <1>0, <1>1, <1>4
  <2>2. \A e \in E(i - 1) : e \in E(i)
    <3>1. \A e \in LineEnds(t) : e \in Nat
      BY <1>0, <1>3, <1>4
    <3> QED
      BY <2>1, <3>1
  <2>3. P[i] \notin E(i - 1)
    BY <2>1
  <2>4. ASSUME NEW e \in E(i) PROVE e \in E(i - 1) \/ (e = P[i] /\ Kind(s[i]) = LF)
    <3>1. PICK j \in 1..n : e = P[j] /\ Kind(s[j]) = LF
      BY <1>3
    <3>2. e <= P[i] /\ e \in LineEnds(t) /\ j \in 0..n
      BY <1>0
    <3>3. CASE i < j
      <4>1. P[i] < P[j] /\ P[j] \in Nat
        BY <1>1, <1>4, <2>1, <3>2, <3>3
      <4> QED
        BY <2>1, <3>1, <3>2, <4>1
    <3>4. CASE i = j
      BY <3>1, <3>4
    <3>5. CASE j < i
      <4>1. j <= i - 1
        BY <1>0, <3>5
      <4>2. P[j] <= P[i - 1]
        BY <1>0, <1>1, <2>1, <3>2, <4>1, ClimbsToTheTop
      <4> QED
        BY <3>1, <3>2, <4>2
    <3> QED
      BY <1>0, <3>3, <3>4, <3>5
  <2>5. Kind(s[i]) = LF => P[i] \in E(i)
    <3>1. Kind(s[i]) = LF => P[i] \in LineEnds(t)
      BY <1>3
    <3> QED
      BY <2>1, <3>1
  <2> HIDE DEF E
  <2>6. Kind(s[i]) = LF => E(i) = E(i - 1) \cup {P[i]}
    BY <2>2, <2>4, <2>5
  <2>7. Kind(s[i]) # LF => E(i) = E(i - 1)
    BY <2>2, <2>4
  <2> QED
    BY <2>3, <2>6, <2>7
<1> HIDE DEF E
<1>11. ASSUME NEW i \in 1..n
       PROVE  IF Kind(s[i]) = LF THEN Lf(i) = Lf(i - 1) + 1 ELSE Lf(i) = Lf(i - 1)
  <2>0. i - 1 \in 0..n
    BY <1>0
  <2>1. CASE Kind(s[i]) = LF
    <3>1. IsFiniteSet(E(i - 1)) /\ Lf(i - 1) \in Nat
      BY <1>7, <2>0
    <3>2. Cardinality(E(i - 1) \cup {P[i]}) = Cardinality(E(i - 1)) + 1
      BY <1>10, <2>1, <3>1, FS_AddElement
    <3> QED
      BY <1>10, <2>1, <3>2
  <2>2. CASE Kind(s[i]) # LF
    BY <1>10, <2>2
  <2> QED
    BY <2>1, <2>2
<1>12. ASSUME NEW i \in 1..n
       PROVE  start(i) = IF Kind(s[i]) = LF THEN P[i] ELSE start(i - 1)
  <2>1. CASE Kind(s[i]) = LF
    <3>1. P[i] \in E(i) /\ P[i] \in Nat /\ E(i) \subseteq 0..P[i] /\ i \in 0..n
      BY <1>0, <1>4, <1>6, <1>10, <2>1
    <3>2. E(i) # {}
      BY <3>1
    <3> DEFINE m == Max(E(i))
    <3>3. m \in E(i) /\ P[i] <= m
      BY <3>1, <3>2, MaxIs
    <3> HIDE DEF m
    <3>4. m = P[i]
      BY <3>1, <3>3
    <3> QED
      BY <2>1, <3>2, <3>4 DEF m
  <2>2. CASE Kind(s[i]) # LF
    BY <1>10, <2>2
  <2> QED
    BY <2>1, <2>2
<1> HIDE DEF start
<1>13. \A i \in 0..n : Uf(i) \in Nat
  <2> SUFFICES ASSUME NEW i \in 0..n PROVE Uf(i) \in Nat
    OBVIOUS
  <2> DEFINE a == start(i) + 1
             b == P[i]
  <2>1. a \in Nat \ {0} /\ b \in 0..Len(t)
    BY <1>4, <1>8
  <2> HIDE DEF a, b
  <2>2. SumOf(t, a..b) \in Nat
    BY <1>0, <2>1, SumOfIs
  <2> QED
    BY <2>2 DEF a, b
<1>14. ASSUME NEW i \in 1..n
       PROVE  IF Kind(s[i]) = LF THEN Uf(i) = 0 ELSE Uf(i) = Uf(i - 1) + Units(Kind(s[i]))
  <2> DEFINE a == start(i) + 1
             b == P[i]
             j == i - 1
  <2>1. i \in 0..n /\ j \in 0..n
    BY <1>0
  <2>2. a \in Nat \ {0} /\ b \in 0..Len(t) /\ start(j) <= P[j] /\ P[j] \in Nat /\ start(j) \in Nat
    BY <1>4, <1>8, <2>1
  <2>3. /\ a > b => SumOf(t, a..b) = 0
        /\ a <= b => SumOf(t, a..b) = SumOf(t, a..(b - 1)) + Units(t[b])
    <3> HIDE DEF a, b
    <3> QED
      BY <1>0, <2>2, SumOfIs
  <2>4. CASE Kind(s[i]) = LF
    <3>1. a > b
      BY <1>12, <2>2, <2>4
    <3> QED
      BY <2>3, <2>4, <3>1
  <2>5. CASE Kind(s[i]) # LF
    <3>1. b = P[j] + 1 /\ a = start(j) + 1 /\ t[b] = Kind(s[i])
      BY <1>2, <1>12, <2>5
    <3>2. a <= b /\ b - 1 = P[j]
      BY <2>2, <3>1
    <3>3. SumOf(t, a..b) = SumOf(t, a..(b - 1)) + Units(t[b])
      BY <2>3, <3>2
    <3>4. SumOf(t, a..(b - 1)) = SumOf(t, (start(j) + 1)..P[j])
      BY <3>1, <3>2
    <3>5. Uf(i) = SumOf(t, a..b) /\ Uf(j) = SumOf(t, (start(j) + 1)..P[j])
      OBVIOUS
    <3> HIDE DEF Uf, a, b
    <3> QED
      BY <2>5, <3>1, <3>3, <3>4, <3>5
  <2> QED
    BY <2>4, <2>5
<1>15. Lf(0) = 0
  BY <1>9, FS_EmptySet
<1>16. Uf(0) = 0
  <2> DEFINE a == start(0) + 1
             b == P[0]
  <2>1. a \in Nat \ {0} /\ b \in 0..Len(t) /\ a > b
    BY <1>0, <1>1, <1>4, <1>8
  <2> HIDE DEF a, b
  <2>2. SumOf(t, a..b) = 0
    BY <1>0, <2>1, SumOfIs
  <2> QED
    BY <2>2 DEF a, b
<1> HIDE DEF Lf, Uf
<1>17. /\ L \in [0..n -> Nat] /\ U \in [0..n -> Nat]
       /\ \A i \in 0..n : L[i] = Lf(i) /\ U[i] = Uf(i)
  BY <1>7, <1>13
<1> HIDE DEF L, U
<1>18. \A i \in 1..n : i - 1 \in 0..n /\ i \in 0..n
  BY <1>0
<1>19. L[0] = 0 /\ U[0] = 0
  BY <1>0, <1>15, <1>16, <1>17
<1>20. Counts(s, L, U)
  <2>1. \A i \in 1..n :
         IF Kind(s[i]) = LF THEN L[i] = L[i - 1] + 1 /\ U[i] = 0
         ELSE L[i] = L[i - 1] /\ U[i] = U[i - 1] + Units(Kind(s[i]))
    BY <1>11, <1>14, <1>17, <1>18
  <2> QED
    BY <1>17, <1>19, <2>1 DEF Counts, n
<1>21. \A i \in 0..n : Position(t, P[i]).line = L[i] /\ Position(t, P[i]).character = U[i]
  BY <1>5, <1>17
<1> QED
  BY <1>20, <1>21 DEF n, t

-----------------------------------------------------------------------------

(* What the scans see from the place before a cell.                        *)
Seen(doc, a, b, c) ==
  /\ c = LF => AtBreak(doc, a) /\ Past(doc, a) = b
  /\ c # LF => /\ \A o \in a..(b - 1) : ~AtBreak(doc, o) /\ Past(doc, o) = o + 1
               /\ CharacterCount(doc, a) = [count |-> Units(c), size |-> b - a]
               /\ b - a = Width[c] /\ doc[a + 1] = <<c, 1>>

(* At a place in the bytes of cells is the next cell.                      *)
LEMMA CellScan ==
  ASSUME NEW s \in Seq(Cell), NEW Q, Places(BytesOf(s), Q), NEW i \in 1..Len(s)
  PROVE  /\ Q[i - 1] \in Nat /\ Q[i] \in Nat /\ Q[i - 1] < Q[i] /\ Q[i] <= Len(RawOf(s))
         /\ Seen(RawOf(s), Q[i - 1], Q[i], Kind(s[i]))
         /\ Q[i] = Q[i - 1] + Len(Bytes(s[i]))
         /\ \A k \in 1..Len(Bytes(s[i])) : RawOf(s)[Q[i - 1] + k] = Bytes(s[i])[k]
<1> DEFINE n == Len(s)
           doc == RawOf(s)
           a == Q[i - 1]
           b == Q[i]
           x == s[i]
           y == Bytes(x)
           d == Len(y)
           c == Kind(x)
<1>1. n \in Nat /\ x \in Cell /\ doc \in Seq(Byte) /\ Len(doc) \in Nat
      /\ Len(BytesOf(s)) = n /\ BytesOf(s)[i] = y
  <2>1. n \in Nat /\ x \in Cell
    OBVIOUS
  <2>2. Len(BytesOf(s)) = n
    BY MapsAre
  <2>3. BytesOf(s)[i] = y
    BY DEF BytesOf
  <2>4. doc \in Seq(Byte)
    BY MapsAre
  <2> HIDE DEF doc, y
  <2> QED
    BY <2>1, <2>2, <2>3, <2>4
<1>2. y \in Seq(Byte) /\ d \in 1..4
  BY <1>1, CellBytes
<1>3. /\ Q \in [0..n -> Nat] /\ Len(doc) = Q[n]
      /\ \A k \in 1..n : Q[k] = Q[k - 1] + Len(BytesOf(s)[k]) /\ Len(BytesOf(s)[k]) \in Nat
      /\ \A k \in 1..d : doc[a + k] = y[k]
  BY <1>1 DEF Places, RawOf
<1>4. a \in Nat /\ b \in Nat /\ b = a + d /\ i \in 0..n /\ i - 1 \in 0..n
  <2>1. i \in 0..n /\ i - 1 \in 0..n
    BY <1>1
  <2> QED
    BY <1>1, <1>3, <2>1
<1>5. b <= Len(doc)
  <2>1. Climbs(Q, n)
    <3>1. \A k \in 1..n : Q[k - 1] \in Nat
      BY <1>1, <1>3
    <3>2. \A k \in 1..n : Q[k - 1] <= Q[k]
      <4> DEFINE w(k) == Len(BytesOf(s)[k])
      <4>1. \A k \in 1..n : Q[k] = Q[k - 1] + w(k) /\ w(k) \in Nat
        BY <1>3
      <4> HIDE DEF w, n
      <4> QED
        BY <3>1, <4>1
    <3> QED
      BY <1>3, <3>2 DEF Climbs
  <2>2. \A j, k \in 0..n : j <= k => Q[j] <= Q[k]
    BY <1>1, <2>1, ClimbsToTheTop
  <2> QED
    BY <1>1, <1>3, <1>4, <2>2
<1>6. /\ c \in Char \ {CR}
      /\ Len(x) = 1 => y = Shape(c)
      /\ Len(x) = 2 => c = LF /\ y = <<<<CR, 1>>, <<LF, 1>>>>
      /\ Len(x) \in 1..2
  BY <1>1, CellsAre
<1>7. /\ CR # LF /\ Width[CR] = 1 /\ Width[LF] = 1 /\ LF \in Char
      /\ Width[c] \in 1..4
  BY <1>6, WidthAssumption DEF Char
<1>8. \A e \in Char : Len(Shape(e)) = Width[e] /\ \A k \in 1..Width[e] : Shape(e)[k] = <<e, k>>
  <2> SUFFICES ASSUME NEW e \in Char
               PROVE  Len(Shape(e)) = Width[e] /\ \A k \in 1..Width[e] : Shape(e)[k] = <<e, k>>
    OBVIOUS
  <2>1. Width[e] \in Nat
    BY WidthAssumption DEF Char
  <2> QED
    BY <2>1 DEF Shape
<1> HIDE DEF n, doc, a, b, y, d, c, x
<1>9. \A o \in a..(b - 1) : o < Len(doc) /\ o \in Nat /\ o + 1 = a + (o + 1 - a) /\ o + 1 - a \in 1..d
  BY <1>1, <1>2, <1>4, <1>5
<1>10. \A o \in a..(b - 1) : \A e : Is(doc, o, e) <=> y[o + 1 - a] = <<e, 1>>
  <2> SUFFICES ASSUME NEW o \in a..(b - 1), NEW e PROVE Is(doc, o, e) <=> y[o + 1 - a] = <<e, 1>>
    OBVIOUS
  <2>1. doc[o + 1] = y[o + 1 - a] /\ o < Len(doc)
    BY <1>3, <1>9
  <2> QED
    BY <2>1 DEF Is
<1>11. ASSUME c # LF
       PROVE  /\ \A o \in a..(b - 1) : ~AtBreak(doc, o) /\ Past(doc, o) = o + 1
              /\ CharacterCount(doc, a) = [count |-> Units(c), size |-> b - a]
              /\ b - a = Width[c] /\ doc[a + 1] = <<c, 1>>
  <2>1. y = Shape(c) /\ d = Width[c] /\ \A k \in 1..d : y[k] = <<c, k>>
    BY <1>6, <1>8, <1>11 DEF d
  <2>2. \A o \in a..(b - 1) : ~Is(doc, o, CR) /\ ~Is(doc, o, LF)
    <3> SUFFICES ASSUME NEW o \in a..(b - 1) PROVE ~Is(doc, o, CR) /\ ~Is(doc, o, LF)
      OBVIOUS
    <3>1. y[o + 1 - a] = <<c, o + 1 - a>>
      BY <1>9, <2>1
    <3> QED
      BY <1>6, <1>10, <1>11, <3>1
  <2>3. doc[a + 1] = <<c, 1>>
    BY <1>2, <1>3, <2>1
  <2>4. b - a = d
    BY <1>2, <1>4
  <2>5. CharacterCount(doc, a) = [count |-> Units(c), size |-> b - a]
    BY <2>1, <2>3, <2>4 DEF CharacterCount
  <2> QED
    BY <2>1, <2>2, <2>3, <2>4, <2>5 DEF AtBreak, Past
<1>12. ASSUME c = LF PROVE AtBreak(doc, a) /\ Past(doc, a) = b
  <2>1. a \in a..(b - 1) /\ a + 1 - a = 1
    BY <1>2, <1>4
  <2>2. CASE Len(x) = 1
    <3>1. y = Shape(LF) /\ d = 1 /\ y[1] = <<LF, 1>>
      <4>1. y = Shape(LF)
        BY <1>6, <1>12, <2>2
      <4>2. Len(Shape(LF)) = 1 /\ \A k \in 1..1 : Shape(LF)[k] = <<LF, k>>
        BY <1>7, <1>8
      <4> QED
        BY <4>1, <4>2 DEF d
    <3>2. Is(doc, a, LF) /\ ~Is(doc, a, CR)
      <4>1. \A e : Is(doc, a, e) <=> y[1] = <<e, 1>>
        BY <1>10, <2>1
      <4> QED
        BY <1>7, <3>1, <4>1
    <3> QED
      BY <1>4, <3>1, <3>2 DEF AtBreak, Past
  <2>3. CASE Len(x) = 2
    <3>1. y = <<<<CR, 1>>, <<LF, 1>>>>
      BY <1>6, <2>3
    <3>2. d = 2 /\ y[1] = <<CR, 1>> /\ y[2] = <<LF, 1>>
      BY <3>1 DEF d
    <3>3. a + 1 \in a..(b - 1) /\ (a + 1) + 1 - a = 2 /\ b = a + 2
      BY <1>4, <3>2
    <3>4. Is(doc, a, CR) /\ Is(doc, a + 1, LF)
      <4>1. \A e : Is(doc, a, e) <=> y[1] = <<e, 1>>
        BY <1>10, <2>1
      <4>2. \A e : Is(doc, a + 1, e) <=> y[2] = <<e, 1>>
        BY <1>10, <3>3
      <4> QED
        BY <3>2, <4>1, <4>2
    <3> QED
      BY <3>3, <3>4 DEF AtBreak, Past
  <2> QED
    BY <1>6, <2>2, <2>3
<1>13. Seen(doc, a, b, c)
  BY <1>11, <1>12 DEF Seen
<1>14. a < b
  BY <1>2, <1>4
<1> QED
  BY <1>3, <1>4, <1>5, <1>13, <1>14 DEF doc, a, b, c, x, y, d

(* Every place between two characters, and not inside a line break, is     *)
(* before a cell or at the end.                                            *)
LEMMA PlacesOfCells ==
  ASSUME NEW s \in Seq(Cell), NEW Q, Places(BytesOf(s), Q)
  PROVE  /\ \A i \in 0..Len(s) : Q[i] \in 0..Len(RawOf(s))
         /\ \A i, j \in 0..Len(s) : i < j => Q[i] < Q[j]
         /\ Q[0] = 0 /\ Q[Len(s)] = Len(RawOf(s))
         /\ \A o : AtPlace(RawOf(s), o) => \E i \in 0..Len(s) : o = Q[i]
<1> DEFINE n == Len(s)
           doc == RawOf(s)
<1>1. n \in Nat /\ (\A i \in 1..n : s[i] \in Cell) /\ Len(BytesOf(s)) = n /\ Len(doc) \in Nat
  BY MapsAre
<1>2. Q \in [0..n -> Nat] /\ Q[0] = 0 /\ Q[n] = Len(doc)
  BY <1>1 DEF Places, RawOf
<1>3. \A i \in 1..n : /\ Q[i - 1] < Q[i] /\ Q[i] = Q[i - 1] + Len(Bytes(s[i]))
                      /\ \A k \in 1..Len(Bytes(s[i])) : doc[Q[i - 1] + k] = Bytes(s[i])[k]
  BY CellScan
<1> HIDE DEF doc, n
<1>a. \A i \in 1..n : i \in 0..n /\ i - 1 \in 0..n
  BY <1>1
<1>4. Climbs(Q, n)
  <2>1. \A i \in 1..n : Q[i - 1] < Q[i]
    BY <1>3
  <2>2. \A i \in 1..n : Q[i - 1] <= Q[i]
    BY <1>2, <1>a, <2>1
  <2> QED
    BY <1>2, <2>2 DEF Climbs
<1>5. \A j, k \in 0..n : j <= k => Q[j] <= Q[k]
  BY <1>1, <1>4, ClimbsToTheTop
<1>6. \A i, j \in 0..n : i < j => Q[i] < Q[j]
  <2> SUFFICES ASSUME NEW i \in 0..n, NEW j \in 0..n, i < j PROVE Q[i] < Q[j]
    OBVIOUS
  <2>1. j \in 1..n /\ i <= j - 1 /\ j - 1 \in 0..n
    BY <1>1
  <2>2. Q[i] <= Q[j - 1] /\ Q[j - 1] < Q[j]
    BY <1>3, <1>5, <2>1
  <2> QED
    BY <1>2, <2>1, <2>2
<1>7. \A i \in 0..n : Q[i] \in 0..Len(doc)
  <2>1. n \in 0..n /\ \A i \in 0..n : i <= n
    BY <1>1
  <2> QED
    BY <1>1, <1>2, <1>5, <2>1
<1> DEFINE Found(o) == \/ \E i \in 0..n : o = Q[i]
                       \/ \E i \in 1..n : Q[i - 1] < o /\ o < Q[i]
           T == {j \in Nat : j \in 0..n => \A o \in 0..Q[j] : Found(o)}
<1>8. 0 \in T
  <2>1. \A o \in 0..Q[0] : o = Q[0]
    BY <1>2
  <2> QED
    BY <1>1, <2>1
<1>9. ASSUME NEW j \in Nat, j \in T PROVE j + 1 \in T
  <2> SUFFICES ASSUME NEW i \in 1..n, i = j + 1, NEW o \in 0..Q[i] PROVE Found(o)
    OBVIOUS
  <2>1. j = i - 1 /\ j \in 0..n /\ i \in 0..n
    BY <1>1
  <2>2. Q[j] \in Nat /\ Q[i] \in Nat
    BY <1>2, <2>1
  <2>3. CASE o <= Q[j]
    <3>1. \A h \in 0..Q[j] : Found(h)
      BY <1>9, <2>1
    <3>2. o \in 0..Q[j]
      BY <2>2, <2>3
    <3> HIDE DEF Found
    <3> QED
      BY <3>1, <3>2
  <2>4. CASE ~(o <= Q[j])
    <3>1. o = Q[i] \/ (Q[i - 1] < o /\ o < Q[i])
      BY <2>1, <2>2, <2>4
    <3> QED
      BY <2>1, <3>1
  <2> QED
    BY <2>3, <2>4
<1>10. \A j \in Nat : j \in T
  <2> HIDE DEF T
  <2> QED
    BY <1>8, <1>9, InductionOnNat
<1>11. \A o \in 0..Len(doc) : Found(o)
  BY <1>1, <1>2, <1>10, SMTT(30)
<1>12. ASSUME NEW o, AtPlace(doc, o), NEW i \in 1..n, Q[i - 1] < o, o < Q[i] PROVE FALSE
  <2> DEFINE x == s[i]
             y == Bytes(x)
             d == Len(y)
             a == Q[i - 1]
             k == (o - a) + 1
  <2>1. /\ x \in Cell /\ d \in 1..4 /\ a \in Nat /\ Q[i] = a + d /\ Q[i] \in 0..Len(doc)
        /\ \A h \in 1..d : doc[a + h] = y[h]
    <3>1. x \in Cell
      BY <1>1
    <3>2. d \in 1..4
      BY <3>1, CellBytes
    <3> QED
      BY <1>2, <1>3, <1>7, <1>a, <3>1, <3>2
  <2>2. o \in Nat /\ o < Len(doc) /\ doc[o + 1][2] = 1
        /\ (o \in 1..(Len(doc) - 1) => ~(Is(doc, o - 1, CR) /\ Is(doc, o, LF)))
    <3>1. Cut(doc, o) /\ (o \in 1..(Len(doc) - 1) => ~(Is(doc, o - 1, CR) /\ Is(doc, o, LF)))
      BY <1>12 DEF AtPlace
    <3>2. o \in 0..Len(doc) /\ (o < Len(doc) => doc[o + 1][2] = 1)
      BY <3>1 DEF Cut
    <3> QED
      BY <1>1, <1>12, <2>1, <3>1, <3>2
  <2>a. a < o /\ o < Q[i]
    BY <1>12
  <2> HIDE DEF y, d, a
  <2>3. k \in 2..d /\ a + k = o + 1 /\ k - 1 \in 1..d /\ a + (k - 1) = o
    <3>1. a \in Nat /\ o \in Nat /\ d \in Nat /\ a < o /\ o < a + d
      BY <2>1, <2>2, <2>a
    <3> QED
      BY <3>1
  <2> HIDE DEF k
  <2>4. doc[o + 1] = y[k] /\ doc[o] = y[k - 1]
    <3> DEFINE j == k - 1
    <3>1. k \in 1..d
      BY <2>1, <2>3
    <3>2. j \in 1..d /\ a + j = o
      BY <2>3
    <3> HIDE DEF j
    <3>3. doc[a + k] = y[k] /\ doc[a + j] = y[j]
      BY <2>1, <3>1, <3>2
    <3>4. a + k = o + 1
      BY <2>3
    <3> QED
      BY <3>2, <3>3, <3>4 DEF j
  <2>5. /\ Kind(x) \in Char
        /\ Len(x) = 1 => y = Shape(Kind(x))
        /\ Len(x) = 2 => y = <<<<CR, 1>>, <<LF, 1>>>>
        /\ Len(x) \in 1..2
    BY <2>1, CellsAre DEF y
  <2>6. CASE Len(x) = 1
    <3> DEFINE c == Kind(x)
    <3>1. Width[c] \in Nat
      BY <2>5, WidthAssumption DEF Char
    <3>2. y = [h \in 1..Width[c] |-> <<c, h>>]
      BY <2>5, <2>6 DEF Shape
    <3> HIDE DEF c
    <3>3. d = Width[c]
      BY <3>1, <3>2 DEF d
    <3>4. y[k] = <<c, k>>
      BY <2>3, <3>2, <3>3
    <3> QED
      BY <2>2, <2>3, <2>4, <3>4
  <2>7. CASE Len(x) = 2
    <3>1. y = <<<<CR, 1>>, <<LF, 1>>>>
      BY <2>5, <2>7
    <3>2. d = 2 /\ y[1] = <<CR, 1>> /\ y[2] = <<LF, 1>>
      BY <3>1 DEF d
    <3>3. k = 2
      BY <2>3, <3>2
    <3>4. doc[o + 1] = <<LF, 1>> /\ doc[(o - 1) + 1] = <<CR, 1>>
      BY <2>2, <2>3, <2>4, <3>2, <3>3
    <3>5. o \in 1..(Len(doc) - 1) /\ o - 1 < Len(doc)
      BY <1>1, <1>12, <2>1, <2>2, SMTT(30) DEF a
    <3> QED
      BY <2>2, <3>4, <3>5 DEF Is
  <2> QED
    BY <2>5, <2>6, <2>7
<1>13. \A o : AtPlace(doc, o) => \E i \in 0..n : o = Q[i]
  <2>1. \A o : AtPlace(doc, o) => o \in 0..Len(doc)
    BY DEF AtPlace, Cut
  <2> QED
    BY <1>11, <1>12, <2>1
<1> QED
  BY <1>2, <1>6, <1>7, <1>13 DEF n, doc

-----------------------------------------------------------------------------

(* Two places of one line: more units before the later one, and no line    *)
(* break between them.                                                     *)
OneLine(s, U, i, j) == U[i] < U[j] /\ \A k \in (i + 1)..j : Kind(s[k]) # LF

(* Lines are counted up, and units within a line.                          *)
LEMMA CountsClimb ==
  ASSUME NEW s \in Seq(Cell), NEW L, NEW U, Counts(s, L, U)
  PROVE  /\ Climbs(L, Len(s)) /\ \A i, j \in 0..Len(s) : i <= j => L[i] <= L[j]
         /\ \A i, j \in 0..Len(s) : i < j /\ L[i] = L[j] => OneLine(s, U, i, j)
<1> DEFINE n == Len(s)
           K(i) == Kind(s[i])
           w(i) == Units(K(i))
<1>1. n \in Nat /\ L \in [0..n -> Nat] /\ U \in [0..n -> Nat]
  BY DEF Counts
<1>2. \A i \in 1..n : IF K(i) = LF THEN L[i] = L[i - 1] + 1 /\ U[i] = 0
                      ELSE L[i] = L[i - 1] /\ U[i] = U[i - 1] + w(i)
  BY DEF Counts
<1>3. \A i \in 1..n : w(i) \in 1..2
  BY DEF Units
<1>4. \A i \in 1..n : i - 1 \in 0..n /\ i \in 0..n /\ L[i] \in Nat /\ L[i - 1] \in Nat
                      /\ U[i] \in Nat /\ U[i - 1] \in Nat
  BY <1>1
<1> HIDE DEF n, K, w
<1>5. \A i \in 1..n : L[i - 1] <= L[i]
  BY <1>2, <1>4
<1>6. Climbs(L, n)
  BY <1>1, <1>5 DEF Climbs
<1>7. \A i, j \in 0..n : i <= j => L[i] <= L[j]
  BY <1>1, <1>6, ClimbsToTheTop
<1>8. ASSUME NEW i \in 0..n, NEW j \in 0..n, L[i] = L[j], NEW k \in (i + 1)..j PROVE K(k) # LF
  <2>1. k \in 1..n /\ i <= k - 1 /\ k <= j /\ k - 1 \in 0..n /\ k \in 0..n
    BY <1>1
  <2>2. L[i] <= L[k - 1] /\ L[k] <= L[j]
    BY <1>7, <2>1
  <2>3. K(k) = LF => L[k] = L[k - 1] + 1
    BY <1>2, <2>1
  <2> QED
    BY <1>4, <1>8, <2>1, <2>2, <2>3
<1>9. ASSUME NEW i \in 0..n, NEW j \in 0..n, i < j, L[i] = L[j] PROVE U[i] < U[j]
  <2> DEFINE T == {d \in Nat : i + d <= j => U[i] + d <= U[i + d]}
  <2>1. 0 \in T
    <3>1. U[i] \in Nat /\ i + 0 = i
      BY <1>1
    <3> QED
      BY <3>1
  <2>2. ASSUME NEW d \in Nat, d \in T PROVE d + 1 \in T
    <3> SUFFICES ASSUME i + (d + 1) <= j PROVE U[i] + (d + 1) <= U[i + (d + 1)]
      OBVIOUS
    <3> DEFINE k == i + (d + 1)
    <3>1. k \in (i + 1)..j /\ k \in 1..n /\ k - 1 = i + d /\ i + d <= j
      BY <1>1
    <3>2. U[i] + d <= U[k - 1] /\ U[i] \in Nat
      BY <1>1, <2>2, <3>1
    <3>3. K(k) # LF
      BY <1>8, <1>9, <3>1
    <3>4. U[k] = U[k - 1] + w(k) /\ w(k) \in 1..2 /\ U[k - 1] \in Nat
      BY <1>2, <1>3, <1>4, <3>1, <3>3
    <3> HIDE DEF k
    <3>5. U[i] + (d + 1) <= U[k]
      BY <3>2, <3>4
    <3> QED
      BY <3>5 DEF k
  <2>3. \A d \in Nat : d \in T
    <3> HIDE DEF T
    <3> QED
      BY <2>1, <2>2, InductionOnNat
  <2> DEFINE d == j - i
  <2>4. d \in Nat /\ i + d = j /\ d > 0
    BY <1>1, <1>9
  <2>5. U[i] + d <= U[i + d]
    BY <2>3, <2>4
  <2>6. U[i] \in Nat /\ U[j] \in Nat
    BY <1>1
  <2> HIDE DEF d
  <2> QED
    BY <2>4, <2>5, <2>6
<1>10. \A i, j \in 0..n : i < j /\ L[i] = L[j] => OneLine(s, U, i, j)
  BY <1>8, <1>9 DEF OneLine, K
<1> QED
  BY <1>6, <1>7, <1>10 DEF n

(* From a to b no line breaks, and Past takes the bytes one by one.        *)
Smooth(doc, a, b) == \A o \in a..(b - 1) : ~AtBreak(doc, o) /\ Past(doc, o) = o + 1

(* Skipping bytes that break no line keeps the line.                       *)
LEMMA SkipOver ==
  ASSUME NEW doc, Len(doc) \in Nat, NEW line \in Nat, NEW f, Skips(doc, line, f),
         NEW a \in Nat, NEW b \in Nat, a <= b, b <= Len(doc),
         Smooth(doc, a, b),
         NEW l \in Nat, l < line
  PROVE  f[<<a, l>>] = f[<<b, l>>]
<1> DEFINE n == Len(doc)
           T == {d \in Nat : a + d <= b => f[<<a, l>>] = f[<<a + d, l>>]}
<1>1. 0 \in T
  OBVIOUS
<1>2. ASSUME NEW d \in Nat, d \in T PROVE d + 1 \in T
  <2> SUFFICES ASSUME a + (d + 1) <= b PROVE f[<<a, l>>] = f[<<a + (d + 1), l>>]
    OBVIOUS
  <2> DEFINE o == a + d
             at == <<o, l>>
  <2>1. o \in a..(b - 1) /\ o + 1 = a + (d + 1) /\ o \in 0..n /\ o # n /\ l \in 0..line /\ l # line
    OBVIOUS
  <2>2. ~AtBreak(doc, o) /\ Past(doc, o) = o + 1
    BY <2>1 DEF Smooth
  <2> HIDE DEF o
  <2>3. at \in (0..n) \X (0..line) /\ at[1] = o /\ at[2] = l
    BY <2>1
  <2>4. f[at] = SkipFrom(doc, line, f, at)
    <3> HIDE DEF at
    <3> QED
      BY <2>3 DEF Skips
  <2> HIDE DEF at
  <2>5. f[at] = f[<<o + 1, l>>]
    BY <2>1, <2>2, <2>3, <2>4 DEF SkipFrom
  <2>6. f[<<a, l>>] = f[at]
    BY <1>2, <2>1 DEF o, at
  <2> QED
    BY <2>1, <2>5, <2>6
<1>3. \A d \in Nat : d \in T
  <2> HIDE DEF T
  <2> QED
    BY <1>1, <1>2, InductionOnNat
<1> DEFINE d == b - a
<1>4. d \in Nat /\ a + d = b
  OBVIOUS
<1>5. a + d <= b => f[<<a, l>>] = f[<<a + d, l>>]
  BY <1>3, <1>4
<1> HIDE DEF d
<1> QED
  BY <1>4, <1>5

(* A line starts at the first of its places.                               *)
FirstOfLine(s, L, U, j, b) ==
  /\ b \in 0..j /\ L[b] = L[j] /\ U[b] = 0
  /\ \A i \in 0..Len(s) : L[i] = L[j] => b <= i
  /\ \A i \in 0..Len(s) : i < b => L[i] < L[j]

(* Every line has such a place.                                            *)
LEMMA LineHasFirst ==
  ASSUME NEW s \in Seq(Cell), NEW L, NEW U, Counts(s, L, U), NEW j \in 0..Len(s)
  PROVE  \E b : FirstOfLine(s, L, U, j, b)
<1> DEFINE n == Len(s)
           S == {i \in 0..n : L[i] = L[j]}
           b == Min(S)
<1>1. n \in Nat /\ L \in [0..n -> Nat] /\ U \in [0..n -> Nat]
  BY DEF Counts
<1>2. \A i, k \in 0..n : i <= k => L[i] <= L[k]
  BY CountsClimb
<1>3. L[0] = 0 /\ U[0] = 0 /\ \A i \in 1..n : Kind(s[i]) = LF => U[i] = 0
  BY DEF Counts
<1>4. \A i \in 1..n : Kind(s[i]) # LF => L[i] = L[i - 1]
  BY DEF Counts
<1> HIDE DEF n
<1>5. S \subseteq Nat /\ j \in S /\ S \subseteq 0..n
  BY <1>1 DEF n
<1>6. b \in S /\ \A y \in S : b <= y
  <2> HIDE DEF S
  <2> QED
    BY <1>5, MinIs
<1> HIDE DEF b
<1>7. b \in 0..j /\ b \in 0..n /\ L[b] = L[j]
  BY <1>1, <1>5, <1>6
<1>8. \A i \in 0..n : L[i] = L[j] => b <= i
  BY <1>6
<1>9. ASSUME NEW i \in 0..n, i < b PROVE L[i] < L[j]
  <2>1. L[i] # L[j]
    BY <1>1, <1>7, <1>8, <1>9
  <2>2. L[i] <= L[b]
    BY <1>1, <1>2, <1>7, <1>9
  <2> QED
    BY <1>1, <1>7, <2>1, <2>2
<1>10. U[b] = 0
  <2>1. CASE b = 0
    BY <1>3, <2>1
  <2>2. CASE b # 0
    <3>1. b \in 1..n /\ b - 1 \in 0..n /\ b - 1 < b
      BY <1>1, <1>7, <2>2
    <3>2. L[b - 1] # L[b]
      BY <1>1, <1>7, <1>9, <3>1
    <3> QED
      BY <1>3, <1>4, <3>1, <3>2
  <2> QED
    BY <2>1, <2>2
<1> QED
  BY <1>7, <1>8, <1>9, <1>10 DEF FirstOfLine, n

(* LineStart finds it.                                                     *)
LEMMA LineStartAt ==
  ASSUME NEW s \in Seq(Cell), NEW Q, Places(BytesOf(s), Q),
         NEW L, NEW U, Counts(s, L, U), NEW j \in 0..Len(s), NEW b, FirstOfLine(s, L, U, j, b)
  PROVE  LineStart(RawOf(s), L[j]) = Q[b]
<1> DEFINE n == Len(s)
           doc == RawOf(s)
           line == L[j]
           K(i) == Kind(s[i])
<1>1. n \in Nat /\ L \in [0..n -> Nat] /\ L[0] = 0 /\ line \in Nat
  BY DEF Counts
<1>2. \A i \in 1..n : IF K(i) = LF THEN L[i] = L[i - 1] + 1 ELSE L[i] = L[i - 1]
  BY DEF Counts
<1>3. /\ \A i \in 0..n : Q[i] \in 0..Len(doc)
      /\ \A i, k \in 0..n : i < k => Q[i] < Q[k]
      /\ Q[0] = 0
  BY PlacesOfCells
<1>4. \A i \in 1..n : Seen(doc, Q[i - 1], Q[i], K(i))
  BY CellScan
<1>5. Len(doc) \in Nat
  BY MapsAre
<1>6. Whole(doc)
  <2>1. Encode(FlattenSeq(s)) = doc /\ FlattenSeq(s) \in Seq(Char)
    BY EncodeCells, MapsAre
  <2> QED
    BY <2>1, EncodeIsWhole
<1>7. b \in 0..n /\ L[b] = line /\ \A i \in 0..n : i < b => L[i] < line
  BY <1>1 DEF FirstOfLine
<1> HIDE DEF n, doc, line, K
<1>8. PICK f : Skips(doc, line, f) /\ LineStart(doc, line) = f[<<0, 0>>]
  BY <1>1, <1>6, SkipExists
<1>9. \A at \in (0..Len(doc)) \X (0..line) : f[at] = SkipFrom(doc, line, f, at)
  BY <1>8 DEF Skips
<1> DEFINE T == {i \in Nat : i <= b => f[<<0, 0>>] = f[<<Q[i], L[i]>>]}
<1>10. 0 \in T
  BY <1>1, <1>3
<1>11. ASSUME NEW i \in Nat, i \in T PROVE i + 1 \in T
  <2> SUFFICES ASSUME i + 1 <= b PROVE f[<<0, 0>>] = f[<<Q[i + 1], L[i + 1]>>]
    OBVIOUS
  <2> DEFINE k == i + 1
  <2>1. k \in 1..n /\ k - 1 = i /\ i \in 0..n /\ k \in 0..n /\ i < k /\ i < b
    BY <1>1, <1>7
  <2>2. f[<<0, 0>>] = f[<<Q[i], L[i]>>]
    <3>1. i <= b
      BY <1>1, <1>7, <2>1
    <3> QED
      BY <1>11, <3>1
  <2>3. L[i] < line /\ L[i] \in Nat /\ Q[i] \in Nat /\ Q[k] \in Nat /\ Q[i] < Q[k] /\ Q[k] <= Len(doc)
    <3>1. Q[i] \in 0..Len(doc) /\ Q[k] \in 0..Len(doc) /\ Q[i] < Q[k]
      BY <1>3, <2>1
    <3>2. L[i] < line /\ L[i] \in Nat
      BY <1>1, <1>7, <2>1
    <3> QED
      BY <1>5, <3>1, <3>2
  <2>4. Seen(doc, Q[i], Q[k], K(k))
    BY <1>4, <2>1
  <2>5. IF K(k) = LF THEN L[k] = L[i] + 1 ELSE L[k] = L[i]
    BY <1>2, <2>1
  <2> HIDE DEF k
  <2>6. CASE K(k) = LF
    <3> DEFINE at == <<Q[i], L[i]>>
    <3>1. AtBreak(doc, Q[i]) /\ Past(doc, Q[i]) = Q[k]
      BY <2>4, <2>6 DEF Seen
    <3>2. at \in (0..Len(doc)) \X (0..line) /\ at[1] = Q[i] /\ at[2] = L[i]
      BY <1>1, <1>5, <2>3, SMTT(30)
    <3>3. f[at] = SkipFrom(doc, line, f, at)
      <4> HIDE DEF at
      <4> QED
        BY <1>9, <3>2
    <3> HIDE DEF at
    <3>4. at[1] # Len(doc) /\ at[2] # line
      BY <1>1, <1>5, <2>3, <3>2
    <3>5. f[at] = f[<<Q[k], L[i] + 1>>]
      BY <3>1, <3>2, <3>3, <3>4 DEF SkipFrom
    <3> QED
      BY <2>2, <2>5, <2>6, <3>5 DEF at, k
  <2>7. CASE K(k) # LF
    <3>1. \A o \in Q[i]..(Q[k] - 1) : ~AtBreak(doc, o) /\ Past(doc, o) = o + 1
      BY <2>4, <2>7 DEF Seen
    <3>2. f[<<Q[i], L[i]>>] = f[<<Q[k], L[i]>>]
      <4> DEFINE a == Q[i]
                 z == Q[k]
                 l == L[i]
      <4>1. a \in Nat /\ z \in Nat /\ a <= z /\ z <= Len(doc) /\ l \in Nat /\ l < line
        BY <2>3
      <4>2. Smooth(doc, a, z) /\ Skips(doc, line, f)
        BY <1>8, <3>1 DEF Smooth
      <4> HIDE DEF a, z, l
      <4>3. f[<<a, l>>] = f[<<z, l>>]
        BY <1>1, <1>5, <4>1, <4>2, SkipOver
      <4> QED
        BY <4>3 DEF a, z, l
    <3> QED
      BY <2>2, <2>5, <2>7, <3>2 DEF k
  <2> QED
    BY <2>6, <2>7
<1>12. \A i \in Nat : i \in T
  <2> HIDE DEF T
  <2> QED
    BY <1>10, <1>11, InductionOnNat
<1>13. f[<<0, 0>>] = f[<<Q[b], L[b]>>]
  <2>1. b \in Nat /\ b <= b
    BY <1>1, <1>7
  <2> QED
    BY <1>12, <2>1
<1> DEFINE at == <<Q[b], line>>
<1>14. at \in (0..Len(doc)) \X (0..line) /\ at[1] = Q[b] /\ at[2] = line
  <2>1. Q[b] \in 0..Len(doc)
    BY <1>3, <1>7
  <2> QED
    BY <1>1, <2>1
<1>15. f[at] = SkipFrom(doc, line, f, at)
  <2> HIDE DEF at
  <2> QED
    BY <1>9, <1>14
<1> HIDE DEF at
<1>16. f[at] = Q[b]
  BY <1>14, <1>15 DEF SkipFrom
<1> QED
  BY <1>7, <1>8, <1>13, <1>16 DEF at, doc, line

(* GetOffset leads to the place with a line and a column.                  *)
LEMMA GetOffsetAt ==
  ASSUME NEW s \in Seq(Cell), NEW Q, Places(BytesOf(s), Q),
         NEW L, NEW U, Counts(s, L, U), NEW j \in 0..Len(s)
  PROVE  GetOffset(RawOf(s), L[j], U[j]) = Q[j]
<1> DEFINE n == Len(s)
           doc == RawOf(s)
           line == L[j]
           column == U[j]
           K(i) == Kind(s[i])
<1>1. n \in Nat /\ L \in [0..n -> Nat] /\ U \in [0..n -> Nat] /\ line \in Nat
  BY DEF Counts
<1>2. \A i \in 1..n : K(i) # LF => U[i] = U[i - 1] + Units(K(i))
  BY DEF Counts
<1>3. /\ \A i \in 0..n : Q[i] \in 0..Len(doc)
      /\ \A i, k \in 0..n : i < k => Q[i] < Q[k]
  BY PlacesOfCells
<1>4. \A i \in 1..n : Seen(doc, Q[i - 1], Q[i], K(i))
  BY CellScan
<1>5. Len(doc) \in Nat
  BY MapsAre
<1>6. Whole(doc)
  <2>1. Encode(FlattenSeq(s)) = doc /\ FlattenSeq(s) \in Seq(Char)
    BY EncodeCells, MapsAre
  <2> QED
    BY <2>1, EncodeIsWhole
<1>a. PICK b : FirstOfLine(s, L, U, j, b)
  BY LineHasFirst
<1>b. LineStart(doc, line) = Q[b]
  BY <1>a, LineStartAt
<1>7. b \in 0..j /\ j \in 0..n /\ b \in 0..n /\ L[b] = line /\ U[b] = 0
  BY <1>1, <1>a DEF FirstOfLine
<1>8. /\ \A i, k \in 0..n : i <= k => L[i] <= L[k]
      /\ \A i \in 0..n : i < j /\ L[i] = L[j] => U[i] < U[j] /\ \A k \in (i + 1)..j : K(k) # LF
  BY CountsClimb DEF OneLine
<1> HIDE DEF n, doc, line, column, K
<1>9. PICK f : /\ Walks(doc, column, f)
               /\ GetOffset(doc, line, column) = IF LineStart(doc, line) = NoOffset THEN NoOffset
                                                 ELSE f[<<LineStart(doc, line), 0>>]
  BY <1>1, <1>6, WalkExists
<1>10. \A at \in Nat \X Nat : f[at] = WalkFrom(doc, column, f, at)
  BY <1>9 DEF Walks
<1>11. Q[b] \in Nat /\ Q[j] \in Nat /\ Q[b] # NoOffset
  <2>1. Q[b] \in 0..Len(doc) /\ Q[j] \in 0..Len(doc)
    BY <1>3, <1>7
  <2> QED
    BY <1>5, <2>1 DEF NoOffset
<1>12. GetOffset(doc, line, column) = f[<<Q[b], 0>>]
  BY <1>9, <1>11, <1>b
<1> DEFINE T == {d \in Nat : b + d <= j => f[<<Q[b], 0>>] = f[<<Q[b + d], U[b + d]>>]}
<1>13. 0 \in T
  <2>1. b + 0 = b
    BY <1>1, <1>7
  <2> QED
    BY <1>7, <2>1
<1>14. ASSUME NEW d \in Nat, d \in T PROVE d + 1 \in T
  <2> SUFFICES ASSUME b + (d + 1) <= j PROVE f[<<Q[b], 0>>] = f[<<Q[b + (d + 1)], U[b + (d + 1)]>>]
    OBVIOUS
  <2> DEFINE i == b + d
             k == b + (d + 1)
  <2>1. k \in 1..n /\ k - 1 = i /\ i \in 0..n /\ k \in 0..n /\ i < k /\ i < j /\ b <= i /\ k \in (i + 1)..j
    BY <1>1, <1>7
  <2>2. f[<<Q[b], 0>>] = f[<<Q[i], U[i]>>]
    BY <1>14, <2>1
  <2> HIDE DEF i, k
  <2>3. L[i] = L[j]
    <3>1. L[b] <= L[i] /\ L[i] <= L[j]
      BY <1>1, <1>7, <1>8, <2>1
    <3> QED
      BY <1>1, <1>7, <2>1, <3>1 DEF line
  <2>4. U[i] < U[j] /\ K(k) # LF
    BY <1>8, <2>1, <2>3
  <2>5. Q[i] \in Nat /\ Q[i] < Q[k] /\ Q[k] <= Len(doc) /\ Q[k] \in Nat
        /\ U[i] \in Nat /\ U[j] \in Nat
    <3>1. Q[i] \in 0..Len(doc) /\ Q[k] \in 0..Len(doc) /\ Q[i] < Q[k]
      BY <1>3, <2>1
    <3>2. Q[i] \in Nat /\ Q[k] \in Nat /\ Q[k] <= Len(doc) /\ Q[i] < Q[k]
      BY <1>5, <3>1
    <3>3. U[i] \in Nat /\ U[j] \in Nat
      BY <1>1, <1>7, <2>1
    <3> QED
      BY <3>2, <3>3
  <2>6. Seen(doc, Q[i], Q[k], K(k))
    BY <1>4, <2>1
  <2>7. ~AtBreak(doc, Q[i]) /\ CharacterCount(doc, Q[i]) = [count |-> Units(K(k)), size |-> Q[k] - Q[i]]
    <3>1. Q[i] \in Q[i]..(Q[k] - 1)
      BY <2>5
    <3> QED
      BY <2>4, <2>6, <3>1 DEF Seen
  <2> DEFINE at == <<Q[i], U[i]>>
  <2>8. at \in Nat \X Nat /\ at[1] = Q[i] /\ at[2] = U[i]
    BY <2>5
  <2>9. f[at] = WalkFrom(doc, column, f, at)
    <3> HIDE DEF at
    <3> QED
      BY <1>10, <2>8
  <2> HIDE DEF at
  <2>10. ~(at[1] >= Len(doc)) /\ at[2] # column
    BY <1>5, <2>4, <2>5, <2>8 DEF column
  <2>11. f[at] = f[<<Q[i] + (Q[k] - Q[i]), U[i] + Units(K(k))>>]
    <3>1. CharacterCount(doc, Q[i]).size = Q[k] - Q[i] /\ CharacterCount(doc, Q[i]).count = Units(K(k))
      BY <2>7
    <3> QED
      BY <2>7, <2>8, <2>9, <2>10, <3>1 DEF WalkFrom
  <2>12. Q[i] + (Q[k] - Q[i]) = Q[k]
    BY <2>5
  <2>13. U[i] + Units(K(k)) = U[k]
    BY <1>2, <2>1, <2>4
  <2> QED
    BY <2>2, <2>11, <2>12, <2>13 DEF at, i, k
<1>15. \A d \in Nat : d \in T
  <2> HIDE DEF T
  <2> QED
    BY <1>13, <1>14, InductionOnNat
<1> DEFINE d == j - b
<1>16. d \in Nat /\ b + d = j /\ b + d <= j
  BY <1>1, <1>7
<1>17. f[<<Q[b], 0>>] = f[<<Q[b + d], U[b + d]>>]
  BY <1>15, <1>16
<1> HIDE DEF d
<1> DEFINE at == <<Q[j], U[j]>>
<1>18. at \in Nat \X Nat /\ at[1] = Q[j] /\ at[2] = U[j]
  BY <1>1, <1>7, <1>11
<1>19. f[at] = WalkFrom(doc, column, f, at)
  <2> HIDE DEF at
  <2> QED
    BY <1>10, <1>18
<1> HIDE DEF at
<1>20. f[at] = Q[j]
  BY <1>18, <1>19 DEF WalkFrom, column
<1>21. f[<<Q[b], 0>>] = f[at]
  BY <1>16, <1>17 DEF at
<1> QED
  BY <1>12, <1>20, <1>21 DEF doc, line, column

-----------------------------------------------------------------------------

(* What GetLC's recursive function says of itself.                         *)
CountFrom(doc, offset, f, at) ==
  IF at[1] < offset /\ at[1] < Len(doc)
  THEN IF AtBreak(doc, at[1]) THEN f[<<Past(doc, at[1]), at[2] + 1, 0>>]
                              ELSE f[<<at[1] + 1, at[2], at[3] + 1>>]
  ELSE IF at[1] = offset THEN <<at[2], at[3]>> ELSE NoPosition

CountsFrom(doc, offset, f) ==
  f = [at \in Nat \X Nat \X Nat |-> CountFrom(doc, offset, f, at)]

(* There is such a function, and GetLC is its value at the start.          *)
LEMMA CountExists ==
  ASSUME NEW doc, Whole(doc), NEW offset \in Nat
  PROVE  \E f : CountsFrom(doc, offset, f) /\ GetLC(doc, offset) = f[<<0, 0, 0>>]
<1> DEFINE n == Len(doc)
           D == Nat \X Nat \X Nat
           V == (Nat \X Nat) \cup {NoPosition}
           m == [at \in D |-> IF at[1] >= n THEN 0 ELSE n - at[1]]
           F == [g \in [D -> V] |-> [at \in D |-> CountFrom(doc, offset, g, at)]]
           on(at) == at[1] < offset /\ at[1] < n
           after(at) == IF AtBreak(doc, at[1]) THEN <<Past(doc, at[1]), at[2] + 1, 0>>
                        ELSE <<at[1] + 1, at[2], at[3] + 1>>
           f == CHOOSE g : CountsFrom(doc, offset, g)
<1>1. n \in Nat
  BY DEF Whole
<1>2. m \in [D -> Nat] /\ \A at \in D : m[at] = IF at[1] >= n THEN 0 ELSE n - at[1]
  BY <1>1
<1>3. \A at \in D : at[1] \in Nat /\ at[2] \in Nat /\ at[3] \in Nat
  OBVIOUS
<1>4. ASSUME NEW at \in D, on(at)
      PROVE  after(at) \in D /\ m[after(at)] < m[at]
  <2> DEFINE i == at[1]
             q == Past(doc, i)
  <2>1. i \in Nat /\ i < n /\ i \in 0..n /\ at[2] \in Nat /\ at[3] \in Nat
    BY <1>1, <1>3, <1>4
  <2>2. q \in Nat /\ q > i
    <3>1. q \in 0..n /\ q > i
      BY <2>1, PastIsPlace
    <3> QED
      BY <1>1, <3>1
  <2> HIDE DEF q
  <2>3. after(at) \in D /\ after(at)[1] > i /\ after(at)[1] \in Nat
    <3>1. CASE AtBreak(doc, i)
      <4>1. after(at) = <<q, at[2] + 1, 0>>
        BY <3>1 DEF q
      <4> QED
        BY <2>1, <2>2, <4>1
    <3>2. CASE ~AtBreak(doc, i)
      <4>1. after(at) = <<i + 1, at[2], at[3] + 1>>
        BY <3>2
      <4> QED
        BY <2>1, <4>1
    <3> QED
      BY <3>1, <3>2
  <2> HIDE DEF after
  <2>4. m[at] = n - i
    BY <1>1, <1>2, <2>1
  <2>5. m[after(at)] = IF after(at)[1] >= n THEN 0 ELSE n - after(at)[1]
    BY <1>2, <2>3
  <2> HIDE DEF m, i
  <2> QED
    BY <1>1, <2>1, <2>3, <2>4, <2>5
<1>5. \A g : \A at \in D :
        /\ on(at) => CountFrom(doc, offset, g, at) = g[after(at)]
        /\ ~on(at) => CountFrom(doc, offset, g, at) = IF at[1] = offset THEN <<at[2], at[3]>> ELSE NoPosition
  BY DEF CountFrom
<1>6. \A at \in D : (IF at[1] = offset THEN <<at[2], at[3]>> ELSE NoPosition) \in V
  BY <1>3
<1> HIDE DEF D, after, m, on, V
<1>7. \A g \in [D -> V] : \A at \in D : CountFrom(doc, offset, g, at) \in V
  BY <1>4, <1>5, <1>6
<1>8. F \in [[D -> V] -> [D -> V]]
      /\ \A g \in [D -> V] : \A at \in D : F[g][at] = CountFrom(doc, offset, g, at)
  BY <1>7
<1> HIDE DEF F
<1>9. \A g, h \in [D -> V] : \A x \in D :
        (\A y \in D : m[y] < m[x] => g[y] = h[y]) => F[g][x] = F[h][x]
  <2> SUFFICES ASSUME NEW g \in [D -> V], NEW h \in [D -> V], NEW x \in D,
                      \A y \in D : m[y] < m[x] => g[y] = h[y]
               PROVE  CountFrom(doc, offset, g, x) = CountFrom(doc, offset, h, x)
    BY <1>8
  <2>1. CASE on(x)
    BY <1>4, <1>5, <2>1
  <2>2. CASE ~on(x)
    BY <1>5, <2>2
  <2> QED
    BY <2>1, <2>2
<1>10. Descends(F, D, V, m)
  BY <1>2, <1>8, <1>9 DEF Descends
<1>11. Tells(F, D, V)
  <2>1. V # {}
    BY DEF V
  <2> QED
    BY <1>10, <2>1, RecursionHasFixpoint
<1>12. \E g : CountsFrom(doc, offset, g)
  <2>1. PICK g \in [D -> V] : g = F[g]
    BY <1>11 DEF Tells
  <2>2. \A at \in D : g[at] = CountFrom(doc, offset, g, at)
    BY <1>8, <2>1
  <2>3. g = [at \in D |-> CountFrom(doc, offset, g, at)]
    BY <2>2
  <2> QED
    BY <2>3 DEF CountsFrom, D
<1>13. CountsFrom(doc, offset, f)
  BY <1>12
<1>14. GetLC(doc, offset) = f[<<0, 0, 0>>]
  BY DEF GetLC, CountsFrom, CountFrom
<1> QED
  BY <1>13, <1>14

(* Counting bytes that break no line adds columns.                         *)
LEMMA CountOver ==
  ASSUME NEW doc, Len(doc) \in Nat, NEW offset \in Nat, NEW f, CountsFrom(doc, offset, f),
         NEW a \in Nat, NEW b \in Nat, a <= b, b <= Len(doc), b <= offset,
         Smooth(doc, a, b), NEW l \in Nat, NEW c \in Nat, NEW e, e = c + (b - a)
  PROVE  f[<<a, l, c>>] = f[<<b, l, e>>]
<1> DEFINE T == {d \in Nat : a + d <= b => f[<<a, l, c>>] = f[<<a + d, l, c + d>>]}
<1>1. 0 \in T
  <2>1. a + 0 = a /\ c + 0 = c
    OBVIOUS
  <2> QED
    BY <2>1
<1>2. ASSUME NEW d \in Nat, d \in T PROVE d + 1 \in T
  <2> SUFFICES ASSUME a + (d + 1) <= b
               PROVE  f[<<a, l, c>>] = f[<<a + (d + 1), l, c + (d + 1)>>]
    OBVIOUS
  <2> DEFINE o == a + d
             z == c + d
             at == <<o, l, z>>
  <2>1. /\ o \in a..(b - 1) /\ o + 1 = a + (d + 1) /\ o \in Nat /\ o < offset /\ o < Len(doc)
        /\ z \in Nat /\ z + 1 = c + (d + 1) /\ a + d <= b
    OBVIOUS
  <2>2. ~AtBreak(doc, o)
    BY <2>1 DEF Smooth
  <2>6. f[<<a, l, c>>] = f[at]
    BY <1>2, <2>1
  <2> HIDE DEF o, z
  <2>3. at \in Nat \X Nat \X Nat /\ at[1] = o /\ at[2] = l /\ at[3] = z
    BY <2>1
  <2> HIDE DEF at
  <2>4. f[at] = CountFrom(doc, offset, f, at)
    BY <2>3 DEF CountsFrom
  <2>5. f[at] = f[<<o + 1, l, z + 1>>]
    BY <2>1, <2>2, <2>3, <2>4 DEF CountFrom
  <2> QED
    BY <2>1, <2>5, <2>6
<1>3. \A d \in Nat : d \in T
  <2> HIDE DEF T
  <2> QED
    BY <1>1, <1>2, InductionOnNat
<1> DEFINE d == b - a
<1>4. d \in Nat /\ a + d = b /\ a + d <= b /\ c + d = e
  OBVIOUS
<1>5. f[<<a, l, c>>] = f[<<a + d, l, c + d>>]
  BY <1>3, <1>4
<1> HIDE DEF d
<1> QED
  BY <1>4, <1>5

-----------------------------------------------------------------------------

(* The characters of a line up to a place take one byte each.              *)
Flat(s, L, j) == \A k \in 1..j : L[k] = L[j] /\ Kind(s[k]) # LF => Width[Kind(s[k])] = 1

(* GetLC tells the line of a place, and on a flat line its column.         *)
LEMMA GetLCAt ==
  ASSUME NEW s \in Seq(Cell), NEW Q, Places(BytesOf(s), Q),
         NEW L, NEW U, Counts(s, L, U), NEW j \in 0..Len(s)
  PROVE  \E c \in Nat : GetLC(RawOf(s), Q[j]) = <<L[j], c>> /\ (Flat(s, L, j) => c = U[j])
<1> DEFINE n == Len(s)
           doc == RawOf(s)
           K(i) == Kind(s[i])
           offset == Q[j]
           flat(i) == Flat(s, L, i)
<1>1. n \in Nat /\ L \in [0..n -> Nat] /\ U \in [0..n -> Nat] /\ L[0] = 0 /\ U[0] = 0
  BY DEF Counts
<1>2. \A i \in 1..n : IF K(i) = LF THEN L[i] = L[i - 1] + 1 /\ U[i] = 0
                      ELSE L[i] = L[i - 1] /\ U[i] = U[i - 1] + Units(K(i))
  BY DEF Counts
<1>3. /\ \A i \in 0..n : Q[i] \in 0..Len(doc)
      /\ \A i, k \in 0..n : i < k => Q[i] < Q[k]
      /\ Q[0] = 0
  BY PlacesOfCells
<1>4. \A i \in 1..n : Seen(doc, Q[i - 1], Q[i], K(i))
  BY CellScan
<1>5. Len(doc) \in Nat
  BY MapsAre
<1>6. Whole(doc)
  <2>1. Encode(FlattenSeq(s)) = doc /\ FlattenSeq(s) \in Seq(Char)
    BY EncodeCells, MapsAre
  <2> QED
    BY <2>1, EncodeIsWhole
<1>7. ASSUME NEW k \in 1..n, K(k) # LF, flat(k)
      PROVE  Width[K(k)] = 1 /\ (L[k] = L[k - 1] => flat(k - 1))
  <2>1. \A h \in 1..k : L[h] = L[k] /\ K(h) # LF => Width[K(h)] = 1
    BY <1>7 DEF Flat
  <2>2. k \in 1..k /\ \A h \in 1..(k - 1) : h \in 1..k
    BY <1>1
  <2> QED
    BY <1>7, <2>1, <2>2 DEF Flat
<1>8. \A c : Width[c] = 1 => Units(c) = 1
  BY DEF Units
<1>9. j \in 0..n
  OBVIOUS
<1>10. offset \in Nat
  BY <1>3, <1>5
<1> HIDE DEF n, doc, offset, K, flat
<1>11. PICK f : CountsFrom(doc, offset, f) /\ GetLC(doc, offset) = f[<<0, 0, 0>>]
  BY <1>6, <1>10, CountExists
<1>12. \A at \in Nat \X Nat \X Nat : f[at] = CountFrom(doc, offset, f, at)
  BY <1>11 DEF CountsFrom
<1> DEFINE Reach(i) == \E c \in Nat : f[<<0, 0, 0>>] = f[<<Q[i], L[i], c>>] /\ (flat(i) => c = U[i])
           T == {i \in Nat : i <= j => Reach(i)}
<1>13. 0 \in T
  BY <1>1, <1>3
<1>14. ASSUME NEW i \in Nat, i \in T PROVE i + 1 \in T
  <2> SUFFICES ASSUME NEW k \in Nat, k = i + 1, k <= j PROVE Reach(k)
    OBVIOUS
  <2>1. k \in 1..n /\ k - 1 = i /\ i \in 0..n /\ k \in 0..n /\ i < k /\ i < j /\ i <= j
    BY <1>1, <1>9
  <2>2. PICK c \in Nat : f[<<0, 0, 0>>] = f[<<Q[i], L[i], c>>] /\ (flat(i) => c = U[i])
    BY <1>14, <2>1
  <2> HIDE DEF T
  <2> DEFINE a == Q[i]
             b == Q[k]
             l == L[i]
  <2>3. a \in Nat /\ b \in Nat /\ a < b /\ b <= Len(doc) /\ l \in Nat /\ U[i] \in Nat /\ b <= offset
    <3>1. a \in 0..Len(doc) /\ b \in 0..Len(doc) /\ a < b
      BY <1>3, <2>1
    <3>2. l \in Nat /\ U[i] \in Nat
      BY <1>1, <2>1
    <3>3. b <= offset
      <4>1. CASE k = j
        BY <1>10, <4>1 DEF offset
      <4>2. CASE k # j
        <5>1. k < j
          BY <1>1, <1>9, <2>1, <4>2
        <5>2. b < Q[j]
          BY <1>3, <1>9, <2>1, <5>1
        <5> QED
          BY <1>10, <3>1, <5>2 DEF offset
      <4> QED
        BY <4>1, <4>2
    <3> HIDE DEF a, b, l
    <3> QED
      BY <1>5, <3>1, <3>2, <3>3
  <2>4. Seen(doc, a, b, K(k))
    BY <1>4, <2>1
  <2>5. IF K(k) = LF THEN L[k] = l + 1 /\ U[k] = 0
        ELSE L[k] = l /\ U[k] = U[i] + Units(K(k))
    BY <1>2, <2>1
  <2>6. K(k) # LF /\ flat(k) => Width[K(k)] = 1 /\ (L[k] = l => flat(i))
    BY <1>7, <2>1
  <2>7. f[<<0, 0, 0>>] = f[<<a, l, c>>]
    BY <2>2
  <2>8. ASSUME NEW e \in Nat, f[<<0, 0, 0>>] = f[<<b, L[k], e>>], flat(k) => e = U[k]
        PROVE  Reach(k)
    BY <2>8
  <2> HIDE DEF a, b, l, Reach
  <2>9. CASE K(k) = LF
    <3> DEFINE at == <<a, l, c>>
    <3>1. AtBreak(doc, a) /\ Past(doc, a) = b
      BY <2>4, <2>9 DEF Seen
    <3>2. at \in Nat \X Nat \X Nat /\ at[1] = a /\ at[2] = l /\ at[3] = c
      BY <2>3
    <3> HIDE DEF at
    <3>3. f[at] = CountFrom(doc, offset, f, at)
      BY <1>12, <3>2
    <3>4. at[1] < offset /\ at[1] < Len(doc)
      BY <1>5, <1>10, <2>3, <3>2
    <3>5. f[at] = f[<<b, l + 1, 0>>]
      BY <3>1, <3>2, <3>3, <3>4 DEF CountFrom
    <3>6. f[<<0, 0, 0>>] = f[<<b, L[k], 0>>]
      BY <2>5, <2>7, <2>9, <3>5 DEF at
    <3>7. 0 \in Nat /\ (flat(k) => 0 = U[k])
      BY <2>5, <2>9
    <3> QED
      BY <2>8, <3>6, <3>7
  <2>10. CASE K(k) # LF
    <3> DEFINE e == c + (b - a)
    <3>1. Smooth(doc, a, b) /\ b - a = Width[K(k)]
      BY <2>4, <2>10 DEF Seen, Smooth
    <3>2. CountsFrom(doc, offset, f)
      BY <1>11
    <3>3. f[<<a, l, c>>] = f[<<b, l, e>>]
      <4>1. a <= b /\ a \in Nat /\ b \in Nat /\ b <= Len(doc) /\ b <= offset /\ l \in Nat
        BY <2>3
      <4>2. Smooth(doc, a, b)
        BY <3>1
      <4>3. e = c + (b - a)
        OBVIOUS
      <4> HIDE DEF e
      <4> QED
        BY <1>5, <1>10, <3>2, <4>1, <4>2, <4>3, CountOver
    <3>4. e \in Nat
      BY <2>3
    <3>5. flat(k) => e = U[k]
      <4> SUFFICES ASSUME flat(k) PROVE e = U[k]
        OBVIOUS
      <4>1. L[k] = l /\ U[k] = U[i] + Units(K(k)) /\ Width[K(k)] = 1
        BY <2>5, <2>6, <2>10
      <4>2. flat(i)
        BY <2>6, <2>10, <4>1
      <4>3. c = U[i] /\ Units(K(k)) = 1
        BY <1>8, <2>2, <4>1, <4>2
      <4> QED
        BY <2>3, <3>1, <4>1, <4>3
    <3>6. f[<<0, 0, 0>>] = f[<<b, L[k], e>>]
      BY <2>5, <2>7, <2>10, <3>3
    <3> HIDE DEF e
    <3> QED
      BY <2>8, <3>4, <3>5, <3>6
  <2> QED
    BY <2>9, <2>10
<1>15. \A i \in Nat : i \in T
  <2> HIDE DEF T
  <2> QED
    BY <1>13, <1>14, InductionOnNat
<1>16. Reach(j)
  <2>1. j \in Nat /\ j <= j
    BY <1>1, <1>9
  <2> QED
    BY <1>15, <2>1
<1>17. PICK c \in Nat : f[<<0, 0, 0>>] = f[<<offset, L[j], c>>] /\ (flat(j) => c = U[j])
  BY <1>16 DEF offset
<1> DEFINE at == <<offset, L[j], c>>
<1>18. at \in Nat \X Nat \X Nat /\ at[1] = offset /\ at[2] = L[j] /\ at[3] = c
  BY <1>1, <1>9, <1>10
<1>a. f[<<0, 0, 0>>] = f[at]
  BY <1>17
<1> HIDE DEF at, T, Reach
<1>19. f[at] = CountFrom(doc, offset, f, at)
  BY <1>12, <1>18
<1>20. f[at] = <<L[j], c>>
  <2>1. ~(at[1] < offset)
    BY <1>10, <1>18
  <2> QED
    BY <1>18, <1>19, <2>1 DEF CountFrom
<1>21. GetLC(doc, offset) = <<L[j], c>> /\ (flat(j) => c = U[j])
  BY <1>11, <1>17, <1>20, <1>a
<1> QED
  BY <1>21 DEF doc, offset, flat

(* Where GetLC leads from a place: back, as far as PositionsAgree says.    *)
LEMMA InvertsOnCells ==
  ASSUME NEW s \in Seq(Cell), raw = RawOf(s)
  PROVE  \A o \in 0..Len(raw) : OffsetIsBoundary(o) => GetLCInverts(o)
<1> SUFFICES ASSUME NEW o \in 0..Len(raw), OffsetIsBoundary(o) PROVE GetLCInverts(o)
  OBVIOUS
<1> DEFINE n == Len(s)
           doc == RawOf(s)
<1>1. PICK Q : Places(BytesOf(s), Q)
  BY MapsAre, FlattenPlaces
<1>2. \E L, U : Counts(s, L, U)
  <2>1. PICK P : Places(s, P)
    BY MapsAre, FlattenPlaces
  <2> QED
    BY <2>1, PositionsCount
<1>3. PICK L, U : Counts(s, L, U)
  BY <1>2
<1>4. n \in Nat /\ Len(doc) \in Nat /\ (\A i \in 1..n : s[i] \in Cell) /\ Whole(doc)
  <2>1. Encode(FlattenSeq(s)) = doc /\ FlattenSeq(s) \in Seq(Char)
    BY EncodeCells, MapsAre
  <2>2. Whole(doc)
    BY <2>1, EncodeIsWhole
  <2> QED
    BY <2>2, MapsAre
<1>5. AtPlace(doc, o)
  <2>1. o \in 0..Len(doc)
    OBVIOUS
  <2>2. o \in 1..(Len(doc) - 1) => doc[o + 1][2] = 1 /\ ~(Is(doc, o - 1, CR) /\ Is(doc, o, LF))
    BY DEF OffsetIsBoundary
  <2>3. ASSUME o = 0, o < Len(doc) PROVE doc[o + 1][2] = 1
    <3>1. Cut(doc, 0)
      BY <1>4, StartIsPlace DEF AtPlace
    <3> QED
      BY <2>3, <3>1 DEF Cut
  <2>4. o = 0 \/ o = Len(doc) \/ o \in 1..(Len(doc) - 1)
    BY <1>4, <2>1
  <2>5. o < Len(doc) => doc[o + 1][2] = 1
    BY <1>4, <2>1, <2>2, <2>3, <2>4
  <2> QED
    BY <2>1, <2>2, <2>5 DEF AtPlace, Cut
<1>6. PICK j \in 0..n : o = Q[j]
  BY <1>1, <1>5, PlacesOfCells
<1>7. PICK c \in Nat : GetLC(doc, o) = <<L[j], c>> /\ (Flat(s, L, j) => c = U[j])
  BY <1>1, <1>3, <1>6, GetLCAt
<1>8. PICK b : FirstOfLine(s, L, U, j, b)
  BY <1>3, LineHasFirst
<1>9. LineStart(doc, L[j]) = Q[b]
  BY <1>1, <1>3, <1>8, LineStartAt
<1>10. GetOffset(doc, L[j], U[j]) = o
  BY <1>1, <1>3, <1>6, GetOffsetAt
<1>11. b \in 0..n /\ \A i \in 0..n : L[i] = L[j] => b <= i
  BY <1>4, <1>8 DEF FirstOfLine
<1>12. /\ \A i \in 0..n : Q[i] \in 0..Len(doc)
       /\ \A i, k \in 0..n : i < k => Q[i] < Q[k]
  BY <1>1, PlacesOfCells
<1>13. \A k \in 1..n : Kind(s[k]) # LF => L[k] = L[k - 1]
  BY <1>3 DEF Counts
<1>14. \A k \in 1..n : /\ Q[k - 1] < Q[k]
                       /\ Kind(s[k]) # LF => doc[Q[k - 1] + 1] = <<Kind(s[k]), 1>>
  <2>1. \A k \in 1..n : Q[k - 1] < Q[k] /\ Seen(doc, Q[k - 1], Q[k], Kind(s[k]))
    BY <1>1, CellScan
  <2> HIDE DEF n, doc
  <2> QED
    BY <2>1 DEF Seen
<1> DEFINE plain == \A i \in (Q[b] + 1)..o : Width[doc[i][1]] = 1
<1>15. plain => Flat(s, L, j)
  <2> SUFFICES ASSUME plain, NEW k \in 1..j, L[k] = L[j], Kind(s[k]) # LF
               PROVE  Width[Kind(s[k])] = 1
    BY DEF Flat
  <2> DEFINE h == k - 1
  <2>1. k \in 1..n /\ h \in 0..n /\ k \in 0..n /\ k <= j /\ k - 1 = h
    BY <1>4
  <2>2. L[h] = L[j]
    BY <1>13, <2>1
  <2>3. b <= h
    BY <1>11, <2>1, <2>2
  <2>4. Q[h] < Q[k] /\ doc[Q[h] + 1] = <<Kind(s[k]), 1>>
    BY <1>14, <2>1
  <2> HIDE DEF h
  <2>5. Q[b] <= Q[h] /\ Q[k] <= o
    <3>1. Q[b] \in Int /\ Q[h] \in Int /\ Q[k] \in Int /\ o \in Int
      BY <1>4, <1>6, <1>11, <1>12, <2>1
    <3>2. CASE b = h
      <4>1. k = j \/ k < j
        BY <1>4, <2>1
      <4>2. k < j => Q[k] < o
        BY <1>6, <1>12, <2>1
      <4> QED
        BY <1>6, <3>1, <3>2, <4>1, <4>2
    <3>3. CASE b # h
      <4>1. b < h
        BY <1>4, <1>11, <2>1, <2>3, <3>3
      <4>2. Q[b] < Q[h]
        BY <1>11, <1>12, <2>1, <4>1
      <4>3. k = j \/ k < j
        BY <1>4, <2>1
      <4>4. k < j => Q[k] < o
        BY <1>6, <1>12, <2>1
      <4> QED
        BY <1>6, <3>1, <4>2, <4>3, <4>4
    <3> QED
      BY <3>2, <3>3
  <2>6. Q[h] + 1 \in (Q[b] + 1)..o
    <3>1. Q[b] \in 0..Len(doc) /\ Q[h] \in 0..Len(doc) /\ Q[k] \in 0..Len(doc) /\ o \in 0..Len(doc)
      BY <1>6, <1>11, <1>12, <2>1
    <3>2. Q[b] \in Int /\ Q[h] \in Int /\ Q[k] \in Int /\ o \in Int
      BY <1>4, <3>1
    <3> QED
      BY <2>4, <2>5, <3>2
  <2>7. Width[doc[Q[h] + 1][1]] = 1
    BY <2>6
  <2> QED
    BY <2>4, <2>7
<1>16. Q[b] # NoOffset
  BY <1>4, <1>11, <1>12 DEF NoOffset
<1> HIDE DEF plain
<1> DEFINE p == GetLC(raw, o)
<1>17. p = <<L[j], c>> /\ p[1] = L[j] /\ p[2] = c /\ p # NoPosition
  <2>1. p = <<L[j], c>>
    BY <1>7
  <2> HIDE DEF p
  <2> QED
    BY <2>1 DEF NoPosition
<1>18. plain => GetOffset(raw, p[1], p[2]) = o
  <2> HIDE DEF p
  <2> QED
    BY <1>7, <1>10, <1>15, <1>17
<1>19. LineStart(raw, p[1]) = Q[b]
  <2> HIDE DEF p
  <2> QED
    BY <1>9, <1>17
<1> QED
  BY <1>16, <1>17, <1>18, <1>19 DEF GetLCInverts, plain

-----------------------------------------------------------------------------

(* Bytes of cells; and those of a text, but for the CRs of line breaks.    *)
Celled(r) == \E u \in Seq(Cell) : r = RawOf(u)
Aligned(r, t) ==
  \E u, s \in Seq(Cell) : r = RawOf(u) /\ t = FlattenSeq(s) /\ Plain(u) = Plain(s)

(* Cells that differ in the CRs of line breaks only are counted alike.     *)
LEMMA SameCounts ==
  ASSUME NEW u \in Seq(Cell), NEW s \in Seq(Cell), Plain(u) = Plain(s),
         NEW L, NEW U, Counts(s, L, U)
  PROVE  Len(u) = Len(s) /\ Counts(u, L, U)
<1>1. Len(Plain(u)) = Len(u) /\ Len(Plain(s)) = Len(s)
  BY MapsAre
<1>2. Len(u) = Len(s)
  BY <1>1
<1>3. ASSUME NEW i \in 1..Len(s) PROVE Kind(u[i]) = Kind(s[i])
  <2>1. Plain(u)[i] = <<Kind(u[i])>> /\ Plain(s)[i] = <<Kind(s[i])>>
    BY <1>2 DEF Plain
  <2>2. <<Kind(u[i])>> = <<Kind(s[i])>>
    BY <2>1
  <2> QED
    BY <2>2
<1>4. Counts(u, L, U)
  BY <1>2, <1>3 DEF Counts
<1> QED
  BY <1>2, <1>4

(* The bytes of cells are whole.                                           *)
LEMMA CellsAreWhole == ASSUME NEW s \in Seq(Cell) PROVE Whole(RawOf(s))
<1>1. Encode(FlattenSeq(s)) = RawOf(s) /\ FlattenSeq(s) \in Seq(Char)
  BY EncodeCells, MapsAre
<1> QED
  BY <1>1, EncodeIsWhole

(* An edit leaves bytes of cells, whatever positions it names.             *)
LEMMA EditKeepsCells ==
  ASSUME NEW bytes, Celled(bytes), NEW c, IsChange(c), Paired(c.text)
  PROVE  Celled(Edit(bytes, c).raw)
<1> DEFINE from == GetOffset(bytes, c.start.line, c.start.character)
           to   == GetOffset(bytes, c.end.line, c.end.character)
<1>1. PICK u \in Seq(Cell) : bytes = RawOf(u)
  BY DEF Celled
<1>2. PICK p \in Seq(Cell) : c.text = FlattenSeq(p)
  BY PairedHasCells DEF IsChange
<1>3. Encode(c.text) = RawOf(p)
  BY <1>2, EncodeCells
<1>4. PICK Q : Places(BytesOf(u), Q)
  BY MapsAre, FlattenPlaces
<1>5. Whole(bytes)
  BY <1>1, CellsAreWhole
<1>6. (from = NoOffset \/ AtPlace(bytes, from)) /\ (to = NoOffset \/ AtPlace(bytes, to))
  BY <1>5, GetOffsetIs DEF IsChange, Named
<1>7. Edit(bytes, c) = IF from = NoOffset \/ to = NoOffset \/ to < from
                       THEN [done |-> FALSE, raw |-> bytes]
                       ELSE [done |-> TRUE, raw |-> Replace(bytes, from, to, Encode(c.text))]
  BY DEF Edit
<1> HIDE DEF from, to
<1>8. CASE from = NoOffset \/ to = NoOffset \/ to < from
  BY <1>7, <1>8
<1>9. CASE ~(from = NoOffset \/ to = NoOffset \/ to < from)
  <2>1. PICK a \in 0..Len(u) : from = Q[a]
    BY <1>1, <1>4, <1>6, <1>9, PlacesOfCells
  <2>2. PICK b \in 0..Len(u) : to = Q[b]
    BY <1>1, <1>4, <1>6, <1>9, PlacesOfCells
  <2>3. /\ Replace(u, a, b, p) \in Seq(Cell)
        /\ Replace(RawOf(u), Q[a], Q[b], RawOf(p)) = RawOf(Replace(u, a, b, p))
    BY <1>4, SpliceCells
  <2>4. Edit(bytes, c).raw = RawOf(Replace(u, a, b, p))
    BY <1>1, <1>3, <1>7, <1>9, <2>1, <2>2, <2>3
  <2> QED
    BY <2>3, <2>4 DEF Celled
<1> QED
  BY <1>8, <1>9

(* A position of the client's text is a place of the bytes.                *)
Found(u, s, P, Q, i) ==
  GetOffset(RawOf(u), Position(FlattenSeq(s), P[i]).line, Position(FlattenSeq(s), P[i]).character) = Q[i]

(* It is, when bytes and text have the same cells.                         *)
LEMMA PositionsLead ==
  ASSUME NEW u \in Seq(Cell), NEW s \in Seq(Cell), Plain(u) = Plain(s),
         NEW P, Places(s, P), NEW Q, Places(BytesOf(u), Q), NEW i \in 0..Len(s)
  PROVE  Len(u) = Len(s) /\ Found(u, s, P, Q, i)
<1>1. PICK L, U : /\ Counts(s, L, U)
                  /\ \A j \in 0..Len(s) : /\ Position(FlattenSeq(s), P[j]).line = L[j]
                                          /\ Position(FlattenSeq(s), P[j]).character = U[j]
  BY PositionsCount
<1>2. Counts(s, L, U)
  BY <1>1
<1>3. Len(u) = Len(s) /\ Counts(u, L, U)
  BY <1>2, SameCounts
<1>4. i \in 0..Len(u)
  BY <1>3
<1>5. GetOffset(RawOf(u), L[i], U[i]) = Q[i]
  BY <1>3, <1>4, GetOffsetAt
<1> QED
  BY <1>1, <1>3, <1>5 DEF Found

(* An edit the client describes by positions of its own text is done, and  *)
(* does to the bytes what it did to the text.                              *)
LEMMA EditAgrees ==
  ASSUME NEW r, NEW t, Aligned(r, t), NEW from \in Boundaries(t), NEW to \in Boundaries(t),
         from <= to, NEW piece \in Seq(Char), Paired(piece)
  PROVE  /\ Edit(r, ClientEdit(t, from, to, piece).change).done
         /\ Aligned(Edit(r, ClientEdit(t, from, to, piece).change).raw,
                    ClientEdit(t, from, to, piece).text)
<1>1. PICK u \in Seq(Cell), s \in Seq(Cell) :
        r = RawOf(u) /\ t = FlattenSeq(s) /\ Plain(u) = Plain(s)
  BY DEF Aligned
<1>2. PICK P : Places(s, P)
  BY MapsAre, FlattenPlaces
<1>3. PICK Q : Places(BytesOf(u), Q)
  BY MapsAre, FlattenPlaces
<1>4. PICK p \in Seq(Cell) : piece = FlattenSeq(p)
  BY PairedHasCells
<1>5. Encode(piece) = RawOf(p)
  BY <1>4, EncodeCells
<1>6. PICK a \in 0..Len(s) : from = P[a]
  BY <1>1, <1>2, CellBoundaries
<1>7. PICK b \in 0..Len(s) : to = P[b]
  BY <1>1, <1>2, CellBoundaries
<1>8. Len(u) = Len(s) /\ Found(u, s, P, Q, a) /\ Found(u, s, P, Q, b)
  BY <1>1, <1>2, <1>3, PositionsLead
<1>9. a \in 0..Len(u) /\ b \in 0..Len(u) /\ Len(s) \in Nat
  BY <1>8
<1>10. a <= b
  <2>1. \A i, j \in 0..Len(s) : i < j => P[i] < P[j]
    BY <1>2, CellPlaces
  <2>2. P[a] \in Nat /\ P[b] \in Nat
    BY <1>2 DEF Places
  <2>3. ASSUME b < a PROVE FALSE
    <3>1. P[b] < P[a]
      BY <2>1, <2>3
    <3> QED
      BY <1>6, <1>7, <2>2, <3>1
  <2> QED
    BY <1>9, <2>3
<1>11. Q[a] \in Nat /\ Q[b] \in Nat /\ Q[a] <= Q[b] /\ Q[a] # NoOffset /\ Q[b] # NoOffset
  <2>1. Q[a] \in 0..Len(RawOf(u)) /\ Q[b] \in 0..Len(RawOf(u)) /\ (a < b => Q[a] < Q[b])
    BY <1>3, <1>9, PlacesOfCells
  <2>2. Len(RawOf(u)) \in Nat
    BY MapsAre
  <2>3. a = b \/ a < b
    BY <1>9, <1>10
  <2> QED
    BY <2>1, <2>2, <2>3 DEF NoOffset
<1> DEFINE one == ClientEdit(t, from, to, piece)
<1>12. one.text = Replace(FlattenSeq(s), P[a], P[b], FlattenSeq(p))
  BY <1>1, <1>4, <1>6, <1>7 DEF ClientEdit
<1>13. /\ one.change.text = piece
       /\ one.change.start = Position(t, from) /\ one.change.end = Position(t, to)
  BY DEF ClientEdit
<1> HIDE DEF one
<1>14. /\ GetOffset(r, one.change.start.line, one.change.start.character) = Q[a]
       /\ GetOffset(r, one.change.end.line, one.change.end.character) = Q[b]
  BY <1>1, <1>6, <1>7, <1>8, <1>13 DEF Found
<1>15. Edit(r, one.change) = [done |-> TRUE, raw |-> Replace(RawOf(u), Q[a], Q[b], RawOf(p))]
  <2>1. ~(Q[a] = NoOffset \/ Q[b] = NoOffset \/ Q[b] < Q[a])
    BY <1>11
  <2> QED
    BY <1>1, <1>5, <1>13, <1>14, <2>1 DEF Edit
<1>16. /\ Replace(u, a, b, p) \in Seq(Cell)
       /\ Replace(RawOf(u), Q[a], Q[b], RawOf(p)) = RawOf(Replace(u, a, b, p))
       /\ Plain(Replace(u, a, b, p)) = Replace(Plain(u), a, b, Plain(p))
  BY <1>3, <1>9, SpliceCells
<1>17. /\ Replace(s, a, b, p) \in Seq(Cell)
       /\ Plain(Replace(s, a, b, p)) = Replace(Plain(s), a, b, Plain(p))
  <2>1. PICK R : Places(BytesOf(s), R)
    BY MapsAre, FlattenPlaces
  <2> QED
    BY <2>1, SpliceCells
<1>18. one.text = FlattenSeq(Replace(s, a, b, p))
  <2>1. s \in Seq(Seq(Char)) /\ p \in Seq(Seq(Char))
    BY MapsAre
  <2>2. Replace(FlattenSeq(s), P[a], P[b], FlattenSeq(p)) = FlattenSeq(Replace(s, a, b, p))
    BY <1>2, <2>1, SpliceAt
  <2> QED
    BY <1>12, <2>2
<1>19. Edit(r, one.change).done /\ Edit(r, one.change).raw = RawOf(Replace(u, a, b, p))
  BY <1>15, <1>16
<1>20. Aligned(Edit(r, one.change).raw, one.text)
  BY <1>1, <1>16, <1>17, <1>18, <1>19 DEF Aligned
<1> QED
  BY <1>19, <1>20 DEF one

(* Bytes and text that are aligned are the same text, line breaks          *)
(* normalised.                                                             *)
LEMMA AlignedIsInSync ==
  ASSUME NEW r, NEW t, Aligned(r, t)
  PROVE  /\ TransformUTF8ToLF(r) = TransformUTF8ToLF(Encode(t))
         /\ Celled(r) /\ t \in Seq(Char)
<1>1. PICK u \in Seq(Cell), s \in Seq(Cell) :
        r = RawOf(u) /\ t = FlattenSeq(s) /\ Plain(u) = Plain(s)
  BY DEF Aligned
<1>2. Encode(t) = RawOf(s) /\ t \in Seq(Char)
  BY <1>1, EncodeCells, MapsAre
<1>3. TransformUTF8ToLF(RawOf(u)) = RawOf(Plain(u)) /\ TransformUTF8ToLF(RawOf(s)) = RawOf(Plain(s))
  BY TransformCells
<1> QED
  BY <1>1, <1>2, <1>3 DEF Celled

(* And every position of the text leads to the same place in the bytes.    *)
LEMMA AlignedAgrees ==
  ASSUME NEW r, NEW t, Aligned(r, t), NEW k \in Boundaries(t)
  PROVE  LET p == Position(t, k)
             o == GetOffset(r, p.line, p.character)
         IN  /\ o # NoOffset
             /\ TransformUTF8ToLF(SubSeq(r, 1, o))
                  = TransformUTF8ToLF(Encode(SubSeq(t, 1, k)))
<1>1. PICK u \in Seq(Cell), s \in Seq(Cell) :
        r = RawOf(u) /\ t = FlattenSeq(s) /\ Plain(u) = Plain(s)
  BY DEF Aligned
<1>2. PICK P : Places(s, P)
  BY MapsAre, FlattenPlaces
<1>3. PICK Q : Places(BytesOf(u), Q)
  BY MapsAre, FlattenPlaces
<1>4. PICK a \in 0..Len(s) : k = P[a]
  BY <1>1, <1>2, CellBoundaries
<1>5. Len(u) = Len(s) /\ Found(u, s, P, Q, a)
  BY <1>1, <1>2, <1>3, PositionsLead
<1>6. Q[a] # NoOffset
  <2>1. Q[a] \in 0..Len(RawOf(u))
    BY <1>3, <1>5, PlacesOfCells
  <2>2. Len(RawOf(u)) \in Nat
    BY MapsAre
  <2> QED
    BY <2>1, <2>2 DEF NoOffset
<1>7. /\ SubSeq(RawOf(u), 1, Q[a]) = RawOf(SubSeq(u, 1, a))
      /\ Plain(SubSeq(u, 1, a)) = SubSeq(Plain(u), 1, a)
  BY <1>3, <1>5, SpliceCells
<1>8. Plain(SubSeq(s, 1, a)) = SubSeq(Plain(s), 1, a)
  <2>1. PICK R : Places(BytesOf(s), R)
    BY MapsAre, FlattenPlaces
  <2> QED
    BY <2>1, SpliceCells
<1>9. SubSeq(s, 1, a) \in Seq(Cell) /\ SubSeq(u, 1, a) \in Seq(Cell)
  <2>1. a \in 0..Len(s) /\ a \in 0..Len(u)
    BY <1>5
  <2> QED
    BY <2>1
<1>10. SubSeq(t, 1, k) = FlattenSeq(SubSeq(s, 1, a))
  <2>1. s \in Seq(Seq(Char))
    BY MapsAre
  <2> QED
    BY <1>1, <1>2, <1>4, <2>1, CutAt
<1>11. Encode(SubSeq(t, 1, k)) = RawOf(SubSeq(s, 1, a))
  BY <1>9, <1>10, EncodeCells
<1>12. /\ TransformUTF8ToLF(RawOf(SubSeq(u, 1, a))) = RawOf(Plain(SubSeq(u, 1, a)))
       /\ TransformUTF8ToLF(RawOf(SubSeq(s, 1, a))) = RawOf(Plain(SubSeq(s, 1, a)))
  BY <1>9, TransformCells
<1>13. TransformUTF8ToLF(SubSeq(r, 1, Q[a])) = TransformUTF8ToLF(Encode(SubSeq(t, 1, k)))
  BY <1>1, <1>7, <1>8, <1>11, <1>12
<1>14. GetOffset(r, Position(t, k).line, Position(t, k).character) = Q[a]
  BY <1>1, <1>4, <1>5 DEF Found
<1> QED
  BY <1>6, <1>13, <1>14

-----------------------------------------------------------------------------

(* What clients insert has no CR but before an LF.                         *)
PairedBreaks == \A p \in Piece : Paired(p)

(* The inductive invariant: the bytes are those of cells, and while the    *)
(* client edits the text it has they are aligned with it.                  *)
DocInv == Celled(raw) /\ (open /\ known => Aligned(raw, text))

(* Nothing is aligned with nothing.                                        *)
LEMMA EmptyIsAligned == Celled(<<>>) /\ Aligned(<<>>, <<>>)
<1> DEFINE s == <<>>
<1>1. s \in Seq(Cell)
  OBVIOUS
<1>2. FlattenSeq(s) = <<>>
  BY FlattenEmpty
<1>3. BytesOf(s) = <<>>
  BY DEF BytesOf
<1>4. RawOf(s) = <<>>
  BY <1>3, FlattenEmpty DEF RawOf
<1> HIDE DEF s
<1> QED
  BY <1>1, <1>2, <1>4 DEF Celled, Aligned

(* A text of cells is aligned with its bytes, and with them normalised.    *)
LEMMA CellsAreAligned ==
  ASSUME NEW s \in Seq(Cell)
  PROVE  /\ Aligned(Encode(FlattenSeq(s)), FlattenSeq(s))
         /\ Aligned(TransformUTF8ToLF(Encode(FlattenSeq(s))), FlattenSeq(s))
<1>1. Encode(FlattenSeq(s)) = RawOf(s)
  BY EncodeCells
<1>2. TransformUTF8ToLF(RawOf(s)) = RawOf(Plain(s))
  BY TransformCells
<1>3. Plain(s) \in Seq(Cell) /\ Len(Plain(s)) = Len(s) /\ Len(s) \in Nat
  BY MapsAre
<1>4. Plain(Plain(s)) = Plain(s)
  <2> DEFINE q == Plain(s)
  <2>1. q = [i \in 1..Len(s) |-> <<Kind(s[i])>>]
    BY DEF Plain
  <2>2. \A i \in 1..Len(s) : Kind(q[i]) = Kind(s[i])
    <3> SUFFICES ASSUME NEW i \in 1..Len(s) PROVE Kind(q[i]) = Kind(s[i])
      OBVIOUS
    <3> DEFINE c == Kind(s[i])
    <3>1. q[i] = <<c>>
      BY <2>1
    <3> HIDE DEF c, q
    <3>2. Kind(q[i]) = c
      BY <3>1 DEF Kind
    <3> QED
      BY <3>2 DEF c
  <2>3. Len(q) = Len(s)
    BY <1>3
  <2> HIDE DEF q
  <2>4. Plain(q) = [i \in 1..Len(s) |-> <<Kind(q[i])>>]
    BY <2>3 DEF Plain
  <2>5. Plain(q) = q
    BY <2>1, <2>2, <2>4
  <2> QED
    BY <2>5 DEF q
<1> QED
  BY <1>1, <1>2, <1>3, <1>4 DEF Aligned

(* What a client opens has paired line breaks too.                         *)
LEMMA NewTextsHaveCells ==
  ASSUME PairedBreaks, NEW new \in NewTexts
  PROVE  \E s \in Seq(Cell) : new = FlattenSeq(s)
<1>1. PICK p \in Piece \cup {<<>>}, q \in Piece \cup {<<>>} : new = p \o q
  BY DEF NewTexts
<1>2. \A x \in Piece \cup {<<>>} : x \in Seq(Char) /\ Paired(x)
  BY PiecesAre DEF PairedBreaks, Paired
<1>3. PICK x \in Seq(Cell) : p = FlattenSeq(x)
  BY <1>2, PairedHasCells
<1>4. PICK y \in Seq(Cell) : q = FlattenSeq(y)
  BY <1>2, PairedHasCells
<1>5. Texts(Seq(Char)) /\ x \in Seq(Seq(Char)) /\ y \in Seq(Seq(Char))
  BY MapsAre
<1>6. FlattenSeq(x \o y) = p \o q
  <2> DEFINE V == Seq(Char)
  <2>1. Texts(V) /\ x \in Seq(V) /\ y \in Seq(V)
    BY <1>5
  <2> HIDE DEF V
  <2>2. FlattenSeq(x \o y) = Cat(FlattenSeq(x), FlattenSeq(y))
    BY <2>1, FlattenCat
  <2> QED
    BY <1>3, <1>4, <2>2 DEF Cat
<1>7. x \o y \in Seq(Cell)
  OBVIOUS
<1> QED
  BY <1>1, <1>6, <1>7

(* A client's edit of its own text keeps the invariant.                    *)
LEMMA EditKeepsAligned == PairedBreaks /\ DocInv /\ DidEdit => DocInv'
<1> SUFFICES ASSUME PairedBreaks, DocInv, DidEdit PROVE DocInv'
  OBVIOUS
<1>1. open /\ known /\ Aligned(raw, text)
  BY DEF DidEdit, DocInv
<1>a. \A x \in Piece \cup {<<>>} : x \in Seq(Char) /\ Paired(x)
  BY PiecesAre DEF PairedBreaks, Paired
<1>b. PICK n \in 1..MaxChanges : \E piece \in [1..n -> Piece \cup {<<>>}] :
        \E first \in Boundaries(text) : \E last \in Boundaries(text) :
          /\ first <= last
          /\ LET one == ClientEdit(text, first, last, piece[1])
             IN  IF n = 1
                 THEN text' = one.text /\ raw' = DidChanges(raw, <<one.change>>).raw
                 ELSE \E k \in Boundaries(one.text) :
                        LET two == ClientEdit(one.text, k, Len(one.text), piece[2])
                        IN  /\ text' = two.text
                            /\ raw' = DidChanges(raw, <<one.change, two.change>>).raw
  BY DEF DidEdit
<1>2. PICK piece \in [1..n -> Piece \cup {<<>>}],
           first \in Boundaries(text), last \in Boundaries(text) :
        /\ first <= last
        /\ LET one == ClientEdit(text, first, last, piece[1])
           IN  IF n = 1
               THEN text' = one.text /\ raw' = DidChanges(raw, <<one.change>>).raw
               ELSE \E k \in Boundaries(one.text) :
                      LET two == ClientEdit(one.text, k, Len(one.text), piece[2])
                      IN  /\ text' = two.text
                          /\ raw' = DidChanges(raw, <<one.change, two.change>>).raw
  BY <1>b
<1>3. n \in Nat /\ 1 \in 1..n /\ (n # 1 => 2 \in 1..n)
  BY BoundsAssumption
<1>4. /\ piece[1] \in Seq(Char) /\ Paired(piece[1])
      /\ n # 1 => piece[2] \in Seq(Char) /\ Paired(piece[2])
  BY <1>3, <1>a
<1>5. text \in Seq(Char) /\ Celled(raw) /\ Whole(raw)
  <2>1. text \in Seq(Char) /\ Celled(raw)
    BY <1>1, AlignedIsInSync
  <2> QED
    BY <2>1, CellsAreWhole DEF Celled
<1> DEFINE one == ClientEdit(text, first, last, piece[1])
           r == Edit(raw, one.change).raw
<1>6. one.text \in Seq(Char) /\ IsChange(one.change)
  BY <1>4, <1>5, ClientEditIs
<1>7. Edit(raw, one.change).done /\ Aligned(r, one.text)
  BY <1>1, <1>2, <1>4, EditAgrees
<1>8. ASSUME Aligned(raw', text') PROVE DocInv'
  <2>1. Celled(raw')
    BY <1>8, AlignedIsInSync
  <2> QED
    BY <1>8, <2>1 DEF DocInv
<1>9. CASE n = 1
  <2>1. text' = one.text /\ raw' = DidChanges(raw, <<one.change>>).raw
    BY <1>2, <1>9
  <2> DEFINE c == one.change
  <2>2. IsChange(c)
    BY <1>6
  <2> HIDE DEF c
  <2>3. DidChanges(raw, <<c>>) = Edit(raw, c)
    BY <1>5, <2>2, OneChange
  <2>4. raw' = r
    BY <2>1, <2>3 DEF c
  <2> HIDE DEF one, r
  <2> QED
    BY <1>7, <1>8, <2>1, <2>4
<1>10. CASE n # 1
  <2>1. PICK k \in Boundaries(one.text) :
          LET two == ClientEdit(one.text, k, Len(one.text), piece[2])
          IN  /\ text' = two.text
              /\ raw' = DidChanges(raw, <<one.change, two.change>>).raw
    BY <1>2, <1>10
  <2> DEFINE t == one.text
             two == ClientEdit(t, k, Len(t), piece[2])
             c == one.change
             d == two.change
  <2>2. text' = two.text /\ raw' = DidChanges(raw, <<c, d>>).raw
    BY <2>1
  <2>3. t \in Seq(Char) /\ k \in Boundaries(t) /\ IsChange(c) /\ Aligned(r, t) /\ Edit(raw, c).done
    BY <1>6, <1>7
  <2>a. r = Edit(raw, c).raw
    OBVIOUS
  <2> HIDE DEF one, r, t, c
  <2>4. Len(t) \in Boundaries(t) /\ k <= Len(t)
    <3>1. Len(t) \in Nat
      BY <2>3
    <3> QED
      BY <2>3, <3>1 DEF Boundaries, InsideBreak
  <2>5. IsChange(d)
    BY <1>4, <1>10, <2>3, <2>4, ClientEditIs
  <2>6. Aligned(Edit(r, d).raw, two.text)
    BY <1>4, <1>10, <2>3, <2>4, EditAgrees
  <2> HIDE DEF two, d
  <2>7. DidChanges(raw, <<c, d>>) = IF Edit(raw, c).done THEN Edit(Edit(raw, c).raw, d) ELSE Edit(raw, c)
    BY <1>5, <2>3, <2>5, TwoChanges
  <2>8. raw' = Edit(r, d).raw
    BY <2>2, <2>3, <2>7, <2>a
  <2> QED
    BY <1>8, <2>2, <2>6, <2>8
<1> QED
  BY <1>9, <1>10

(* An edit by positions of some other text keeps it.                       *)
LEMMA EditElsewhereKeepsCells == PairedBreaks /\ DocInv /\ DidEditElsewhere => DocInv'
<1> SUFFICES ASSUME PairedBreaks, DocInv, DidEditElsewhere PROVE DocInv'
  OBVIOUS
<1>1. Celled(raw) /\ known' = FALSE
  BY DEF DocInv, DidEditElsewhere
<1>2. PICK n \in 1..MaxChanges, piece \in Piece, p \in Place, q \in Place :
        LET change == [start |-> p, end |-> q, text |-> piece]
            more   == [start |-> q, end |-> q, text |-> piece]
        IN  raw' = DidChanges(raw, IF n = 1 THEN <<change>> ELSE <<change, more>>).raw
  BY DEF DidEditElsewhere
<1> DEFINE c == [start |-> p, end |-> q, text |-> piece]
           d == [start |-> q, end |-> q, text |-> piece]
<1>3. Named(p) /\ Named(q) /\ piece \in Seq(Char) /\ Paired(piece)
  BY BoundsAssumption DEF Place, Named, PairedBreaks
<1>4. IsChange(c) /\ IsChange(d) /\ Paired(c.text) /\ Paired(d.text)
  BY <1>3 DEF IsChange
<1>5. raw' = DidChanges(raw, IF n = 1 THEN <<c>> ELSE <<c, d>>).raw
  BY <1>2
<1> HIDE DEF c, d
<1>6. Whole(raw)
  BY <1>1, CellsAreWhole DEF Celled
<1>7. DidChanges(raw, <<c>>) = Edit(raw, c)
  BY <1>4, <1>6, OneChange
<1>8. DidChanges(raw, <<c, d>>) = IF Edit(raw, c).done THEN Edit(Edit(raw, c).raw, d) ELSE Edit(raw, c)
  BY <1>4, <1>6, TwoChanges
<1>9. Celled(Edit(raw, c).raw)
  BY <1>1, <1>4, EditKeepsCells
<1>10. Celled(Edit(Edit(raw, c).raw, d).raw)
  BY <1>4, <1>9, EditKeepsCells
<1>11. Celled(raw')
  <2>1. CASE n = 1
    BY <1>5, <1>7, <1>9, <2>1
  <2>2. CASE n # 1
    BY <1>5, <1>8, <1>9, <1>10, <2>2
  <2> QED
    BY <2>1, <2>2
<1> QED
  BY <1>1, <1>11 DEF DocInv

(* It holds at first.                                                      *)
LEMMA DocInit == Init => DocInv
  BY EmptyIsAligned DEF Init, DocInv

(* Every step keeps it.                                                    *)
LEMMA DocStep == PairedBreaks /\ DocInv /\ [Next]_vars => DocInv'
<1> SUFFICES ASSUME PairedBreaks, DocInv, [Next]_vars PROVE DocInv'
  OBVIOUS
<1>0. ASSUME Aligned(raw', text') PROVE DocInv'
  <2>1. Celled(raw')
    BY <1>0, AlignedIsInSync
  <2> QED
    BY <1>0, <2>1 DEF DocInv
<1>1. ASSUME NEW new \in NewTexts, DidOpen(new) PROVE DocInv'
  <2>1. PICK s \in Seq(Cell) : new = FlattenSeq(s)
    BY NewTextsHaveCells
  <2>2. Aligned(TransformUTF8ToLF(Encode(new)), new)
    BY <2>1, CellsAreAligned
  <2>3. Aligned(raw', text')
    BY <1>1, <2>2 DEF DidOpen
  <2> QED
    BY <1>0, <2>3
<1>2. ASSUME NEW new \in NewTexts, DidChange(new) PROVE DocInv'
  <2>1. PICK s \in Seq(Cell) : new = FlattenSeq(s)
    BY NewTextsHaveCells
  <2>2. Aligned(Encode(new), new)
    BY <2>1, CellsAreAligned
  <2>3. Aligned(raw', text')
    BY <1>2, <2>2 DEF DidChange
  <2> QED
    BY <1>0, <2>3
<1>3. CASE DidClose
  <2>1. Aligned(raw', text')
    BY <1>3, EmptyIsAligned DEF DidClose
  <2> QED
    BY <1>0, <2>1
<1>4. CASE DidSave
  <2>1. Aligned(raw, text)
    BY <1>4 DEF DidSave, DocInv
  <2>2. PICK s \in Seq(Cell) : text = FlattenSeq(s)
    BY <2>1 DEF Aligned
  <2>3. Aligned(Encode(text), text)
    BY <2>2, CellsAreAligned
  <2>4. Aligned(raw', text')
    BY <1>4, <2>3 DEF DidSave
  <2> QED
    BY <1>0, <2>4
<1>5. CASE DidEdit
  BY <1>5, EditKeepsAligned
<1>6. CASE DidEditElsewhere
  BY <1>6, EditElsewhereKeepsCells
<1>7. CASE UNCHANGED vars
  BY <1>7 DEF vars, DocInv
<1> QED
  BY <1>1, <1>2, <1>3, <1>4, <1>5, <1>6, <1>7 DEF Next

(* It says what InSync and PositionsAgree do.                              *)
LEMMA DocFollows == DocInv => InSync /\ PositionsAgree
<1> SUFFICES ASSUME DocInv PROVE InSync /\ PositionsAgree
  OBVIOUS
<1>1. InSync
  BY AlignedIsInSync DEF DocInv, InSync
<1>2. \A o \in 0..Len(raw) : OffsetIsBoundary(o) => GetLCInverts(o)
  BY InvertsOnCells DEF DocInv, Celled
<1>3. open /\ known => \A k \in Boundaries(text) :
           LET p == Position(text, k)
               o == GetOffset(raw, p.line, p.character)
           IN  /\ o # NoOffset
               /\ TransformUTF8ToLF(SubSeq(raw, 1, o))
                    = TransformUTF8ToLF(Encode(SubSeq(text, 1, k)))
  BY AlignedAgrees DEF DocInv
<1> QED
  BY <1>1, <1>2, <1>3 DEF PositionsAgree

(* A document edited by positions of the text its client has stays that    *)
(* text, line breaks normalised, whatever was opened, changed, saved and   *)
(* edited before (FileBrowser.cc); every CR is one of a CR LF.             *)
THEOREM DocumentsStayInSync == PairedBreaks => (Spec => []InSync)
<1> SUFFICES ASSUME PairedBreaks PROVE Spec => []InSync
  OBVIOUS
<1>1. DocInv => InSync
  BY DocFollows
<1>2. DocInv /\ [Next]_vars => DocInv'
  BY DocStep
<1> QED
  BY <1>1, <1>2, DocInit, PTL DEF Spec

(* And every position the client can name in its text leads to the place   *)
(* it means (File::GetOffset), as GetLC leads back on lines of one-byte    *)
(* characters.                                                             *)
THEOREM PositionsMeanTheSamePlace == PairedBreaks => (Spec => []PositionsAgree)
<1> SUFFICES ASSUME PairedBreaks PROVE Spec => []PositionsAgree
  OBVIOUS
<1>1. DocInv => PositionsAgree
  BY DocFollows
<1>2. DocInv /\ [Next]_vars => DocInv'
  BY DocStep
<1> QED
  BY <1>1, <1>2, DocInit, PTL DEF Spec
=============================================================================
