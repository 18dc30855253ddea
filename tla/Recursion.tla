------------------------------ MODULE Recursion ------------------------------
(***************************************************************************)
(* What recursion computes, for every input.                               *)
(*                                                                         *)
(* The induction theorems of the library are about an operator, which no   *)
(* prover here instantiates: these are about a set of numbers instead.     *)
(* From a least element there is a function that tells what a recursive    *)
(* definition says it does (RecursionHasFixpoint); the lemmas on           *)
(* FlattenSeq, on minima and maxima, on folds over numbers and on sums     *)
(* over sets follow, of which the proofs about the readers and the writers *)
(* of texts are made.                                                      *)
(*                                                                         *)
(* Hypotheses are operators of their own (Descends, Texts, Places, Climbs):*)
(* a prover matches a name more easily than what it stands for.            *)
(***************************************************************************)
EXTENDS Integers, SequencesExt, WellFoundedInduction, TLAPS, FiniteSetTheorems

(* What zero has and passes on, every number has.                          *)
LEMMA InductionOnNat ==
  ASSUME NEW T, 0 \in T, \A n \in Nat : n \in T => n + 1 \in T
  PROVE  \A n \in Nat : n \in T
<1> DEFINE R == OpToRel(<, Nat)
           U == Nat \ T
<1>1. IsWellFoundedOn(R, Nat)
  BY NatLessThanWellFounded
<1>2. \A x, y \in Nat : x < y => <<x, y>> \in R
  BY DEF OpToRel
<1> HIDE DEF R
<1> SUFFICES ASSUME U # {} PROVE FALSE
  OBVIOUS
<1>3. PICK x \in U : \A y \in U : <<y, x>> \notin R
  BY <1>1, WFMin
<1>4. x # 0 /\ x - 1 \in Nat
  BY <1>3
<1>5. <<x - 1, x>> \in R
  BY <1>2, <1>4
<1> QED
  BY <1>3, <1>4, <1>5

(* F tells a function on D from itself, with values in V: what it says of  *)
(* a place depends on places of a smaller measure only.                    *)
Descends(F, D, V, m) ==
  /\ F \in [[D -> V] -> [D -> V]] /\ m \in [D -> Nat]
  /\ \A g, h \in [D -> V] : \A x \in D :
       (\A y \in D : m[y] < m[x] => g[y] = h[y]) => F[g][x] = F[h][x]

Tells(F, D, V) == \E f \in [D -> V] : f = F[f]

(* Then there is such a function.                                          *)
LEMMA RecursionHasFixpoint ==
  ASSUME NEW D, NEW V, V # {}, NEW F, NEW m, Descends(F, D, V, m)
  PROVE  Tells(F, D, V)
<1> USE DEF Tells
<1>a. PICK v \in V : TRUE
  OBVIOUS
<1> F \in [[D -> V] -> [D -> V]] /\ m \in [D -> Nat]
  BY DEF Descends
<1> \A g, h \in [D -> V] : \A x \in D :
        (\A y \in D : m[y] < m[x] => g[y] = h[y]) => F[g][x] = F[h][x]
  BY DEF Descends
<1> DEFINE Good(n, g) == \A x \in D : m[x] < n => F[g][x] = g[x]
<1>1. \A n \in Nat : \E g \in [D -> V] : Good(n, g)
  <2> DEFINE T == {n \in Nat : \E g \in [D -> V] : Good(n, g)}
  <2>1. 0 \in T
    <3>1. [x \in D |-> v] \in [D -> V] /\ Good(0, [x \in D |-> v])
      OBVIOUS
    <3> QED
      BY <3>1
  <2>2. ASSUME NEW n \in Nat, n \in T PROVE n + 1 \in T
    <3>1. PICK g \in [D -> V] : Good(n, g)
      BY <2>2
    <3>2. F[g] \in [D -> V]
      OBVIOUS
    <3>3. ASSUME NEW x \in D, m[x] < n + 1 PROVE F[F[g]][x] = F[g][x]
      <4>1. \A y \in D : m[y] < m[x] => F[g][y] = g[y]
        BY <3>1, <3>3
      <4> QED
        BY <3>2, <4>1
    <3> QED
      BY <3>2, <3>3
  <2> HIDE DEF T
  <2>3. \A n \in Nat : n \in T
    BY <2>1, <2>2, InductionOnNat
  <2> QED
    BY <2>3 DEF T
<1>2. \A n \in Nat : \A g, h \in [D -> V] :
        Good(n, g) /\ Good(n, h) => \A x \in D : m[x] < n => g[x] = h[x]
  <2> DEFINE T == {n \in Nat : \A g, h \in [D -> V] :
        Good(n, g) /\ Good(n, h) => \A x \in D : m[x] < n => g[x] = h[x]}
  <2>1. 0 \in T
    OBVIOUS
  <2>2. ASSUME NEW n \in Nat, n \in T PROVE n + 1 \in T
    <3> SUFFICES ASSUME NEW g \in [D -> V], NEW h \in [D -> V], Good(n + 1, g), Good(n + 1, h),
                        NEW x \in D, m[x] < n + 1
                 PROVE  g[x] = h[x]
      OBVIOUS
    <3>1. Good(n, g) /\ Good(n, h)
      OBVIOUS
    <3>2. \A y \in D : m[y] < m[x] => g[y] = h[y]
      BY <2>2, <3>1
    <3>3. F[g][x] = F[h][x]
      BY <3>2
    <3>4. F[g][x] = g[x] /\ F[h][x] = h[x]
      OBVIOUS
    <3> QED
      BY <3>3, <3>4
  <2> HIDE DEF T
  <2>3. \A n \in Nat : n \in T
    BY <2>1, <2>2, InductionOnNat
  <2> QED
    BY <2>3 DEF T
<1> DEFINE G(n) == CHOOSE g \in [D -> V] : Good(n, g)
           f == [x \in D |-> G(m[x] + 1)[x]]
<1>3. \A n \in Nat : G(n) \in [D -> V] /\ Good(n, G(n))
  BY <1>1
<1> HIDE DEF G
<1>4. f \in [D -> V]
  BY <1>3
<1>5. ASSUME NEW x \in D PROVE F[f][x] = f[x]
  <2> DEFINE g == G(m[x] + 1)
  <2>1. g \in [D -> V] /\ Good(m[x] + 1, g)
    BY <1>3
  <2>2. ASSUME NEW y \in D, m[y] < m[x] PROVE f[y] = g[y]
    <3>1. Good(m[y] + 1, g)
      BY <2>1, <2>2
    <3>2. G(m[y] + 1) \in [D -> V] /\ Good(m[y] + 1, G(m[y] + 1))
      BY <1>3
    <3>3. m[y] + 1 \in Nat /\ m[y] < m[y] + 1
      OBVIOUS
    <3> HIDE DEF g, Good
    <3>4. G(m[y] + 1)[y] = g[y]
      BY <1>2, <2>1, <3>1, <3>2, <3>3
    <3> QED
      BY <3>4
  <2>3. F[f][x] = F[g][x]
    <3> HIDE DEF f, g, Good
    <3> QED
      BY <1>4, <2>1, <2>2
  <2>4. F[g][x] = g[x]
    BY <2>1
  <2> QED
    BY <2>3, <2>4
<1> QED
  <2> HIDE DEF f
  <2> F[f] \in [D -> V]
    BY <1>4
  <2> QED
    BY <1>4, <1>5

-----------------------------------------------------------------------------
(* FlattenSeq                                                              *)

(* An operator, for the provers to leave alone what it stands for.         *)
Cat(x, y) == x \o y

(* What the lemmas use of sequences as values.                             *)
Texts(V) ==
  /\ <<>> \in V
  /\ \A x, y \in V : Cat(x, y) \in V
  /\ \A x \in V : Cat(<<>>, x) = x /\ Cat(x, <<>>) = x
  /\ \A x, y, z \in V : Cat(Cat(x, y), z) = Cat(x, Cat(y, z))
  /\ \A x \in V : Len(x) \in Nat
  /\ \A x, y \in V :
       /\ Len(Cat(x, y)) = Len(x) + Len(y)
       /\ \A i \in 1..Len(x) : Cat(x, y)[i] = x[i]
       /\ \A i \in 1..Len(y) : Cat(x, y)[Len(x) + i] = y[i]

(* Sequences over any set are such values.                                 *)
LEMMA SequencesAreTexts == ASSUME NEW S PROVE Texts(Seq(S))
  BY DEF Texts, Cat

(* FlattenSeq of a sequence that is not empty grows part by part.          *)
LEMMA FlattenIs ==
  ASSUME NEW V, Texts(V), NEW s \in Seq(V), s # <<>>
  PROVE  \E f \in [1..Len(s) -> V] :
           /\ FlattenSeq(s) = f[Len(s)]
           /\ f[1] = s[1]
           /\ \A i \in 2..Len(s) : f[i] = Cat(f[i - 1], s[i])
<1> DEFINE n == Len(s)
           D == 1..n
           E(g, i) == IF i = 1 THEN s[i] ELSE Cat(g[i - 1], s[i])
           F == [g \in [D -> V] |-> [i \in D |-> E(g, i)]]
           m == [i \in D |-> i]
           Is(f) == f = [i \in D |-> E(f, i)]
<1>1. n \in Nat /\ n > 0
  OBVIOUS
<1>2. \A i \in D : s[i] \in V
  OBVIOUS
<1>3. \A x, y \in V : Cat(x, y) \in V
  BY DEF Texts
<1>4. FlattenSeq(s) = (CHOOSE f : Is(f))[n]
  BY <1>1 DEF FlattenSeq, Cat
<1> HIDE DEF n
<1>5. \A g \in [D -> V] : \A i \in D : E(g, i) \in V
  BY <1>1, <1>2, <1>3
<1>6. ASSUME NEW g \in [D -> V], NEW h \in [D -> V], NEW x \in D,
             \A y \in D : m[y] < m[x] => g[y] = h[y]
      PROVE  E(g, x) = E(h, x)
  <2>1. x = 1 \/ (x - 1 \in D /\ m[x - 1] < m[x])
    BY <1>1
  <2> QED
    BY <2>1, <1>6
<1>7. m \in [D -> Nat] /\ 1 \in D
  BY <1>1
<1> HIDE DEF D, E, m
<1>8. F \in [[D -> V] -> [D -> V]] /\ \A g \in [D -> V] : \A x \in D : F[g][x] = E(g, x)
  BY <1>5
<1>9. Descends(F, D, V, m)
  BY <1>6, <1>7, <1>8 DEF Descends
<1>10. V # {}
  BY <1>2, <1>7
<1>11. Tells(F, D, V)
  <2> HIDE DEF F
  <2> QED
    BY <1>9, <1>10, RecursionHasFixpoint
<1>12. \E f : Is(f)
  BY <1>11 DEF Tells
<1> DEFINE c == CHOOSE f : Is(f)
<1>13. Is(c)
  BY <1>12
<1> HIDE DEF c
<1>14. \A i \in D : c[i] = E(c, i)
  BY <1>13
<1>15. c[1] = s[1] /\ \A i \in 2..n : c[i] = Cat(c[i - 1], s[i])
  BY <1>1, <1>14 DEF D, E
<1>16. c \in [D -> V]
  <2> DEFINE T == {i \in Nat : i + 1 \in D => c[i + 1] \in V}
  <2>1. 0 \in T
    BY <1>2, <1>15
  <2>2. ASSUME NEW i \in Nat, i \in T PROVE i + 1 \in T
    <3> SUFFICES ASSUME i + 2 \in D PROVE c[i + 2] \in V
      OBVIOUS
    <3>1. i + 1 \in D /\ i + 2 \in 2..n
      BY <1>1 DEF D
    <3>2. c[i + 2] = Cat(c[i + 1], s[i + 2])
      BY <1>15, <3>1
    <3> QED
      BY <1>2, <1>3, <2>2, <3>1, <3>2
  <2> HIDE DEF T
  <2>3. \A i \in Nat : i \in T
    BY <2>1, <2>2, InductionOnNat
  <2>4. \A i \in D : i - 1 \in Nat /\ (i - 1) + 1 = i
    BY <1>1 DEF D
  <2>5. \A i \in D : c[i] \in V
    BY <2>3, <2>4 DEF T
  <2> QED
    BY <1>13, <2>5
<1> QED
  BY <1>4, <1>15, <1>16 DEF c, D, n

(* Nothing flattens to nothing.                                            *)
LEMMA FlattenEmpty == FlattenSeq(<<>>) = <<>>
  BY DEF FlattenSeq

(* A text flattens from texts.                                             *)
LEMMA FlattenTyped ==
  ASSUME NEW V, Texts(V), NEW s \in Seq(V)
  PROVE  FlattenSeq(s) \in V
<1>1. CASE s = <<>>
  <2>1. FlattenSeq(s) = <<>>
    BY <1>1, FlattenEmpty
  <2> QED
    BY <2>1 DEF Texts
<1>2. CASE s # <<>>
  <2>1. PICK f \in [1..Len(s) -> V] : FlattenSeq(s) = f[Len(s)]
    BY <1>2, FlattenIs
  <2>2. Len(s) \in 1..Len(s)
    BY <1>2
  <2> QED
    BY <2>1, <2>2
<1> QED
  BY <1>1, <1>2

(* One more part is one more at the end.                                   *)
LEMMA FlattenAppend ==
  ASSUME NEW V, Texts(V), NEW s \in Seq(V), NEW x \in V
  PROVE  FlattenSeq(Append(s, x)) = Cat(FlattenSeq(s), x)
<1> DEFINE t == Append(s, x)
           n == Len(s)
<1>1. /\ t \in Seq(V) /\ t # <<>> /\ Len(t) = n + 1 /\ t[n + 1] = x /\ n \in Nat
      /\ \A i \in 1..n : t[i] = s[i]
  OBVIOUS
<1>2. PICK g \in [1..Len(t) -> V] :
        /\ FlattenSeq(t) = g[Len(t)]
        /\ g[1] = t[1]
        /\ \A i \in 2..Len(t) : g[i] = Cat(g[i - 1], t[i])
  <2> HIDE DEF t
  <2> QED
    BY <1>1, FlattenIs
<1> HIDE DEF t
<1>3. CASE s = <<>>
  <2>1. FlattenSeq(s) = <<>> /\ n = 0
    BY <1>3, FlattenEmpty
  <2>2. FlattenSeq(t) = x
    BY <1>1, <1>2, <2>1
  <2>3. Cat(<<>>, x) = x
    BY DEF Texts
  <2> QED
    BY <2>1, <2>2, <2>3 DEF t
<1>4. CASE s # <<>>
  <2>1. PICK f \in [1..Len(s) -> V] :
           /\ FlattenSeq(s) = f[Len(s)]
           /\ f[1] = s[1]
           /\ \A i \in 2..Len(s) : f[i] = Cat(f[i - 1], s[i])
    BY <1>4, FlattenIs
  <2>2. n > 0
    BY <1>4
  <2> HIDE DEF n
  <2>3. /\ f[1] = s[1] /\ \A i \in 2..n : f[i] = Cat(f[i - 1], s[i])
        /\ g[1] = s[1] /\ \A i \in 2..n : g[i] = Cat(g[i - 1], s[i])
    BY <1>1, <1>2, <2>1, <2>2 DEF n
  <2> DEFINE T == {i \in Nat : i + 1 \in 1..n => g[i + 1] = f[i + 1]}
  <2>4. 0 \in T
    BY <2>3
  <2>5. ASSUME NEW i \in Nat, i \in T PROVE i + 1 \in T
    <3> SUFFICES ASSUME i + 2 \in 1..n PROVE g[i + 2] = f[i + 2]
      OBVIOUS
    <3>1. g[i + 1] = f[i + 1] /\ i + 2 \in 2..n
      BY <1>1, <2>5
    <3>2. f[i + 2] = Cat(f[i + 1], s[i + 2]) /\ g[i + 2] = Cat(g[i + 1], s[i + 2])
      BY <2>3, <3>1
    <3> QED
      BY <3>1, <3>2
  <2> HIDE DEF T
  <2>6. \A i \in Nat : i \in T
    BY <2>4, <2>5, InductionOnNat
  <2>7. n - 1 \in Nat /\ n \in 1..n
    BY <1>1, <2>2
  <2>8. g[n] = f[n]
    BY <2>6, <2>7 DEF T
  <2>9. g[n + 1] = Cat(g[n], x)
    BY <1>1, <1>2, <2>7
  <2> QED
    BY <1>1, <1>2, <2>1, <2>8, <2>9 DEF t, n
<1> QED
  BY <1>3, <1>4

(* Where the parts are in the whole: P[k] is how long the first k are.     *)
Places(s, P) ==
  /\ P \in [0..Len(s) -> Nat] /\ P[0] = 0
  /\ Len(FlattenSeq(s)) = P[Len(s)]
  /\ \A k \in 1..Len(s) :
       /\ Len(s[k]) \in Nat /\ P[k] = P[k - 1] + Len(s[k])
       /\ \A i \in 1..Len(s[k]) : FlattenSeq(s)[P[k - 1] + i] = s[k][i]

(* Every sequence of texts has such places.                                *)
LEMMA FlattenPlaces ==
  ASSUME NEW V, Texts(V), NEW s \in Seq(V)
  PROVE  \E P : Places(s, P)
<1> DEFINE n == Len(s)
<1>1. n \in Nat /\ \A i \in 1..n : s[i] \in V
  OBVIOUS
<1>2. CASE s = <<>>
  <2>1. FlattenSeq(s) = <<>>
    BY <1>2, FlattenEmpty
  <2>2. Len(FlattenSeq(s)) = 0 /\ Len(s) = 0
    BY <1>2, <2>1
  <2> DEFINE P == [k \in 0..Len(s) |-> 0]
  <2>3. P \in [0..Len(s) -> Nat] /\ P[0] = 0 /\ P[Len(s)] = 0
    BY <2>2
  <2> HIDE DEF P
  <2>4. \A k \in 1..Len(s) : FALSE
    BY <2>2
  <2>5. Places(s, P)
    BY <2>2, <2>3, <2>4 DEF Places
  <2> QED
    BY <2>5
<1>3. CASE s # <<>>
  <2>1. PICK f \in [1..Len(s) -> V] :
           /\ FlattenSeq(s) = f[Len(s)]
           /\ f[1] = s[1]
           /\ \A i \in 2..Len(s) : f[i] = Cat(f[i - 1], s[i])
    BY <1>3, FlattenIs
  <2>2. n > 0
    BY <1>3
  <2> HIDE DEF n
  <2>3. /\ f \in [1..n -> V] /\ f[1] = s[1] /\ FlattenSeq(s) = f[n]
        /\ \A i \in 2..n : f[i] = Cat(f[i - 1], s[i])
    BY <2>1 DEF n
  <2>4. \A x \in V : Len(x) \in Nat
    BY DEF Texts
  <2>5. \A x, y \in V :
          /\ Len(Cat(x, y)) = Len(x) + Len(y)
          /\ \A i \in 1..Len(x) : Cat(x, y)[i] = x[i]
          /\ \A i \in 1..Len(y) : Cat(x, y)[Len(x) + i] = y[i]
    BY DEF Texts
  <2> DEFINE P == [k \in 0..n |-> IF k = 0 THEN 0 ELSE Len(f[k])]
  <2>6. P \in [0..n -> Nat] /\ P[0] = 0 /\ \A k \in 1..n : P[k] = Len(f[k])
    BY <1>1, <2>3, <2>4
  <2> HIDE DEF P
  <2>7. \A k \in 1..n : P[k] = P[k - 1] + Len(s[k])
    <3> SUFFICES ASSUME NEW k \in 1..n PROVE P[k] = P[k - 1] + Len(s[k])
      OBVIOUS
    <3>1. s[k] \in V /\ Len(s[k]) \in Nat
      BY <1>1, <2>4
    <3>2. CASE k = 1
      <4>1. P[1] = Len(s[1]) /\ P[0] = 0 /\ k - 1 = 0
        BY <1>1, <2>2, <2>3, <2>6, <3>2
      <4> QED
        BY <3>1, <3>2, <4>1
    <3>3. CASE k # 1
      <4>1. k - 1 \in 1..n /\ k \in 2..n
        BY <1>1, <3>3
      <4>2. f[k] = Cat(f[k - 1], s[k]) /\ f[k - 1] \in V
        BY <2>3, <4>1
      <4>3. Len(f[k]) = Len(f[k - 1]) + Len(s[k])
        <5> DEFINE a == f[k - 1]
                   b == s[k]
                   c == f[k]
        <5>1. a \in V /\ b \in V /\ c = Cat(a, b)
          BY <3>1, <4>2
        <5> HIDE DEF a, b, c
        <5>2. Len(c) = Len(a) + Len(b)
          BY <2>5, <5>1
        <5> QED
          BY <5>2 DEF a, b, c
      <4> QED
        BY <2>6, <4>1, <4>3
    <3> QED
      BY <3>2, <3>3
  <2>7a. \A j \in Nat : j + 1 \in 1..n => P[j + 1] = P[j] + Len(s[j + 1])
    <3> SUFFICES ASSUME NEW j \in Nat, NEW k \in 1..n, k = j + 1
                 PROVE  P[k] = P[j] + Len(s[k])
      OBVIOUS
    <3>1. k - 1 = j
      OBVIOUS
    <3> QED
      BY <2>7, <3>1
  (* What stands in the first k parts stays where it is.                   *)
  <2> DEFINE Stays(j) == \A k \in 1..n : k <= j /\ j <= n =>
                            /\ P[k] <= P[j]
                            /\ \A i \in 1..P[k] : f[j][i] = f[k][i]
             T == {j \in Nat : Stays(j)}
  <2>8. \A j \in Nat : j \in T
    <3>1. 0 \in T
      OBVIOUS
    <3>2. ASSUME NEW j \in Nat, j \in T PROVE j + 1 \in T
      <4> SUFFICES ASSUME NEW k \in 1..n, k <= j + 1, j + 1 <= n
                   PROVE  /\ P[k] <= P[j + 1]
                          /\ \A i \in 1..P[k] : f[j + 1][i] = f[k][i]
        OBVIOUS
      <4>0. k \in Nat /\ P[k] \in Nat
        BY <1>1, <2>6
      <4>1. CASE k = j + 1
        BY <4>0, <4>1
      <4>2. CASE k # j + 1
        <5>1. k <= j /\ j \in 1..n /\ j + 1 \in 2..n
          BY <1>1, <4>2
        <5>2. P[k] <= P[j] /\ \A i \in 1..P[k] : f[j][i] = f[k][i]
          BY <3>2, <5>1
        <5>3. f[j] \in V /\ s[j + 1] \in V /\ f[j + 1] = Cat(f[j], s[j + 1])
          BY <1>1, <2>3, <5>1
        <5>4. P[j] = Len(f[j]) /\ P[j + 1] = P[j] + Len(s[j + 1]) /\ Len(s[j + 1]) \in Nat /\ P[j] \in Nat
          <6>1. P[j] = Len(f[j]) /\ P[j] \in Nat
            BY <2>4, <2>6, <5>1, <5>3
          <6>2. P[j + 1] = P[j] + Len(s[j + 1])
            BY <1>1, <2>7a, <5>1
          <6>3. Len(s[j + 1]) \in Nat
            BY <2>4, <5>3
          <6> QED
            BY <6>1, <6>2, <6>3
        <5>5. \A i \in 1..P[j] : f[j + 1][i] = f[j][i]
          <6> DEFINE a == f[j]
                     b == s[j + 1]
          <6>1. a \in V /\ b \in V /\ Len(a) = P[j] /\ f[j + 1] = Cat(a, b)
            BY <5>3, <5>4
          <6> HIDE DEF a, b
          <6>2. \A i \in 1..Len(a) : Cat(a, b)[i] = a[i]
            BY <2>5, <6>1
          <6>3. \A i \in 1..P[j] : f[j + 1][i] = a[i]
            BY <6>1, <6>2
          <6> QED
            BY <6>3 DEF a
        <5> DEFINE e == P[j + 1]
        <5>6. e \in Nat /\ P[j] <= e /\ P[j] \in Nat
          <6> DEFINE d == Len(s[j + 1])
          <6>1. d \in Nat /\ e = P[j] + d /\ P[j] \in Nat
            BY <5>4
          <6> HIDE DEF d, e
          <6> QED
            BY <6>1
        <5>7. \A i \in 1..P[k] : i \in 1..P[j]
          BY <4>0, <5>2, <5>6
        <5>8. \A i \in 1..P[k] : f[j + 1][i] = f[k][i]
          BY <5>2, <5>5, <5>7
        <5>9. P[k] <= e
          BY <4>0, <5>2, <5>6
        <5> QED
          BY <5>8, <5>9
      <4> QED
        BY <4>1, <4>2
    <3> HIDE DEF T
    <3> QED
      BY <3>1, <3>2, InductionOnNat
  <2>9. \A k \in 1..n : \A i \in 1..Len(s[k]) : f[n][P[k - 1] + i] = s[k][i]
    <3> SUFFICES ASSUME NEW k \in 1..n, NEW i \in 1..Len(s[k])
                 PROVE  f[n][P[k - 1] + i] = s[k][i]
      OBVIOUS
    <3>1. /\ k - 1 \in 0..n /\ P[k - 1] \in Nat /\ P[k] = P[k - 1] + Len(s[k])
          /\ s[k] \in V /\ Len(s[k]) \in Nat
      BY <1>1, <2>4, <2>6, <2>7
    <3>2. P[k - 1] + i \in 1..P[k]
      BY <3>1
    <3>3. f[n][P[k - 1] + i] = f[k][P[k - 1] + i]
      BY <1>1, <2>2, <2>8, <3>2
    <3>4. f[k][P[k - 1] + i] = s[k][i]
      <4>1. CASE k = 1
        BY <2>3, <2>6, <4>1
      <4>2. CASE k # 1
        <5>1. k - 1 \in 1..n /\ k \in 2..n
          BY <1>1, <4>2
        <5> DEFINE a == f[k - 1]
                   b == s[k]
        <5>2. a \in V /\ b \in V /\ f[k] = Cat(a, b) /\ P[k - 1] = Len(a)
          BY <2>3, <2>6, <3>1, <5>1
        <5>3. i \in 1..Len(b)
          OBVIOUS
        <5> HIDE DEF a, b
        <5>4. Cat(a, b)[Len(a) + i] = b[i]
          BY <2>5, <5>2, <5>3
        <5> QED
          BY <5>2, <5>4 DEF b
      <4> QED
        BY <4>1, <4>2
    <3> QED
      BY <3>3, <3>4
  <2>10. n \in 1..n
    BY <1>1, <2>2
  <2>11. Len(FlattenSeq(s)) = P[n]
    BY <2>3, <2>6, <2>10
  <2>12. \A k \in 1..n : Len(s[k]) \in Nat
    BY <1>1, <2>4
  <2>13. \A k \in 1..n : \A i \in 1..Len(s[k]) : FlattenSeq(s)[P[k - 1] + i] = s[k][i]
    BY <2>3, <2>9
  <2>14. Places(s, P)
    BY <2>6, <2>7, <2>11, <2>12, <2>13 DEF Places, n
  <2> QED
    BY <2>14
<1> QED
  BY <1>2, <1>3

(* The first k + 1 are the first k and one more.                           *)
LEMMA PrefixGrows ==
  ASSUME NEW V, NEW s \in Seq(V), NEW k \in Nat, k + 1 \in 1..Len(s)
  PROVE  /\ SubSeq(s, 1, k) \in Seq(V) /\ s[k + 1] \in V
         /\ SubSeq(s, 1, k + 1) = Append(SubSeq(s, 1, k), s[k + 1])
OBVIOUS

(* A place is the length of what stands before it.                         *)
LEMMA PlacesArePrefixes ==
  ASSUME NEW V, Texts(V), NEW s \in Seq(V), NEW P, Places(s, P)
  PROVE  \A k \in 0..Len(s) : P[k] = Len(FlattenSeq(SubSeq(s, 1, k)))
<1> DEFINE Prefix(k) == FlattenSeq(SubSeq(s, 1, k))
           T == {k \in Nat : k \in 0..Len(s) => P[k] = Len(Prefix(k))}
<1>1. 0 \in T
  <2>1. SubSeq(s, 1, 0) = <<>>
    OBVIOUS
  <2>2. Prefix(0) = <<>>
    BY <2>1, FlattenEmpty
  <2>3. P[0] = 0
    BY DEF Places
  <2> QED
    BY <2>2, <2>3
<1>2. ASSUME NEW k \in Nat, k \in T PROVE k + 1 \in T
  <2> SUFFICES ASSUME k + 1 \in 1..Len(s) PROVE P[k + 1] = Len(Prefix(k + 1))
    OBVIOUS
  <2>1. P[k] = Len(Prefix(k))
    BY <1>2
  <2> DEFINE a == SubSeq(s, 1, k)
             b == s[k + 1]
             c == SubSeq(s, 1, k + 1)
  <2>2. a \in Seq(V) /\ b \in V /\ c = Append(a, b)
    BY PrefixGrows
  <2>3. P[k + 1] = P[k] + Len(b)
    <3> SUFFICES ASSUME NEW j \in 1..Len(s), j = k + 1 PROVE P[j] = P[k] + Len(s[j])
      OBVIOUS
    <3>1. j - 1 = k
      OBVIOUS
    <3> QED
      BY <3>1 DEF Places
  <2> HIDE DEF a, b, c
  <2>4. FlattenSeq(c) = Cat(FlattenSeq(a), b) /\ FlattenSeq(a) \in V
    BY <2>2, FlattenAppend, FlattenTyped
  <2>5. Len(FlattenSeq(c)) = Len(FlattenSeq(a)) + Len(b)
    BY <2>2, <2>4 DEF Texts
  <2> QED
    BY <2>1, <2>3, <2>5 DEF a, c
<1> HIDE DEF T
<1>3. \A k \in Nat : k \in T
  BY <1>1, <1>2, InductionOnNat
<1> QED
  BY <1>3 DEF T

(* Parts put after parts flatten to what they flatten to.                  *)
LEMMA FlattenCat ==
  ASSUME NEW V, Texts(V), NEW x \in Seq(V), NEW y \in Seq(V)
  PROVE  FlattenSeq(x \o y) = Cat(FlattenSeq(x), FlattenSeq(y))
<1> DEFINE pre(k) == SubSeq(y, 1, k)
           T == {k \in Nat : k <= Len(y) =>
                   FlattenSeq(x \o pre(k)) = Cat(FlattenSeq(x), FlattenSeq(pre(k)))}
<1>1. 0 \in T
  <2>1. pre(0) = <<>> /\ x \o <<>> = x
    OBVIOUS
  <2>2. FlattenSeq(x) \in V
    BY FlattenTyped
  <2>3. Cat(FlattenSeq(x), <<>>) = FlattenSeq(x)
    BY <2>2 DEF Texts
  <2> QED
    BY <2>1, <2>3, FlattenEmpty
<1>2. ASSUME NEW k \in Nat, k \in T PROVE k + 1 \in T
  <2> SUFFICES ASSUME k + 1 \in 1..Len(y)
               PROVE  FlattenSeq(x \o pre(k + 1)) = Cat(FlattenSeq(x), FlattenSeq(pre(k + 1)))
    OBVIOUS
  <2>1. FlattenSeq(x \o pre(k)) = Cat(FlattenSeq(x), FlattenSeq(pre(k)))
    BY <1>2
  <2> DEFINE a == pre(k)
             b == y[k + 1]
  <2>2. a \in Seq(V) /\ b \in V /\ pre(k + 1) = Append(a, b)
    BY PrefixGrows
  <2> HIDE DEF a, b
  <2>3. x \o Append(a, b) = Append(x \o a, b) /\ x \o a \in Seq(V)
    BY <2>2
  <2>4. /\ FlattenSeq(Append(x \o a, b)) = Cat(FlattenSeq(x \o a), b)
        /\ FlattenSeq(Append(a, b)) = Cat(FlattenSeq(a), b)
    BY <2>2, <2>3, FlattenAppend
  <2>5. FlattenSeq(x) \in V /\ FlattenSeq(a) \in V
    BY <2>2, FlattenTyped
  <2>6. Cat(Cat(FlattenSeq(x), FlattenSeq(a)), b) = Cat(FlattenSeq(x), Cat(FlattenSeq(a), b))
    BY <2>2, <2>5 DEF Texts
  <2> QED
    BY <2>1, <2>2, <2>3, <2>4, <2>6 DEF a
<1>3. \A k \in Nat : k \in T
  <2> HIDE DEF T
  <2> QED
    BY <1>1, <1>2, InductionOnNat
<1>4. pre(Len(y)) = y /\ Len(y) \in Nat
  OBVIOUS
<1>5. FlattenSeq(x \o pre(Len(y))) = Cat(FlattenSeq(x), FlattenSeq(pre(Len(y))))
  BY <1>3, <1>4
<1> HIDE DEF pre
<1> QED
  BY <1>4, <1>5

(* A sequence of numbers of which none is less than the one before it.     *)
Climbs(P, n) == P \in [0..n -> Nat] /\ \A k \in 1..n : P[k - 1] <= P[k]

(* What climbs at each step climbs from any place to any later one.        *)
LEMMA ClimbsToTheTop ==
  ASSUME NEW n \in Nat, NEW P, Climbs(P, n)
  PROVE  \A j, k \in 0..n : j <= k => P[j] <= P[k]
<1> DEFINE T == {d \in Nat : \A j \in 0..n : j + d <= n => P[j] <= P[j + d]}
<1>1. P \in [0..n -> Nat] /\ \A k \in 1..n : P[k - 1] <= P[k]
  BY DEF Climbs
<1>2. 0 \in T
  BY <1>1
<1>3. ASSUME NEW d \in Nat, d \in T PROVE d + 1 \in T
  <2> SUFFICES ASSUME NEW j \in 0..n, NEW k \in 1..n, k = j + d + 1 PROVE P[j] <= P[k]
    OBVIOUS
  <2>1. k - 1 = j + d /\ j + d <= n /\ k - 1 \in 0..n
    OBVIOUS
  <2>2. P[j] <= P[k - 1]
    BY <1>3, <2>1
  <2>3. P[k - 1] <= P[k] /\ P[j] \in Nat /\ P[k] \in Nat /\ P[k - 1] \in Nat
    BY <1>1, <2>1
  <2> QED
    BY <2>2, <2>3
<1> HIDE DEF T
<1>4. \A d \in Nat : d \in T
  BY <1>2, <1>3, InductionOnNat
<1>5. SUFFICES ASSUME NEW j \in 0..n, NEW k \in 0..n, j <= k PROVE P[j] <= P[k]
  OBVIOUS
<1>6. k - j \in Nat /\ j + (k - j) = k
  BY <1>5
<1>7. k - j \in T
  BY <1>4, <1>6
<1>8. \A i \in 0..n : i + (k - j) <= n => P[i] <= P[i + (k - j)]
  BY <1>7 DEF T
<1> QED
  BY <1>6, <1>8
-----------------------------------------------------------------------------
(* Least and greatest                                                      *)

(* A set of numbers that is not empty has a least one.                     *)
LEMMA MinIs ==
  ASSUME NEW S, S \subseteq Nat, S # {}
  PROVE  Min(S) \in S /\ \A y \in S : Min(S) <= y
<1> DEFINE T == {n \in Nat : \A x \in S : ~(x <= n)}
<1>1. \E x \in S : \A y \in S : x <= y
  <2> SUFFICES ASSUME \A x \in S : \E y \in S : ~(x <= y) PROVE FALSE
    OBVIOUS
  <2>1. 0 \in T
    <3> SUFFICES ASSUME NEW x \in S, x <= 0 PROVE FALSE
      OBVIOUS
    <3>1. x = 0
      OBVIOUS
    <3> QED
      BY <3>1
  <2>2. ASSUME NEW n \in Nat, n \in T PROVE n + 1 \in T
    <3> SUFFICES ASSUME NEW x \in S, x <= n + 1 PROVE FALSE
      OBVIOUS
    <3>1. PICK y \in S : ~(x <= y)
      OBVIOUS
    <3>2. y <= n
      <4> x \in Nat /\ y \in Nat
        OBVIOUS
      <4> QED
        BY <3>1
    <3> QED
      BY <2>2, <3>2
  <2> HIDE DEF T
  <2>3. \A n \in Nat : n \in T
    BY <2>1, <2>2, InductionOnNat
  <2>4. PICK x \in S : TRUE
    OBVIOUS
  <2>5. x \in T /\ x <= x
    BY <2>3
  <2> QED
    BY <2>5 DEF T
<1> QED
  BY <1>1 DEF Min

(* A bounded one has a greatest.                                           *)
LEMMA MaxIs ==
  ASSUME NEW S, NEW n \in Nat, S \subseteq 0..n, S # {}
  PROVE  Max(S) \in S /\ \A y \in S : y <= Max(S)
<1> DEFINE U == {n - x : x \in S}
<1>1. U \subseteq Nat /\ U # {}
  <2>1. \A x \in S : n - x \in Nat
    OBVIOUS
  <2>2. PICK x \in S : TRUE
    OBVIOUS
  <2>3. n - x \in U
    OBVIOUS
  <2> QED
    BY <2>1, <2>3
<1>2. PICK u \in U : \A y \in U : u <= y
  <2> HIDE DEF U
  <2> QED
    BY <1>1, MinIs
<1>3. n - u \in S /\ \A y \in S : n - u >= y
  <2>1. PICK x \in S : u = n - x
    OBVIOUS
  <2>2. \A y \in S : u <= n - y
    BY <1>2
  <2> QED
    BY <2>1, <2>2
<1>4. \E x \in S : \A y \in S : x >= y
  BY <1>3
<1>5. Max(S) \in S /\ \A y \in S : Max(S) >= y
  BY <1>4 DEF Max
<1> QED
  BY <1>5

-----------------------------------------------------------------------------
(* FoldLeft                                                                *)

(* The first k of n places, and the last of them.                          *)
LEMMA TopIs ==
  ASSUME NEW n \in Nat
  PROVE  /\ \A k \in 1..n : Max(1..k) = k /\ (1..k) \ {k} = 1..(k - 1) /\ 1..k # {}
         /\ \A s \in SUBSET (1..n) : s # {} =>
              Max(s) \in s /\ \A y \in s \ {Max(s)} : y < Max(s)
<1>1. ASSUME NEW s \in SUBSET (1..n), s # {}
      PROVE  Max(s) \in s /\ \A y \in s : y <= Max(s)
  <2>1. s \subseteq 0..n
    OBVIOUS
  <2> QED
    BY <1>1, <2>1, MaxIs
<1>2. ASSUME NEW k \in 1..n
      PROVE  Max(1..k) = k /\ (1..k) \ {k} = 1..(k - 1) /\ 1..k # {}
  <2>1. 1..k \in SUBSET (1..n) /\ k \in 1..k
    OBVIOUS
  <2> DEFINE s == 1..k
             x == Max(s)
  <2>2. x \in s /\ k <= x
    BY <1>1, <2>1
  <2>3. x = k
    <3> HIDE DEF x
    <3> QED
      BY <2>2
  <2> QED
    BY <2>1, <2>3
<1>3. ASSUME NEW s \in SUBSET (1..n), s # {}
      PROVE  Max(s) \in s /\ \A y \in s \ {Max(s)} : y < Max(s)
  <2> DEFINE x == Max(s)
  <2>1. x \in s /\ \A y \in s : y <= x
    BY <1>1, <1>3
  <2> HIDE DEF x
  <2>2. x \in s /\ \A y \in s \ {x} : y < x
    BY <2>1
  <2> QED
    BY <2>2 DEF x
<1> QED
  BY <1>2, <1>3

(* FoldLeft is a function on sets of places: from the last place down.     *)
Folds(n, V, base, G, c) ==
  /\ c \in [SUBSET (1..n) -> V] /\ c[{}] = base
  /\ \A s \in SUBSET (1..n) : s # {} =>
       Max(s) \in 1..n /\ c[s] = G[<<c[s \ {Max(s)}], Max(s)>>]

(* There is such a function.                                               *)
LEMMA FoldExists ==
  ASSUME NEW n \in Nat, NEW V, NEW base \in V, NEW G \in [V \X (1..n) -> V]
  PROVE  \E c : Folds(n, V, base, G, c)
<1> DEFINE D == SUBSET (1..n)
           m == [s \in D |-> IF s = {} THEN 0 ELSE Max(s)]
           E(g, s) == IF s = {} THEN base ELSE G[<<g[s \ {Max(s)}], Max(s)>>]
           F == [g \in [D -> V] |-> [s \in D |-> E(g, s)]]
<1>1. \A s \in D : s # {} => Max(s) \in s /\ \A y \in s \ {Max(s)} : y < Max(s)
  BY TopIs
<1>2. \A s \in D : s # {} => Max(s) \in 1..n /\ s \ {Max(s)} \in D
  BY <1>1
<1>3. m \in [D -> Nat]
  BY <1>2
<1>4. ASSUME NEW s \in D, s # {} PROVE m[s \ {Max(s)}] < m[s]
  <2> DEFINE r == s \ {Max(s)}
             x == Max(s)
             z == Max(r)
  <2>1. r \in D /\ x \in 1..n /\ m[s] = x /\ \A y \in r : y < x
    BY <1>1, <1>2, <1>4
  <2>2. CASE r = {}
    BY <2>1, <2>2
  <2>3. CASE r # {}
    <3>1. z \in r /\ m[r] = z
      BY <1>1, <2>1, <2>3
    <3> HIDE DEF z, x, r, m
    <3> QED
      BY <2>1, <3>1 DEF r, x
  <2> QED
    BY <2>2, <2>3
<1>5. \A g \in [D -> V] : \A s \in D : E(g, s) \in V
  BY <1>2
<1> HIDE DEF D, m
<1>6. F \in [[D -> V] -> [D -> V]] /\ \A g \in [D -> V] : \A s \in D : F[g][s] = E(g, s)
  BY <1>5
<1>7. \A g, h \in [D -> V] : \A x \in D :
        (\A y \in D : m[y] < m[x] => g[y] = h[y]) => F[g][x] = F[h][x]
  BY <1>2, <1>4, <1>6
<1>8. Descends(F, D, V, m)
  BY <1>3, <1>6, <1>7 DEF Descends
<1>9. Tells(F, D, V)
  <2>1. V # {}
    OBVIOUS
  <2> HIDE DEF F
  <2> QED
    BY <1>8, <2>1, RecursionHasFixpoint
<1>10. PICK c \in [D -> V] : c = F[c]
  BY <1>9 DEF Tells
<1>11. \A s \in D : c[s] = E(c, s)
  BY <1>6, <1>10
<1>12. {} \in D
  BY DEF D
<1>13. c[{}] = base
  BY <1>11, <1>12
<1> QED
  BY <1>2, <1>10, <1>11, <1>13 DEF D, Folds

(* f folds with G, as long as what it has folded is in V.                  *)
FoldsWith(f, n, V, base, G) ==
  /\ f[{}] = base
  /\ \A s \in SUBSET (1..n) : s # {} /\ f[s \ {Max(s)}] \in V =>
       f[s] = G[<<f[s \ {Max(s)}], Max(s)>>]

(* Then it has folded the first places of all, one after the other.        *)
FoldedInTurn(f, n, V, base, G) ==
  /\ f[1..0] = base
  /\ \A k \in 0..n : f[1..k] \in V
  /\ \A k \in 1..n : f[1..k] = G[<<f[1..(k - 1)], k>>]

(* It folds the numbers in their order.                                    *)
LEMMA FoldsInTurn ==
  ASSUME NEW n \in Nat, NEW V, NEW base \in V, NEW G \in [V \X (1..n) -> V],
         NEW f, FoldsWith(f, n, V, base, G)
  PROVE  FoldedInTurn(f, n, V, base, G)
<1>1. ASSUME NEW k \in 1..n, f[1..(k - 1)] \in V
      PROVE  f[1..k] = G[<<f[1..(k - 1)], k>>] /\ f[1..k] \in V
  <2>1. Max(1..k) = k /\ (1..k) \ {k} = 1..(k - 1) /\ 1..k # {}
    BY TopIs
  <2> DEFINE s == 1..k
             r == 1..(k - 1)
  <2>2. s \in SUBSET (1..n) /\ s # {} /\ Max(s) = k /\ s \ {k} = r /\ f[r] \in V
    BY <1>1, <2>1
  <2> HIDE DEF s, r
  <2>3. f[s] = G[<<f[r], k>>]
    BY <2>2 DEF FoldsWith
  <2>4. f[s] \in V
    BY <2>2, <2>3
  <2> QED
    BY <2>3, <2>4 DEF s, r
<1>2. 1..0 = {} /\ f[1..0] = base
  BY DEF FoldsWith
<1> DEFINE T == {k \in Nat : k <= n => f[1..k] \in V}
<1>3. 0 \in T
  BY <1>2
<1>4. ASSUME NEW k \in Nat, k \in T PROVE k + 1 \in T
  <2> SUFFICES ASSUME k + 1 <= n PROVE f[1..(k + 1)] \in V
    OBVIOUS
  <2> DEFINE m == k + 1
  <2>1. m \in 1..n /\ m - 1 = k /\ f[1..k] \in V
    BY <1>4
  <2> HIDE DEF m
  <2>2. f[1..m] \in V
    BY <1>1, <2>1
  <2> QED
    BY <2>2 DEF m
<1>5. \A k \in Nat : k \in T
  <2> HIDE DEF T
  <2> QED
    BY <1>3, <1>4, InductionOnNat
<1>6. \A k \in 0..n : f[1..k] \in V
  BY <1>5
<1>7. \A k \in 1..n : f[1..k] = G[<<f[1..(k - 1)], k>>]
  <2> SUFFICES ASSUME NEW k \in 1..n PROVE f[1..k] = G[<<f[1..(k - 1)], k>>]
    OBVIOUS
  <2> DEFINE j == k - 1
  <2>1. j \in 0..n
    OBVIOUS
  <2> HIDE DEF j
  <2>2. f[1..j] \in V
    BY <1>6, <2>1
  <2> QED
    BY <1>1, <2>2 DEF j
<1> QED
  BY <1>2, <1>6, <1>7 DEF FoldedInTurn

-----------------------------------------------------------------------------
(* Sums                                                                   *)

(* What a sum over a set is: f adds up the values of w.                    *)
Adds(w, S, f) ==
  f = [s \in SUBSET S |->
         IF s = {} THEN 0 ELSE w[CHOOSE x \in s : TRUE] + f[s \ {CHOOSE x \in s : TRUE}]]

(* There is such a function, for every finite set.                         *)
LEMMA AddsExists ==
  ASSUME NEW S, IsFiniteSet(S), NEW w \in [S -> Nat] PROVE \E f : Adds(w, S, f)
<1> DEFINE D == SUBSET S
           V == Nat
           ch(s) == CHOOSE x \in s : TRUE
           m == [s \in D |-> Cardinality(s)]
           E(g, s) == IF s = {} THEN 0 ELSE w[ch(s)] + g[s \ {ch(s)}]
           F == [g \in [D -> V] |-> [s \in D |-> E(g, s)]]
<1>1. \A s \in D : s # {} => ch(s) \in s /\ ch(s) \in S /\ s \ {ch(s)} \in D
  OBVIOUS
<1> HIDE DEF ch
<1>2. \A s \in D : IsFiniteSet(s) /\ Cardinality(s) \in Nat
  BY FS_Subset, FS_CardinalityType
<1>3. ASSUME NEW s \in D, s # {} PROVE Cardinality(s \ {ch(s)}) < Cardinality(s)
  <2>1. Cardinality(s \ {ch(s)}) = Cardinality(s) - 1
    BY <1>1, <1>2, <1>3, FS_RemoveElement
  <2> QED
    BY <1>2, <2>1
<1>4. \A g \in [D -> V] : \A s \in D : E(g, s) \in V
  BY <1>1
<1>5. m \in [D -> Nat] /\ \A s \in D : s # {} => m[s \ {ch(s)}] < m[s]
  BY <1>1, <1>2, <1>3
<1> HIDE DEF D, m
<1>6. F \in [[D -> V] -> [D -> V]] /\ \A g \in [D -> V] : \A s \in D : F[g][s] = E(g, s)
  BY <1>4
<1> HIDE DEF F
<1>7. ASSUME NEW g \in [D -> V], NEW h \in [D -> V], NEW x \in D,
             \A y \in D : m[y] < m[x] => g[y] = h[y]
      PROVE  F[g][x] = F[h][x]
  <2>1. x # {} => x \ {ch(x)} \in D /\ g[x \ {ch(x)}] = h[x \ {ch(x)}]
    BY <1>5, <1>7, <1>1 DEF D
  <2>2. E(g, x) = E(h, x)
    BY <2>1
  <2> HIDE DEF E
  <2> QED
    BY <1>6, <2>2
<1>8. Descends(F, D, V, m)
  BY <1>5, <1>6, <1>7 DEF Descends
<1>9. Tells(F, D, V)
  <2>1. V # {}
    OBVIOUS
  <2> HIDE DEF V
  <2> QED
    BY <1>8, <2>1, RecursionHasFixpoint
<1>10. PICK g \in [D -> V] : g = F[g]
  BY <1>9 DEF Tells
<1>11. \A s \in D : g[s] = E(g, s)
  BY <1>6, <1>10
<1>12. g = [s \in D |-> E(g, s)]
  BY <1>10, <1>11
<1>13. Adds(w, S, g)
  BY <1>12 DEF Adds, D, ch
<1> QED
  BY <1>13

(* In whatever order: each element counts once.                            *)
AddsUp(w, S, f) ==
  /\ f[{}] = 0
  /\ \A s \in SUBSET S : f[s] \in Nat
  /\ \A s \in SUBSET S : \A x \in s : f[s] = w[x] + f[s \ {x}]

(* It adds up in every order.                                              *)
LEMMA AddsEach ==
  ASSUME NEW S, IsFiniteSet(S), NEW w \in [S -> Nat], NEW f, Adds(w, S, f)
  PROVE  AddsUp(w, S, f)
<1> DEFINE D == SUBSET S
           ch(s) == CHOOSE x \in s : TRUE
           Each(s) == f[s] \in Nat /\ \A x \in s : f[s] = w[x] + f[s \ {x}]
           T == {n \in Nat : \A s \in D : Cardinality(s) <= n => Each(s)}
<1>1. \A s \in D : s # {} => ch(s) \in s /\ s \ {ch(s)} \in D
  OBVIOUS
<1>2. f[{}] = 0
  BY DEF Adds
<1>3. \A s \in D : s # {} => f[s] = w[ch(s)] + f[s \ {ch(s)}]
  BY DEF Adds
<1> HIDE DEF ch
<1>4. \A s \in D : /\ IsFiniteSet(s) /\ Cardinality(s) \in Nat /\ (Cardinality(s) = 0 <=> s = {})
  BY FS_Subset, FS_CardinalityType, FS_EmptySet
<1>5. \A s \in D : \A x \in s : s \ {x} \in D /\ Cardinality(s \ {x}) = Cardinality(s) - 1 /\ x \in S
  BY <1>4, FS_RemoveElement
<1>6. \A s \in D : \A x, y \in s : (s \ {x}) \ {y} = (s \ {y}) \ {x}
  OBVIOUS
<1> HIDE DEF D
<1>7. 0 \in T
  <2>1. {} \in D /\ Each({})
    BY <1>2 DEF D
  <2>2. \A s \in D : Cardinality(s) <= 0 => s = {}
    BY <1>4
  <2> QED
    BY <2>1, <2>2
<1>8. ASSUME NEW n \in Nat, n \in T PROVE n + 1 \in T
  <2> SUFFICES ASSUME NEW s \in D, Cardinality(s) <= n + 1 PROVE Each(s)
    OBVIOUS
  <2>1. CASE s = {}
    BY <1>2, <2>1
  <2>2. CASE s # {}
    <3> DEFINE y == ch(s)
    <3>1. y \in s
      BY <1>1, <2>2
    <3> HIDE DEF y
    <3>2. \A x \in s : s \ {x} \in D /\ Cardinality(s \ {x}) <= n
      BY <1>4, <1>5
    <3>3. \A x \in s : Each(s \ {x})
      BY <1>8, <3>2
    <3>4. f[s] = w[y] + f[s \ {y}] /\ w[y] \in Nat /\ f[s \ {y}] \in Nat
      BY <1>3, <1>5, <2>2, <3>1, <3>3 DEF y
    <3>5. ASSUME NEW x \in s, x # y PROVE f[s] = w[x] + f[s \ {x}]
      <4>1. x \in s \ {y} /\ y \in s \ {x}
        BY <3>1, <3>5
      <4> DEFINE r == (s \ {x}) \ {y}
      <4>2. f[s \ {y}] = w[x] + f[(s \ {y}) \ {x}]
        BY <3>1, <3>3, <4>1
      <4>3. f[s \ {x}] = w[y] + f[r]
        BY <3>3, <4>1
      <4>4. (s \ {y}) \ {x} = r
        BY <1>6, <3>1
      <4>5. r \in D /\ Cardinality(r) <= n
        <5>1. s \ {x} \in D /\ Cardinality(s \ {x}) <= n
          BY <3>2
        <5>2. r \in D /\ Cardinality(r) = Cardinality(s \ {x}) - 1
          BY <1>5, <4>1, <5>1
        <5> QED
          BY <1>4, <5>1, <5>2
      <4>6. f[r] \in Nat /\ w[x] \in Nat
        BY <1>5, <1>8, <4>5
      <4> HIDE DEF r
      <4> QED
        BY <3>4, <4>2, <4>3, <4>4, <4>6
    <3>6. f[s] \in Nat
      BY <3>4
    <3>7. \A x \in s : f[s] = w[x] + f[s \ {x}]
      BY <3>4, <3>5
    <3> QED
      BY <3>6, <3>7
  <2> QED
    BY <2>1, <2>2
<1>9. \A n \in Nat : n \in T
  <2> HIDE DEF T
  <2> QED
    BY <1>7, <1>8, InductionOnNat
<1>10. \A s \in D : Each(s)
  BY <1>4, <1>9
<1> QED
  BY <1>2, <1>10 DEF D, AddsUp

(* The same over any larger set.                                           *)
LEMMA AddsAlike ==
  ASSUME NEW R, NEW S, R \subseteq S, IsFiniteSet(S), NEW w \in [S -> Nat], NEW v \in [R -> Nat],
         \A x \in R : v[x] = w[x], NEW f, NEW g, Adds(w, S, f), Adds(v, R, g)
  PROVE  \A s \in SUBSET R : f[s] = g[s]
<1>0. IsFiniteSet(R)
  BY FS_Subset
<1>a. AddsUp(w, S, f) /\ AddsUp(v, R, g)
  BY <1>0, AddsEach
<1>1. /\ f[{}] = 0 /\ \A s \in SUBSET S : \A x \in s : f[s] = w[x] + f[s \ {x}]
      /\ g[{}] = 0 /\ \A s \in SUBSET R : \A x \in s : g[s] = v[x] + g[s \ {x}]
  BY <1>a DEF AddsUp
<1> DEFINE D == SUBSET R
           T == {n \in Nat : \A s \in D : Cardinality(s) <= n => f[s] = g[s]}
<1>2. \A s \in D : /\ IsFiniteSet(s) /\ Cardinality(s) \in Nat /\ (Cardinality(s) = 0 <=> s = {})
  BY <1>0, FS_Subset, FS_CardinalityType, FS_EmptySet
<1>3. \A s \in D : \A x \in s : /\ s \ {x} \in D /\ Cardinality(s \ {x}) = Cardinality(s) - 1
                                /\ x \in R /\ s \in SUBSET S
  BY <1>2, FS_RemoveElement
<1>4. \A s \in D : \A x \in s : f[s] = w[x] + f[s \ {x}] /\ g[s] = v[x] + g[s \ {x}] /\ v[x] = w[x]
  BY <1>1, <1>3
<1> HIDE DEF D
<1>5. 0 \in T
  <2>1. \A s \in D : Cardinality(s) <= 0 => s = {}
    BY <1>2
  <2> QED
    BY <1>1, <2>1
<1>6. ASSUME NEW n \in Nat, n \in T PROVE n + 1 \in T
  <2> SUFFICES ASSUME NEW s \in D, Cardinality(s) <= n + 1 PROVE f[s] = g[s]
    OBVIOUS
  <2>1. CASE s = {}
    BY <1>1, <2>1
  <2>2. CASE s # {}
    <3>1. PICK x \in s : TRUE
      BY <2>2
    <3>2. s \ {x} \in D /\ Cardinality(s \ {x}) <= n
      BY <1>2, <1>3
    <3>3. f[s \ {x}] = g[s \ {x}]
      BY <1>6, <3>2
    <3> QED
      BY <1>4, <3>3
  <2> QED
    BY <2>1, <2>2
<1>7. \A n \in Nat : n \in T
  <2> HIDE DEF T
  <2> QED
    BY <1>5, <1>6, InductionOnNat
<1> QED
  BY <1>2, <1>7 DEF D

(* Of one element less.                                                    *)
OneLess(R, S, b) == b \in S /\ R = S \ {b}

(* Where two weights are the same.                                         *)
SameOn(R, v, w) == \A x \in R : v[x] = w[x]

(* Two sums that differ by one element.                                    *)
LEMMA AddsOne ==
  ASSUME NEW S, NEW R, NEW b, IsFiniteSet(S), NEW w \in [S -> Nat], NEW v \in [R -> Nat],
         NEW f, NEW g, Adds(w, S, f), Adds(v, R, g), OneLess(R, S, b),
         SameOn(R, v, w)
  PROVE  f[S] = w[b] + g[R] /\ g[R] \in Nat
<1>0. b \in S /\ R = S \ {b}
  BY DEF OneLess
<1>1. IsFiniteSet(R) /\ R \subseteq S /\ S \in SUBSET S /\ R \in SUBSET R
  BY <1>0, FS_Subset
<1>2. AddsUp(w, S, f) /\ AddsUp(v, R, g)
  BY <1>1, AddsEach
<1>3. f[R] = g[R]
  <2>1. \A s \in SUBSET R : f[s] = g[s]
    BY <1>1, AddsAlike DEF SameOn
  <2> QED
    BY <1>1, <2>1
<1>4. f[S] = w[b] + f[S \ {b}]
  BY <1>0, <1>1, <1>2 DEF AddsUp
<1>5. g[R] \in Nat
  BY <1>1, <1>2 DEF AddsUp
<1> QED
  BY <1>0, <1>3, <1>4, <1>5
=============================================================================
