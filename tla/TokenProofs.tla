------------------------------ MODULE TokenProofs ------------------------------
(***************************************************************************)
(* Proofs about the two ends of the network, where tokens go in and come   *)
(* out: encode keeps the text and ends in the symbols of the reference,    *)
(* for every vocabulary, merge table and text, and sample draws from the   *)
(* nucleus, for all logits, histories and weights.  They are about values  *)
(* that the code computes in a loop, which the models define by recursion  *)
(* over numbers.                                                           *)
(***************************************************************************)
EXTENDS Tokenizer, Sampler, SequenceTheorems, FiniteSetTheorems,
        WellFoundedInduction, TLAPS

-----------------------------------------------------------------------------
(* Induction *)

Less == OpToRel(<, Nat)

LEMMA LessDef == \A a, b \in Nat : <<a, b>> \in Less <=> a < b
BY DEF Less, OpToRel

LEMMA LessWF == IsWellFoundedOn(Less, Nat)
BY NatLessThanWellFounded DEF Less

\* Induction over a set of numbers.
LEMMA SetInduction ==
    ASSUME NEW S, 0 \in S, \A j \in Nat : j \in S => j + 1 \in S
    PROVE  Nat \subseteq S
<1>1. SUFFICES ASSUME Nat \ S # {} PROVE FALSE
  OBVIOUS
<1>2. PICK x \in Nat \ S : \A y \in Nat \ S : ~(<<y, x>> \in Less)
  <2>1. Nat \ S \subseteq Nat
    OBVIOUS
  <2> QED BY <1>1, <2>1, LessWF, WFMin
<1>3. x # 0 /\ x - 1 \in Nat
  OBVIOUS
<1>4. ASSUME x - 1 \notin S PROVE FALSE
  <2>1. x - 1 \in Nat \ S /\ x - 1 < x
    BY <1>3, <1>4
  <2>2. <<x - 1, x>> \in Less
    BY <1>3, <2>1, LessDef
  <2> QED BY <1>2, <2>1, <2>2
<1> QED BY <1>3, <1>4

\* A set of numbers that is not empty has a least.
LEMMA LeastExists ==
    ASSUME NEW S \in SUBSET Nat, S # {}
    PROVE  \E x \in S : \A y \in S : x <= y
<1>1. PICK x \in S : \A y \in S : ~(<<y, x>> \in Less)
  BY LessWF, WFMin
<1>2. ASSUME NEW y \in S PROVE x <= y
  <2>1. x \in Nat /\ y \in Nat /\ ~(y < x)
    BY <1>1, LessDef
  <2> QED BY <2>1
<1> QED BY <1>2

\* The numbers in the range of a function on 0 .. n have a greatest.
LEMMA GreatestExists ==
    ASSUME NEW n \in Nat, NEW f \in [0 .. n -> Int]
    PROVE  \E t \in 0 .. n : \A u \in 0 .. n : f[t] >= f[u]
<1> DEFINE S == {j \in Nat : j <= n =>
                    \E t \in 0 .. j : \A u \in 0 .. j : f[t] >= f[u]}
<1>1. 0 \in S
  OBVIOUS
<1>2. ASSUME NEW j \in Nat, j \in S PROVE j + 1 \in S
  <2>1. SUFFICES ASSUME j + 1 <= n
                 PROVE  \E t \in 0 .. j + 1 : \A u \in 0 .. j + 1 : f[t] >= f[u]
    OBVIOUS
  <2>2. PICK t \in 0 .. j : \A u \in 0 .. j : f[t] >= f[u]
    BY <1>2, <2>1
  <2>3. CASE f[t] >= f[j + 1]
    <3>1. \A u \in 0 .. j + 1 : f[t] >= f[u]
      BY <2>2, <2>3
    <3> QED BY <3>1
  <2>4. CASE ~(f[t] >= f[j + 1])
    <3>1. \A u \in 0 .. j + 1 : f[j + 1] >= f[u]
      BY <2>1, <2>2, <2>4
    <3> QED BY <3>1
  <2> QED BY <2>3, <2>4
<1> HIDE DEF S
<1>3. Nat \subseteq S
  BY <1>1, <1>2, SetInduction
<1>4. n \in S
  BY <1>3
<1> QED BY <1>4 DEF S

\* f starts with start and goes on by the steps F.
Iterates(f, V, start, F, n) ==
    /\ f \in [0 .. n -> V] /\ f[0] = start
    /\ \A k \in 1 .. n : f[k] = F[k][f[k - 1]]

\* What is defined by recursion over 0 .. n exists: step k takes a value of V
\* to a value of V.
LEMMA IterationExists ==
    ASSUME NEW n \in Nat, NEW V, NEW start \in V, NEW F \in [1 .. n -> [V -> V]]
    PROVE  \E f : Iterates(f, V, start, F, n)
<1> DEFINE Upto(f, j) == Iterates(f, V, start, F, j)
           S == {j \in Nat : j <= n => \E f : Upto(f, j)}
<1>1. 0 \in S
  <2>1. Upto([k \in 0 .. 0 |-> start], 0)
    BY DEF Iterates
  <2> QED BY <2>1
<1>2. ASSUME NEW j \in Nat, j \in S PROVE j + 1 \in S
  <2>1. SUFFICES ASSUME j + 1 <= n PROVE \E f : Upto(f, j + 1)
    OBVIOUS
  <2>2. PICK f : Upto(f, j)
    BY <1>2, <2>1
  <2> DEFINE g == [k \in 0 .. j + 1 |-> IF k <= j THEN f[k] ELSE F[j + 1][f[j]]]
  <2>3. f[j] \in V /\ F[j + 1] \in [V -> V]
    BY <2>1, <2>2 DEF Iterates
  <2>4. F[j + 1][f[j]] \in V
    BY <2>3
  <2>5. g \in [0 .. j + 1 -> V] /\ g[0] = start
    BY <2>2, <2>4 DEF Iterates
  <2>6. ASSUME NEW k \in 1 .. j + 1 PROVE g[k] = F[k][g[k - 1]]
    <3>1. CASE k <= j
      BY <2>2, <3>1 DEF Iterates
    <3>2. CASE k = j + 1
      BY <3>2
    <3> QED BY <3>1, <3>2
  <2>7. Upto(g, j + 1)
    BY <2>5, <2>6 DEF Iterates
  <2> QED BY <2>7
<1> HIDE DEF S
<1>3. Nat \subseteq S
  BY <1>1, <1>2, SetInduction
<1>4. n \in S
  BY <1>3
<1>5. PICK f : Upto(f, n)
  BY <1>4 DEF S
<1> QED BY <1>5
-----------------------------------------------------------------------------
(* Sequences of texts, put together *)

Words == Seq(Nat)

\* g piles up the words of s.
Piles(g, s) == /\ g \in [0 .. Len(s) -> Words] /\ g[0] = <<>>
               /\ \A k \in 1 .. Len(s) : g[k] = g[k - 1] \o s[k]

LEMMA FunctionIsSeq ==
    ASSUME NEW S, NEW n \in Nat, NEW f \in [1 .. n -> S]
    PROVE  f \in Seq(S) /\ Len(f) = n
OBVIOUS

LEMMA ByteIsNat == \A x \in 0 .. 255 : x \in Nat
OBVIOUS

LEMMA SingleIsWord ==
    ASSUME NEW x \in Nat
    PROVE  <<x>> \in Words /\ Len(<<x>>) = 1 /\ <<x>>[1] = x
BY DEF Words

LEMMA Joined ==
    ASSUME NEW a \in Words, NEW b \in Words
    PROVE  a \o b \in Words /\ a \o <<>> = a /\ <<>> \o a = a
BY ConcatProperties, ConcatEmptySeq DEF Words

LEMMA JoinedTwice ==
    ASSUME NEW a \in Words, NEW b \in Words, NEW c \in Words
    PROVE  (a \o b) \o c = a \o (b \o c)
BY ConcatAssociative DEF Words

LEMMA PileExists ==
    ASSUME NEW s \in Seq(Words)
    PROVE  \E g : Piles(g, s)
<1> DEFINE n == Len(s)
           F == [k \in 1 .. n |-> [x \in Words |-> x \o s[k]]]
<1>1. /\ n \in Nat /\ <<>> \in Words
      /\ \A k \in 1 .. n : s[k] \in Words
  BY LenProperties, EmptySeq DEF Words
<1>2. F \in [1 .. n -> [Words -> Words]]
  BY <1>1, Joined
<1>3. PICK g : Iterates(g, Words, <<>>, F, n)
  <2> HIDE DEF F, n
  <2> QED BY <1>1, <1>2, IterationExists
<1>4. ASSUME NEW k \in 1 .. n PROVE g[k] = g[k - 1] \o s[k]
  <2>1. g[k - 1] \in Words /\ g[k] = F[k][g[k - 1]]
    <3> HIDE DEF F, n
    <3> QED BY <1>1, <1>3 DEF Iterates
  <2> QED BY <2>1
<1>5. Piles(g, s)
  BY <1>3, <1>4 DEF Iterates, Piles
<1> QED BY <1>5

\* FlattenSeq is where the pile ends.
LEMMA FlattenIsPile ==
    ASSUME NEW s \in Seq(Words), NEW g, Piles(g, s)
    PROVE  FlattenSeq(s) = g[Len(s)]
<1> DEFINE n == Len(s)
           Body(u) == [i \in 1 .. n |-> IF i = 1 THEN s[i] ELSE u[i - 1] \o s[i]]
           u == CHOOSE u : u = Body(u)
           f == [i \in 1 .. n |-> g[i]]
<1>1. /\ n \in Nat /\ \A k \in 1 .. n : s[k] \in Words
      /\ n = 0 => s = <<>>
  BY LenProperties, EmptySeq DEF Words
<1>2. CASE n = 0
  BY <1>1, <1>2 DEF FlattenSeq, Piles
<1>3. CASE n # 0
  <2>1. FlattenSeq(s) = u[n]
    BY <1>3 DEF FlattenSeq
  <2>2. ASSUME NEW i \in 1 .. n
        PROVE  g[i] = IF i = 1 THEN s[i] ELSE g[i - 1] \o s[i]
    <3>1. g[i] = g[i - 1] \o s[i] /\ g[0] = <<>>
      BY DEF Piles
    <3>2. s[i] \in Words
      BY <1>1
    <3>3. <<>> \o s[i] = s[i]
      BY <3>2, Joined
    <3>4. CASE i = 1
      <4>1. g[i - 1] = <<>>
        BY <3>1, <3>4
      <4> QED BY <3>1, <3>3, <3>4, <4>1
    <3> QED BY <3>1, <3>4
  <2>3. f = Body(f)
    BY <1>1, <2>2
  <2>4. u = Body(u)
    <3> HIDE DEF Body, f
    <3> QED BY <2>3
  <2> HIDE DEF u
  <2>5. \A i \in 1 .. n : u[i] = IF i = 1 THEN s[i] ELSE u[i - 1] \o s[i]
    BY <2>4
  <2> DEFINE I == {j \in Nat : j + 1 <= n => u[j + 1] = g[j + 1]}
  <2>6. 0 \in I
    BY <1>1, <1>3, <2>2, <2>5
  <2>7. ASSUME NEW j \in Nat, j \in I PROVE j + 1 \in I
    <3>1. SUFFICES ASSUME j + 1 + 1 <= n PROVE u[j + 1 + 1] = g[j + 1 + 1]
      OBVIOUS
    <3>2. /\ j + 2 \in 1 .. n /\ j + 2 # 1 /\ (j + 2) - 1 = j + 1
          /\ j + 1 + 1 = j + 2
      BY <1>1, <3>1
    <3>3. u[j + 1] = g[j + 1]
      BY <1>1, <2>7, <3>1
    <3> QED BY <2>2, <2>5, <3>2, <3>3
  <2> HIDE DEF I
  <2>8. Nat \subseteq I
    BY <2>6, <2>7, SetInduction
  <2>9. n - 1 \in I /\ (n - 1) + 1 = n
    BY <1>1, <1>3, <2>8
  <2>10. u[n] = g[n]
    BY <1>1, <2>9 DEF I
  <2> QED BY <2>1, <2>10
<1> QED BY <1>2, <1>3

LEMMA FlattenType ==
    ASSUME NEW s \in Seq(Words)
    PROVE  FlattenSeq(s) \in Words
<1>1. PICK g : Piles(g, s)
  BY PileExists
<1>2. Len(s) \in 0 .. Len(s) /\ FlattenSeq(s) = g[Len(s)]
  BY <1>1, FlattenIsPile, LenProperties
<1> QED BY <1>1, <1>2 DEF Piles

\* Two lists of words are put together one after the other.
LEMMA FlattenConcat ==
    ASSUME NEW s \in Seq(Words), NEW t \in Seq(Words)
    PROVE  FlattenSeq(s \o t) = FlattenSeq(s) \o FlattenSeq(t)
<1> DEFINE m == Len(s)
           n == Len(t)
<1>1. PICK g : Piles(g, s)
  BY PileExists
<1>2. PICK h : Piles(h, t)
  BY PileExists
<1> DEFINE p == [k \in 0 .. m + n |-> IF k <= m THEN g[k] ELSE g[m] \o h[k - m]]
<1>3. /\ m \in Nat /\ n \in Nat
      /\ s \o t \in Seq(Words) /\ Len(s \o t) = m + n
      /\ \A k \in 1 .. m + n : (s \o t)[k] = IF k <= m THEN s[k] ELSE t[k - m]
  BY LenProperties, ConcatProperties
<1>4. /\ g \in [0 .. m -> Words] /\ g[0] = <<>>
      /\ \A k \in 1 .. m : g[k] = g[k - 1] \o s[k]
      /\ h \in [0 .. n -> Words] /\ h[0] = <<>>
      /\ \A k \in 1 .. n : h[k] = h[k - 1] \o t[k]
  BY <1>1, <1>2 DEF Piles
<1>5. \A k \in 1 .. n : t[k] \in Words
  BY LenProperties
<1> HIDE DEF m, n
<1>6. /\ \A k \in 0 .. m : g[k] \in Words
      /\ \A k \in 0 .. n : h[k] \in Words
      /\ g[m] \in Words
  BY <1>3, <1>4
<1>7. ASSUME NEW k \in 0 .. m + n PROVE p[k] \in Words
  <2>1. CASE k <= m
    BY <1>3, <1>6, <2>1
  <2>2. CASE ~(k <= m)
    <3>0. k - m \in 0 .. n
      BY <1>3, <2>2
    <3>1. k - m \in 0 .. n /\ p[k] = g[m] \o h[k - m]
      BY <2>2, <3>0
    <3>2. h[k - m] \in Words
      BY <1>6, <3>1
    <3> QED BY <1>6, <3>1, <3>2, Joined
  <2> QED BY <2>1, <2>2
<1>8. p[0] = <<>>
  BY <1>3, <1>4
<1>9. ASSUME NEW k \in 1 .. m + n PROVE p[k] = p[k - 1] \o (s \o t)[k]
  <2>1. CASE k <= m
    <3>1. k \in 1 .. m /\ p[k] = g[k] /\ p[k - 1] = g[k - 1]
      BY <1>3, <2>1
    <3> QED BY <1>3, <1>4, <2>1, <3>1
  <2>2. CASE ~(k <= m)
    <3>1. /\ k - m \in 1 .. n /\ (k - m) - 1 \in 0 .. n
          /\ (k - 1) - m = (k - m) - 1
      BY <1>3, <2>2
    <3>2. (s \o t)[k] = t[k - m] /\ h[k - m] = h[(k - m) - 1] \o t[k - m]
      BY <1>3, <1>4, <2>2, <3>1
    <3>3. p[k] = g[m] \o h[k - m]
      <4>1. k \in 0 .. m + n
        BY <1>3
      <4> QED BY <2>2, <4>1
    <3>4. p[k - 1] = g[m] \o h[(k - m) - 1]
      <4>1. CASE k - 1 = m
        <5>1. p[k - 1] = g[m] /\ (k - m) - 1 = 0
          BY <1>3, <4>1
        <5>2. g[m] \o <<>> = g[m]
          BY <1>6, Joined
        <5> QED BY <1>4, <5>1, <5>2
      <4>2. CASE k - 1 # m
        <5>1. ~(k - 1 <= m) /\ k - 1 \in 0 .. m + n
          BY <1>3, <2>2, <4>2
        <5> QED BY <3>1, <5>1
      <4> QED BY <4>1, <4>2
    <3>5. /\ h[(k - m) - 1] \in Words /\ t[k - m] \in Words
      BY <1>5, <1>6, <3>1
    <3>6. (g[m] \o h[(k - m) - 1]) \o t[k - m] =
            g[m] \o (h[(k - m) - 1] \o t[k - m])
      <4> DEFINE a == g[m]
                 b == h[(k - m) - 1]
                 c == t[k - m]
      <4>1. a \in Words /\ b \in Words /\ c \in Words
        BY <1>6, <3>5
      <4> HIDE DEF a, b, c
      <4>2. (a \o b) \o c = a \o (b \o c)
        BY <4>1, JoinedTwice
      <4> QED BY <4>2 DEF a, b, c
    <3> QED BY <3>2, <3>3, <3>4, <3>6
  <2> QED BY <2>1, <2>2
<1>10. p \in [0 .. m + n -> Words]
  BY <1>7
<1>11. Piles(p, s \o t)
  <2> HIDE DEF p
  <2> QED BY <1>3, <1>8, <1>9, <1>10 DEF Piles
<1>12. FlattenSeq(s \o t) = p[m + n]
  <2> HIDE DEF p
  <2> QED BY <1>3, <1>11, FlattenIsPile
<1>13. FlattenSeq(s) = g[m] /\ FlattenSeq(t) = h[n]
  BY <1>1, <1>2, FlattenIsPile DEF m, n
<1>14. p[m + n] = g[m] \o h[n]
  <2>1. CASE n = 0
    <3>1. p[m + n] = g[m] /\ h[n] = <<>>
      BY <1>3, <1>4, <2>1
    <3> QED BY <1>6, <3>1, Joined
  <2>2. CASE n # 0
    <3>1. ~(m + n <= m) /\ m + n \in 0 .. m + n /\ (m + n) - m = n
      BY <1>3, <2>2
    <3> QED BY <3>1
  <2> QED BY <2>1, <2>2
<1> QED BY <1>12, <1>13, <1>14

\* One word ...
LEMMA FlattenOne ==
    ASSUME NEW w \in Words
    PROVE  /\ <<w>> \in Seq(Words) /\ FlattenSeq(<<w>>) = w
<1> DEFINE g == [k \in 0 .. 1 |-> IF k = 0 THEN <<>> ELSE w]
<1>1. <<w>> \in Seq(Words) /\ Len(<<w>>) = 1 /\ <<w>>[1] = w
  OBVIOUS
<1>2. <<>> \in Words /\ <<>> \o w = w
  BY Joined, EmptySeq DEF Words
<1>3. Piles(g, <<w>>)
  <2>1. g \in [0 .. 1 -> Words] /\ g[0] = <<>> /\ g[1] = w
    BY <1>2
  <2>2. \A k \in 1 .. 1 : k = 1 /\ k - 1 = 0
    OBVIOUS
  <2> HIDE DEF g
  <2> QED BY <1>1, <1>2, <2>1, <2>2 DEF Piles
<1>4. FlattenSeq(<<w>>) = g[1]
  <2> HIDE DEF g
  <2> QED BY <1>1, <1>3, FlattenIsPile
<1> QED BY <1>1, <1>4

\* ... and none.
LEMMA FlattenNone == FlattenSeq(<<>>) = <<>>
BY DEF FlattenSeq
-----------------------------------------------------------------------------
(* Joining two neighbours *)

LEMMA JoinedElements ==
    ASSUME syms \in Seq(Words), NEW k \in 1 .. Len(syms) - 1
    PROVE  /\ JoinedAt(k) \in Seq(Words) /\ Len(JoinedAt(k)) = Len(syms) - 1
           /\ \A i \in 1 .. Len(syms) - 1 :
                 JoinedAt(k)[i] = IF i < k THEN syms[i]
                                  ELSE IF i = k THEN syms[k] \o syms[k + 1]
                                  ELSE syms[i + 1]
<1> DEFINE n == Len(syms)
           x == syms[k] \o syms[k + 1]
           e == [syms EXCEPT ![k] = x]
           a == SubSeq(e, 1, k)
           b == SubSeq(e, k + 2, n)
<1>1. n \in Nat /\ k \in 1 .. n /\ k + 1 \in 1 .. n
  BY LenProperties
<1>2. \A i \in 1 .. n : syms[i] \in Words
  BY LenProperties
<1>3. x \in Words
  BY <1>1, <1>2, Joined
<1> HIDE DEF x
<1>4. /\ e \in Seq(Words) /\ Len(e) = n
      /\ \A i \in 1 .. n : e[i] = IF i = k THEN x ELSE syms[i]
  BY <1>1, <1>3, ExceptSeq
<1>5. \A i \in 1 .. n : e[i] \in Words
  BY <1>2, <1>3, <1>4
<1>6. JoinedAt(k) = a \o b
  <2>1. (k + 1) - 1 = k /\ (k + 1) + 1 = k + 2
    BY <1>1
  <2> QED BY <1>4, <2>1 DEF JoinedAt, RemoveAt, x
<1> HIDE DEF e, n
<1>7. /\ a \in Seq(Words) /\ Len(a) = k
      /\ \A i \in 1 .. k : a[i] = e[i]
  <2>1. \A i \in 1 .. k : e[i] \in Words
    BY <1>1, <1>5
  <2>2. /\ a \in Seq(Words) /\ Len(a) = IF 1 <= k THEN k - 1 + 1 ELSE 0
        /\ \A i \in 1 .. k - 1 + 1 : a[i] = e[1 + i - 1]
    BY <1>1, <2>1, SubSeqProperties
  <2> QED BY <1>1, <2>2
<1>8. /\ b \in Seq(Words) /\ Len(b) = n - 1 - k
      /\ \A i \in 1 .. n - 1 - k : b[i] = e[k + 1 + i]
  <2>1. \A i \in k + 2 .. n : e[i] \in Words
    BY <1>1, <1>5
  <2>2. /\ b \in Seq(Words)
        /\ Len(b) = IF k + 2 <= n THEN n - (k + 2) + 1 ELSE 0
        /\ \A i \in 1 .. n - (k + 2) + 1 : b[i] = e[k + 2 + i - 1]
    BY <1>1, <2>1, SubSeqProperties
  <2>3. /\ n - (k + 2) + 1 = n - 1 - k
        /\ \A i \in 1 .. n : k + 2 + i - 1 = k + 1 + i
    BY <1>1
  <2>4. Len(b) = n - 1 - k
    BY <1>1, <2>2
  <2>5. ASSUME NEW i \in 1 .. n - 1 - k PROVE b[i] = e[k + 1 + i]
    <3>1. i \in 1 .. n - (k + 2) + 1 /\ k + 2 + i - 1 = k + 1 + i
      BY <1>1, <2>3
    <3>2. b[i] = e[k + 2 + i - 1]
      BY <2>2, <3>1
    <3> QED BY <3>1, <3>2
  <2> QED BY <2>2, <2>4, <2>5
<1> HIDE DEF a, b
<1>9. /\ a \o b \in Seq(Words) /\ Len(a \o b) = n - 1
      /\ \A i \in 1 .. n - 1 : (a \o b)[i] = IF i <= k THEN a[i] ELSE b[i - k]
  <2>1. /\ a \o b \in Seq(Words) /\ Len(a \o b) = Len(a) + Len(b)
        /\ \A i \in 1 .. Len(a) + Len(b) :
              (a \o b)[i] = IF i <= Len(a) THEN a[i] ELSE b[i - Len(a)]
    BY <1>7, <1>8, ConcatProperties
  <2>2. Len(a) + Len(b) = n - 1
    BY <1>1, <1>7, <1>8
  <2> QED BY <1>7, <2>1, <2>2
<1>10. ASSUME NEW i \in 1 .. n - 1
       PROVE  (a \o b)[i] = IF i < k THEN syms[i] ELSE IF i = k THEN x
                            ELSE syms[i + 1]
  <2>1. CASE i <= k
    <3>1. (a \o b)[i] = e[i] /\ i \in 1 .. n
      BY <1>1, <1>7, <1>9, <2>1
    <3> QED BY <1>1, <1>4, <2>1, <3>1
  <2>2. CASE ~(i <= k)
    <3>1. /\ i - k \in 1 .. n - 1 - k /\ k + 1 + (i - k) = i + 1
          /\ i + 1 \in 1 .. n
      BY <1>1, <2>2
    <3>2. (a \o b)[i] = e[i + 1]
      BY <1>8, <1>9, <2>2, <3>1
    <3>3. i + 1 # k
      BY <1>1, <2>2
    <3> QED BY <1>1, <1>4, <2>2, <3>1, <3>2, <3>3
  <2> QED BY <2>1, <2>2
<1> QED BY <1>6, <1>9, <1>10 DEF n, x

\* The symbols that are joined spell what they spelt before.
LEMMA JoinedText ==
    ASSUME syms \in Seq(Words), NEW k \in 1 .. Len(syms) - 1
    PROVE  FlattenSeq(JoinedAt(k)) = FlattenSeq(syms)
<1> DEFINE n == Len(syms)
           j == JoinedAt(k)
<1>1. PICK g : Piles(g, syms)
  BY PileExists
<1> DEFINE h == [i \in 0 .. n - 1 |-> IF i < k THEN g[i] ELSE g[i + 1]]
<1>2. /\ n \in Nat /\ k \in 1 .. n - 1
      /\ g \in [0 .. n -> Words] /\ g[0] = <<>>
      /\ \A i \in 1 .. n : syms[i] \in Words /\ g[i] = g[i - 1] \o syms[i]
  BY <1>1, LenProperties DEF Piles
<1>3. /\ j \in Seq(Words) /\ Len(j) = n - 1
      /\ \A i \in 1 .. n - 1 : j[i] = IF i < k THEN syms[i]
                                      ELSE IF i = k THEN syms[k] \o syms[k + 1]
                                      ELSE syms[i + 1]
  BY JoinedElements
<1> HIDE DEF n, j
<1>4. \A i \in 0 .. n : g[i] \in Words
  BY <1>2
<1>5. h \in [0 .. n - 1 -> Words] /\ h[0] = <<>>
  <2>1. ASSUME NEW i \in 0 .. n - 1 PROVE h[i] \in Words
    <3>1. i \in 0 .. n /\ i + 1 \in 0 .. n
      BY <1>2
    <3> QED BY <1>4, <3>1
  <2>2. 0 \in 0 .. n - 1 /\ 0 < k
    BY <1>2
  <2> QED BY <1>2, <2>1, <2>2
<1>6. ASSUME NEW i \in 1 .. n - 1 PROVE h[i] = h[i - 1] \o j[i]
  <2>0. /\ i \in 0 .. n - 1 /\ i - 1 \in 0 .. n - 1 /\ i \in 1 .. n
        /\ i + 1 \in 1 .. n
    BY <1>2
  <2>1. CASE i < k
    <3>1. h[i] = g[i] /\ h[i - 1] = g[i - 1] /\ j[i] = syms[i]
      BY <1>2, <1>3, <2>0, <2>1
    <3> QED BY <1>2, <2>0, <3>1
  <2>2. CASE i = k
    <3> DEFINE a == g[k - 1]
               b == syms[k]
               c == syms[k + 1]
    <3>0. /\ k \in 0 .. n - 1 /\ ~(k < k) /\ k - 1 \in 0 .. n - 1 /\ k - 1 < k
          /\ k \in 1 .. n /\ k + 1 \in 1 .. n /\ (k + 1) - 1 = k
      BY <1>2
    <3>1. h[i] = g[k + 1] /\ h[i - 1] = a /\ j[i] = b \o c
      <4>1. h[k] = g[k + 1] /\ h[k - 1] = g[k - 1]
        BY <3>0
      <4>2. j[k] = syms[k] \o syms[k + 1]
        BY <1>2, <1>3, <3>0
      <4> QED BY <2>2, <4>1, <4>2
    <3>2. g[k + 1] = g[k] \o c /\ g[k] = a \o b
      <4>1. g[k + 1] = g[(k + 1) - 1] \o syms[k + 1]
        BY <1>2, <3>0
      <4>2. g[k] = g[k - 1] \o syms[k]
        BY <1>2, <3>0
      <4> QED BY <3>0, <4>1, <4>2
    <3>3. a \in Words /\ b \in Words /\ c \in Words
      BY <1>2, <1>4, <2>0, <2>2
    <3> HIDE DEF a, b, c
    <3>4. (a \o b) \o c = a \o (b \o c)
      BY <3>3, JoinedTwice
    <3> QED BY <3>1, <3>2, <3>4
  <2>3. CASE i > k
    <3>1. h[i] = g[i + 1] /\ h[i - 1] = g[i] /\ j[i] = syms[i + 1]
      BY <1>2, <1>3, <2>0, <2>3
    <3>2. (i + 1) - 1 = i
      BY <2>0
    <3> QED BY <1>2, <2>0, <3>1, <3>2
  <2>4. i < k \/ i = k \/ i > k
    BY <1>2
  <2> HIDE DEF h
  <2> QED BY <2>1, <2>2, <2>3, <2>4
<1>7. h[n - 1] = g[n]
  BY <1>2
<1> HIDE DEF h
<1>8. Piles(h, j)
  BY <1>3, <1>5, <1>6 DEF Piles
<1>9. FlattenSeq(j) = h[n - 1]
  BY <1>3, <1>8, FlattenIsPile
<1>10. FlattenSeq(syms) = g[n]
  BY <1>1, FlattenIsPile DEF n
<1> QED BY <1>7, <1>9, <1>10 DEF j
-----------------------------------------------------------------------------
(* The bytes *)

\* Two bytes are not written with the same code point.
LEMMA MappedApart ==
    ASSUME NEW b \in 0 .. 255, NEW c \in 0 .. 255, b < c
    PROVE  Mapped[b] # Mapped[c]
<1> DEFINE before(x) == (0 .. x - 1) \ Direct
<1>1. ASSUME NEW x \in 0 .. 255
      PROVE  IsFiniteSet(before(x)) /\ Cardinality(before(x)) \in Nat
  <2>1. IsFiniteSet(0 .. x - 1)
    BY FS_Interval
  <2>2. before(x) \in SUBSET (0 .. x - 1)
    OBVIOUS
  <2> HIDE DEF before
  <2>3. IsFiniteSet(before(x))
    BY <2>1, <2>2, FS_Subset
  <2> QED BY <2>3, FS_CardinalityType
<1>2. /\ Mapped[b] = IF b \in Direct THEN b ELSE 256 + Cardinality(before(b))
      /\ Mapped[c] = IF c \in Direct THEN c ELSE 256 + Cardinality(before(c))
  BY DEF Mapped
<1>3. CASE b \in Direct \/ c \in Direct
  <2>1. Cardinality(before(b)) \in Nat /\ Cardinality(before(c)) \in Nat
    BY <1>1
  <2> HIDE DEF before
  <2> QED BY <1>2, <1>3, <2>1
<1>4. CASE b \notin Direct /\ c \notin Direct
  <2>1. before(b) \in SUBSET before(c) /\ b \in before(c) /\ b \notin before(b)
    BY <1>4
  <2>2. /\ IsFiniteSet(before(c)) /\ Cardinality(before(b)) \in Nat
        /\ Cardinality(before(c)) \in Nat
    BY <1>1
  <2> HIDE DEF before
  <2>3. /\ Cardinality(before(b)) <= Cardinality(before(c))
        /\ Cardinality(before(c)) = Cardinality(before(b)) => before(c) = before(b)
    BY <2>1, <2>2, FS_Subset
  <2>4. Cardinality(before(b)) # Cardinality(before(c))
    BY <2>1, <2>3
  <2> QED BY <1>2, <1>4, <2>2, <2>4
<1> QED BY <1>3, <1>4

\* Bytes come back from their code points.
LEMMA Unmaps ==
    ASSUME NEW b \in 0 .. 255
    PROVE  /\ Mapped[b] \in DOMAIN Unmapped /\ Unmapped[Mapped[b]] = b
           /\ Mapped[b] \in Nat
<1> DEFINE X == {Mapped[c] : c \in 0 .. 255}
<1>1. Mapped[b] \in X
  OBVIOUS
<1>2. ASSUME NEW c \in 0 .. 255, Mapped[c] = Mapped[b] PROVE c = b
  <2>1. ~(c < b) /\ ~(b < c)
    BY <1>2, MappedApart
  <2> QED BY <2>1
<1>3. DOMAIN Unmapped = X
  BY DEF Unmapped
<1>4. Unmapped[Mapped[b]] = CHOOSE c \in 0 .. 255 : Mapped[c] = Mapped[b]
  BY <1>1 DEF Unmapped
<1>5. Unmapped[Mapped[b]] = b
  BY <1>2, <1>4
<1>6. Mapped[b] \in Nat
  <2>1. IsFiniteSet(0 .. b - 1)
    BY FS_Interval
  <2>2. (0 .. b - 1) \ Direct \in SUBSET (0 .. b - 1)
    OBVIOUS
  <2>3. Cardinality((0 .. b - 1) \ Direct) \in Nat
    BY <2>1, <2>2, FS_Subset, FS_CardinalityType
  <2>4. Mapped[b] = IF b \in Direct THEN b
                    ELSE 256 + Cardinality((0 .. b - 1) \ Direct)
    BY DEF Mapped
  <2> QED BY <2>3, <2>4 DEF Direct
<1> QED BY <1>1, <1>3, <1>5, <1>6

Byte(x) == IF x \in DOMAIN Unmapped THEN Unmapped[x] ELSE x

LEMMA ByteType ==
    ASSUME NEW x \in Nat
    PROVE  Byte(x) \in Nat
<1>1. CASE x \in DOMAIN Unmapped
  <2>1. PICK b \in 0 .. 255 : x = Mapped[b]
    BY <1>1 DEF Unmapped
  <2>2. Unmapped[x] = b
    BY <2>1, Unmaps
  <2> QED BY <1>1, <2>2 DEF Byte
<1>2. CASE x \notin DOMAIN Unmapped
  BY <1>2 DEF Byte
<1> QED BY <1>1, <1>2

LEMMA DecodedBytes ==
    ASSUME NEW s \in Words
    PROVE  /\ ByteDecode(s) \in Words /\ Len(ByteDecode(s)) = Len(s)
           /\ \A k \in 1 .. Len(s) : ByteDecode(s)[k] = Byte(s[k])
<1>1. /\ Len(s) \in Nat /\ DOMAIN s = 1 .. Len(s)
      /\ \A k \in 1 .. Len(s) : s[k] \in Nat
  BY LenProperties DEF Words
<1>2. ByteDecode(s) = [k \in 1 .. Len(s) |-> Byte(s[k])]
  BY <1>1 DEF ByteDecode, Byte
<1>3. \A k \in 1 .. Len(s) : Byte(s[k]) \in Nat
  BY <1>1, ByteType
<1>4. [k \in 1 .. Len(s) |-> Byte(s[k])] \in Seq(Nat)
  BY <1>1, <1>3, IsASeq
<1> QED BY <1>1, <1>2, <1>4 DEF Words

\* Decoding goes symbol by symbol.
LEMMA DecodeConcat ==
    ASSUME NEW a \in Words, NEW b \in Words
    PROVE  ByteDecode(a \o b) = ByteDecode(a) \o ByteDecode(b)
<1> DEFINE m == Len(a)
           n == Len(b)
           c == a \o b
           da == ByteDecode(a)
           db == ByteDecode(b)
           dc == ByteDecode(c)
<1>1. /\ m \in Nat /\ n \in Nat /\ c \in Seq(Nat) /\ Len(c) = m + n
      /\ \A i \in 1 .. m + n : c[i] = IF i <= m THEN a[i] ELSE b[i - m]
  BY LenProperties, ConcatProperties DEF Words
<1>2. /\ da \in Seq(Nat) /\ Len(da) = m /\ \A k \in 1 .. m : da[k] = Byte(a[k])
      /\ db \in Seq(Nat) /\ Len(db) = n /\ \A k \in 1 .. n : db[k] = Byte(b[k])
  BY DecodedBytes DEF Words
<1>3. c \in Words
  BY <1>1 DEF Words
<1> HIDE DEF c, m, n
<1>4. /\ dc \in Seq(Nat) /\ Len(dc) = m + n
      /\ \A k \in 1 .. m + n : dc[k] = Byte(c[k])
  BY <1>1, <1>3, DecodedBytes DEF Words
<1> HIDE DEF da, db, dc
<1>5. /\ da \o db \in Seq(Nat) /\ Len(da \o db) = m + n
      /\ \A i \in 1 .. m + n : (da \o db)[i] =
           IF i <= m THEN da[i] ELSE db[i - m]
  BY <1>2, ConcatProperties
<1>6. ASSUME NEW i \in 1 .. m + n PROVE dc[i] = (da \o db)[i]
  <2>1. CASE i <= m
    <3>1. i \in 1 .. m
      BY <1>1, <2>1
    <3> QED BY <1>1, <1>2, <1>4, <1>5, <2>1, <3>1
  <2>2. CASE ~(i <= m)
    <3>1. i - m \in 1 .. n
      BY <1>1, <2>2
    <3> QED BY <1>1, <1>2, <1>4, <1>5, <2>2, <3>1
  <2> QED BY <2>1, <2>2
<1>7. dc = da \o db
  BY <1>4, <1>5, <1>6, SeqEqual
<1> QED BY <1>7 DEF da, db, dc, c

LEMMA DecodeNone == ByteDecode(<<>>) = <<>>
<1>1. <<>> \in Words /\ Len(<<>>) = 0
  BY EmptySeq DEF Words
<1>2. ByteDecode(<<>>) \in Seq(Nat) /\ Len(ByteDecode(<<>>)) = 0
  BY <1>1, DecodedBytes DEF Words
<1> QED BY <1>2, EmptySeq

LEMMA DecodeFlatten ==
    ASSUME NEW s \in Seq(Words), NEW t \in Seq(Words), Len(t) = Len(s),
           \A k \in 1 .. Len(s) : t[k] = ByteDecode(s[k])
    PROVE  FlattenSeq(t) = ByteDecode(FlattenSeq(s))
<1> DEFINE n == Len(s)
<1>1. PICK g : Piles(g, s)
  BY PileExists
<1>2. /\ n \in Nat /\ g \in [0 .. n -> Words] /\ g[0] = <<>>
      /\ \A k \in 1 .. n : s[k] \in Words /\ g[k] = g[k - 1] \o s[k]
  BY <1>1, LenProperties DEF Piles
<1> HIDE DEF n
<1>3. \A k \in 0 .. n : g[k] \in Words
  BY <1>2
<1> DEFINE h == [k \in 0 .. n |-> ByteDecode(g[k])]
<1>4. h \in [0 .. n -> Words]
  BY <1>3, DecodedBytes
<1>5. h[0] = <<>>
  BY <1>2, DecodeNone
<1>6. ASSUME NEW k \in 1 .. n PROVE h[k] = h[k - 1] \o t[k]
  <2>1. k \in 0 .. n /\ k - 1 \in 0 .. n
    BY <1>2
  <2>2. g[k - 1] \in Words /\ s[k] \in Words /\ g[k] = g[k - 1] \o s[k]
    BY <1>2, <1>3, <2>1
  <2>3. ByteDecode(g[k - 1] \o s[k]) = ByteDecode(g[k - 1]) \o ByteDecode(s[k])
    BY <2>2, DecodeConcat
  <2>4. t[k] = ByteDecode(s[k])
    BY DEF n
  <2> QED BY <2>1, <2>2, <2>3, <2>4
<1>7. h[n] = ByteDecode(g[n])
  BY <1>2
<1> HIDE DEF h
<1>8. Piles(h, t)
  BY <1>4, <1>5, <1>6 DEF Piles, n
<1>9. FlattenSeq(t) = h[n] /\ FlattenSeq(s) = g[n]
  BY <1>1, <1>8, FlattenIsPile DEF n
<1> QED BY <1>7, <1>9

\* What is ASCII stands for itself.
LEMMA AsciiDecodes ==
    ASSUME NEW s \in Words, ToSet(s) \subseteq 0 .. 127
    PROVE  ByteDecode(s) = s
<1>1. /\ Len(s) \in Nat /\ DOMAIN s = 1 .. Len(s) /\ s \in Seq(Nat)
      /\ \A k \in 1 .. Len(s) : s[k] \in 0 .. 127
  BY LenProperties DEF Words, ToSet
<1>2. ASSUME NEW x \in 0 .. 127 PROVE Byte(x) = x
  <2>1. CASE x \in Direct
    <3>1. x \in 0 .. 255 /\ Mapped[x] = x
      BY <2>1 DEF Mapped
    <3> QED BY <3>1, Unmaps DEF Byte
  <2>2. CASE x \notin Direct
    <3>1. ASSUME NEW b \in 0 .. 255 PROVE Mapped[b] # x
      <4>1. IsFiniteSet(0 .. b - 1)
        BY FS_Interval
      <4>2. (0 .. b - 1) \ Direct \in SUBSET (0 .. b - 1)
        OBVIOUS
      <4>3. Cardinality((0 .. b - 1) \ Direct) \in Nat
        BY <4>1, <4>2, FS_Subset, FS_CardinalityType
      <4>4. Mapped[b] = IF b \in Direct THEN b
                        ELSE 256 + Cardinality((0 .. b - 1) \ Direct)
        BY DEF Mapped
      <4> HIDE DEF Direct
      <4> QED BY <2>2, <4>3, <4>4
    <3>2. x \notin DOMAIN Unmapped
      BY <3>1 DEF Unmapped
    <3> QED BY <3>2 DEF Byte
  <2> QED BY <2>1, <2>2
<1>3. /\ ByteDecode(s) \in Seq(Nat) /\ Len(ByteDecode(s)) = Len(s)
      /\ \A k \in 1 .. Len(s) : ByteDecode(s)[k] = s[k]
  BY <1>1, <1>2, DecodedBytes DEF Words
<1> QED BY <1>1, <1>3, SeqEqual
-----------------------------------------------------------------------------
(* The symbols and the ids of a piece *)

LEMMA SymbolsType ==
    ASSUME text \in Seq(0 .. 255), NEW from \in 1 .. Len(text),
           NEW to \in from .. Len(text)
    PROVE  /\ Symbols(from, to) \in Seq(Words)
           /\ Len(Symbols(from, to)) = to - from + 1
           /\ \A k \in 1 .. to - from + 1 :
                 /\ from + k - 1 \in 1 .. Len(text)
                 /\ text[from + k - 1] \in 0 .. 255
                 /\ Symbols(from, to)[k] = <<Mapped[text[from + k - 1]]>>
<1> DEFINE n == to - from + 1
<1>1. n \in Nat /\ Len(text) \in Nat
  BY LenProperties
<1>2. ASSUME NEW k \in 1 .. n
      PROVE  /\ from + k - 1 \in 1 .. Len(text)
             /\ text[from + k - 1] \in 0 .. 255
             /\ <<Mapped[text[from + k - 1]]>> \in Words
  <2>1. from + k - 1 \in 1 .. Len(text)
    BY <1>1
  <2>2. text[from + k - 1] \in 0 .. 255
    BY <2>1, ElementOfSeq
  <2>3. Mapped[text[from + k - 1]] \in Nat
    BY <2>2, Unmaps
  <2> QED BY <2>1, <2>2, <2>3, SingleIsWord
<1>3. Symbols(from, to) = [k \in 1 .. n |-> <<Mapped[text[from + k - 1]]>>]
  BY DEF Symbols
<1> HIDE DEF n
<1> DEFINE f == [k \in 1 .. n |-> <<Mapped[text[from + k - 1]]>>]
<1>4. f \in [1 .. n -> Words]
  BY <1>2
<1>5. \A k \in 1 .. n : f[k] = <<Mapped[text[from + k - 1]]>>
  OBVIOUS
<1> HIDE DEF f
<1>6. f \in Seq(Words) /\ Len(f) = n
  BY <1>1, <1>4, FunctionIsSeq
<1>7. Symbols(from, to) = f
  BY <1>3 DEF f
<1> QED BY <1>2, <1>5, <1>6, <1>7 DEF n

\* The symbols a piece begins with are its bytes.
LEMMA SymbolsText ==
    ASSUME text \in Seq(0 .. 255), NEW from \in 1 .. Len(text),
           NEW to \in from .. Len(text)
    PROVE  ByteDecode(FlattenSeq(Symbols(from, to))) = SubSeq(text, from, to)
<1> DEFINE n == to - from + 1
           s == Symbols(from, to)
           t == [k \in 1 .. n |-> <<text[from + k - 1]>>]
           g == [k \in 0 .. n |-> SubSeq(text, from, from + k - 1)]
<1>1. /\ /\ n \in Nat /\ n > 0 /\ Len(text) \in Nat /\ s \in Seq(Words)
      /\ Len(s) = n
      /\ \A k \in 1 .. n : /\ from + k - 1 \in 1 .. Len(text)
                           /\ text[from + k - 1] \in 0 .. 255
                           /\ s[k] = <<Mapped[text[from + k - 1]]>>
  BY SymbolsType, LenProperties
<1> HIDE DEF n, s
<1>2. ASSUME NEW k \in 1 .. n PROVE <<text[from + k - 1]>> = ByteDecode(s[k])
  <2> DEFINE b == text[from + k - 1]
  <2>1. b \in 0 .. 255 /\ s[k] = <<Mapped[b]>>
    BY <1>1
  <2> HIDE DEF b
  <2>2. Mapped[b] \in Nat /\ Byte(Mapped[b]) = b
    BY <2>1, Unmaps DEF Byte
  <2> DEFINE w == <<Mapped[b]>>
  <2>3. w \in Words /\ Len(w) = 1 /\ w[1] = Mapped[b]
    BY <2>2, SingleIsWord
  <2> HIDE DEF w
  <2>4. /\ ByteDecode(w) \in Seq(Nat) /\ Len(ByteDecode(w)) = 1
        /\ ByteDecode(w)[1] = b
    BY <2>2, <2>3, DecodedBytes DEF Words
  <2>5. <<b>> \in Seq(Nat) /\ Len(<<b>>) = 1 /\ <<b>>[1] = b
    <3>0. b \in 0 .. 255
      BY <2>1
    <3>1. b \in Nat
      BY <3>0
    <3> QED BY <3>1, SingleIsWord DEF Words
  <2>6. ByteDecode(w) = <<b>>
    BY <2>4, <2>5, SeqEqual
  <2> QED BY <2>1, <2>6 DEF b, w
<1>3. ASSUME NEW k \in 1 .. n PROVE <<text[from + k - 1]>> \in Words
  <2>0. text[from + k - 1] \in 0 .. 255
    BY <1>1
  <2>1. text[from + k - 1] \in Nat
    BY <2>0, ByteIsNat, Zenon
  <2> QED BY <2>1, SingleIsWord
<1>4. t \in [1 .. n -> Words] /\ \A k \in 1 .. n : t[k] = <<text[from + k - 1]>>
  BY <1>3
<1> HIDE DEF t
<1>5. t \in Seq(Words) /\ Len(t) = n
  BY <1>1, <1>4, FunctionIsSeq
<1>6. ASSUME NEW k \in 0 .. n PROVE SubSeq(text, from, from + k - 1) \in Words
  <2>1. \A i \in from .. from + k - 1 : text[i] \in Nat
    <3>1. \A i \in from .. from + k - 1 : i \in 1 .. Len(text)
      BY <1>1 DEF n
    <3>2. ASSUME NEW i \in 1 .. Len(text) PROVE text[i] \in Nat
      <4>1. text[i] \in 0 .. 255
        BY ElementOfSeq
      <4> QED BY <4>1, ByteIsNat, Zenon
    <3> QED BY <3>1, <3>2
  <2>2. from \in Int /\ from + k - 1 \in Int
    BY <1>1
  <2> QED BY <2>1, <2>2, SubSeqProperties DEF Words
<1>7. g[0] = <<>>
  <2>1. 0 \in 0 .. n /\ from + 0 - 1 = from - 1 /\ from - 1 < from
    BY <1>1
  <2>2. g[0] = SubSeq(text, from, from - 1)
    BY <2>1
  <2> QED BY <1>1, <2>1, <2>2, SubSeqEmpty
<1>8. ASSUME NEW k \in 1 .. n PROVE g[k] = g[k - 1] \o t[k]
  <2>1. k \in 0 .. n /\ k - 1 \in 0 .. n
    BY <1>1
  <2>2. /\ from + k - 1 \in from .. Len(text)
        /\ (from + k - 1) - 1 = from + (k - 1) - 1
    BY <1>1
  <2> DEFINE last == from + k - 1
  <2>3. last \in from .. Len(text)
    BY <2>2
  <2> HIDE DEF last
  <2>4. SubSeq(text, from, last) =
          SubSeq(text, from, last - 1) \o <<text[last]>>
    BY <2>3, SubSeqRecursiveSecond
  <2> USE DEF last
  <2>5. /\ g[k] = SubSeq(text, from, last)
        /\ g[k - 1] = SubSeq(text, from, last - 1)
        /\ t[k] = <<text[last]>>
    BY <1>4, <2>1, <2>2
  <2> QED BY <2>4, <2>5
<1>9. g \in [0 .. n -> Words]
  BY <1>6
<1>10. g[n] = SubSeq(text, from, to)
  <2>1. from + n - 1 = to /\ n \in 0 .. n
    BY <1>1 DEF n
  <2> QED BY <2>1
<1> HIDE DEF g
<1>11. Piles(g, t)
  BY <1>5, <1>7, <1>8, <1>9 DEF Piles
<1>12. FlattenSeq(t) = SubSeq(text, from, to)
  BY <1>4, <1>5, <1>10, <1>11, FlattenIsPile
<1>13. FlattenSeq(t) = ByteDecode(FlattenSeq(s))
  <2>1. \A k \in 1 .. n : t[k] = ByteDecode(s[k])
    BY <1>2, <1>4
  <2> QED BY <1>1, <1>5, <2>1, DecodeFlatten
<1> QED BY <1>12, <1>13 DEF s

-----------------------------------------------------------------------------
(* The ids *)

\* Numbers of tokens of the vocabulary v, and what they spell.
Valid(v, ids) == /\ ids \in Seq(Nat)
                 /\ \A k \in DOMAIN ids : ids[k] + 1 \in 1 .. Len(v.tokens)
Spelled(v, ids) ==
    FlattenSeq([k \in DOMAIN ids |-> ByteDecode(v.tokens[ids[k] + 1])])

\* The symbols that encode can make.
Parts(v) == {<<Mapped[b]>> : b \in 0 .. 255}
            \cup {m[1] \o m[2] : m \in ToSet(v.merges)}

\* The ids after the begin-of-sequence token.
Own == IF vocab.add_bos /\ result # <<>> THEN Tail(result) ELSE result

LEMMA VocabType ==
    ASSUME NEW v \in Vocabularies
    PROVE  /\ v.tokens \in Seq(Words) /\ v.merges \in Seq(Words \X Words)
           /\ v.bos \in Nat /\ v.add_bos \in BOOLEAN
           /\ Len(v.tokens) \in Nat /\ DOMAIN v.tokens = 1 .. Len(v.tokens)
           /\ \A k \in 1 .. Len(v.tokens) : v.tokens[k] \in Words
<1>1. /\ v.tokens \in Seq(Words) /\ v.merges \in Seq(Words \X Words)
      /\ v.bos \in Nat /\ v.add_bos \in BOOLEAN
  BY TokAssumption DEF Words
<1> QED BY <1>1, LenProperties

LEMMA PartsType ==
    ASSUME NEW v \in Vocabularies
    PROVE  Parts(v) \subseteq Words
<1>1. ASSUME NEW b \in 0 .. 255 PROVE <<Mapped[b]>> \in Words
  BY Unmaps, SingleIsWord
<1>2. ASSUME NEW m \in ToSet(v.merges) PROVE m[1] \o m[2] \in Words
  <2>1. v.merges \in Seq(Words \X Words)
    BY VocabType
  <2>2. PICK k \in 1 .. Len(v.merges) : m = v.merges[k]
    BY <2>1, LenProperties DEF ToSet
  <2>3. m \in Words \X Words
    BY <2>1, <2>2, ElementOfSeq
  <2>4. m[1] \in Words /\ m[2] \in Words
    BY <2>3
  <2> QED BY <2>4, Joined
<1> QED BY <1>1, <1>2 DEF Parts

\* What the ids of a list spell, word by word.
LEMMA SpelledWords ==
    ASSUME NEW v \in Vocabularies, NEW ids, Valid(v, ids)
    PROVE  /\ Len(ids) \in Nat /\ DOMAIN ids = 1 .. Len(ids)
           /\ [k \in DOMAIN ids |-> ByteDecode(v.tokens[ids[k] + 1])] \in Seq(Words)
           /\ Len([k \in DOMAIN ids |-> ByteDecode(v.tokens[ids[k] + 1])]) =
                Len(ids)
<1>1. /\ Len(ids) \in Nat /\ DOMAIN ids = 1 .. Len(ids)
      /\ \A k \in 1 .. Len(ids) : ids[k] + 1 \in 1 .. Len(v.tokens)
  BY LenProperties DEF Valid
<1>2. ASSUME NEW k \in 1 .. Len(ids)
      PROVE  ByteDecode(v.tokens[ids[k] + 1]) \in Words
  <2>1. v.tokens[ids[k] + 1] \in Words
    BY <1>1, VocabType
  <2> QED BY <2>1, DecodedBytes
<1> DEFINE f == [k \in 1 .. Len(ids) |-> ByteDecode(v.tokens[ids[k] + 1])]
<1>3. f \in [1 .. Len(ids) -> Words]
  BY <1>2
<1> HIDE DEF f
<1>4. f \in Seq(Words) /\ Len(f) = Len(ids)
  BY <1>1, <1>3, FunctionIsSeq
<1> QED BY <1>1, <1>4 DEF f

LEMMA SpelledConcat ==
    ASSUME NEW v \in Vocabularies, NEW a, NEW b, Valid(v, a), Valid(v, b)
    PROVE  Valid(v, a \o b) /\ Spelled(v, a \o b) =
             Spelled(v, a) \o Spelled(v, b)
<1> DEFINE m == Len(a)
           n == Len(b)
           c == a \o b
           word(ids, k) == ByteDecode(v.tokens[ids[k] + 1])
           fa == [k \in DOMAIN a |-> word(a, k)]
           fb == [k \in DOMAIN b |-> word(b, k)]
           fc == [k \in DOMAIN c |-> word(c, k)]
<1>1. /\ m \in Nat /\ DOMAIN a = 1 .. m /\ n \in Nat /\ DOMAIN b = 1 .. n
      /\ fa \in Seq(Words) /\ Len(fa) = m /\ fb \in Seq(Words) /\ Len(fb) = n
  BY SpelledWords
<1>2. /\ c \in Seq(Nat) /\ Len(c) = m + n
      /\ \A k \in 1 .. m + n : c[k] = IF k <= m THEN a[k] ELSE b[k - m]
  BY ConcatProperties DEF Valid
<1>3. /\ \A k \in 1 .. m : a[k] + 1 \in 1 .. Len(v.tokens)
      /\ \A k \in 1 .. n : b[k] + 1 \in 1 .. Len(v.tokens)
  BY <1>1 DEF Valid
<1>4. DOMAIN c = 1 .. m + n
  BY <1>2, LenProperties
<1> HIDE DEF c, m, n
<1>5. ASSUME NEW k \in 1 .. m + n PROVE c[k] + 1 \in 1 .. Len(v.tokens)
  <2>1. CASE k <= m
    <3>1. k \in 1 .. m /\ c[k] = a[k]
      BY <1>1, <1>2, <2>1
    <3> QED BY <1>3, <3>1
  <2>2. CASE ~(k <= m)
    <3>1. k - m \in 1 .. n /\ c[k] = b[k - m]
      BY <1>1, <1>2, <2>2
    <3> QED BY <1>3, <3>1
  <2> QED BY <2>1, <2>2
<1>6. Valid(v, c)
  BY <1>2, <1>4, <1>5 DEF Valid
<1>7. fc \in Seq(Words) /\ Len(fc) = m + n
  <2>1. fc \in Seq(Words) /\ Len(fc) = Len(c)
    BY <1>6, SpelledWords
  <2> QED BY <1>2, <2>1
<1>8. /\ fa \o fb \in Seq(Words) /\ Len(fa \o fb) = m + n
      /\ \A k \in 1 .. m + n : (fa \o fb)[k] =
           IF k <= m THEN fa[k] ELSE fb[k - m]
  <2> HIDE DEF fa, fb
  <2> QED BY <1>1, ConcatProperties
<1>9. ASSUME NEW k \in 1 .. m + n PROVE fc[k] = (fa \o fb)[k]
  <2>0. fc[k] = word(c, k)
    BY <1>4
  <2>1. CASE k <= m
    <3>1. k \in 1 .. m /\ c[k] = a[k]
      BY <1>1, <1>2, <2>1
    <3>2. fa[k] = word(a, k) /\ word(c, k) = word(a, k)
      BY <1>1, <3>1
    <3> HIDE DEF fa, fb, fc, word
    <3> QED BY <1>8, <2>0, <2>1, <3>2
  <2>2. CASE ~(k <= m)
    <3>1. k - m \in 1 .. n /\ c[k] = b[k - m]
      BY <1>1, <1>2, <2>2
    <3>2. fb[k - m] = word(b, k - m) /\ word(c, k) = word(b, k - m)
      BY <1>1, <3>1
    <3> HIDE DEF fa, fb, fc, word
    <3> QED BY <1>8, <2>0, <2>2, <3>2
  <2> QED BY <2>1, <2>2
<1>10. /\ Spelled(v, a) = FlattenSeq(fa) /\ Spelled(v, b) = FlattenSeq(fb)
       /\ Spelled(v, c) = FlattenSeq(fc)
  BY DEF Spelled
<1> HIDE DEF fa, fb, fc
<1>11. fc = fa \o fb
  BY <1>7, <1>8, <1>9, SeqEqual
<1>12. FlattenSeq(fa \o fb) = FlattenSeq(fa) \o FlattenSeq(fb)
  BY <1>1, FlattenConcat
<1> QED BY <1>6, <1>10, <1>11, <1>12 DEF c

\* A token that is in the vocabulary has a number there.
LEMMA KnownId ==
    ASSUME vocab \in Vocabularies, NEW token, Known(token)
    PROVE  /\ Id(token) \in Nat /\ Id(token) + 1 \in 1 .. Len(vocab.tokens)
           /\ vocab.tokens[Id(token) + 1] = token
<1> DEFINE S == {k \in DOMAIN vocab.tokens : vocab.tokens[k] = token}
<1>1. DOMAIN vocab.tokens = 1 .. Len(vocab.tokens) /\ Len(vocab.tokens) \in Nat
  BY VocabType
<1>2. S \in SUBSET Nat /\ S # {}
  BY <1>1 DEF Known, ToSet
<1>3. PICK x \in S : \A y \in S : x <= y
  <2> HIDE DEF S
  <2> QED BY <1>2, LeastExists
<1>4. Min(S) \in S
  BY <1>3 DEF Min
<1>5. Id(token) = Min(S) - 1
  BY DEF Id
<1> DEFINE j == Min(S)
<1>6. j \in 1 .. Len(vocab.tokens) /\ vocab.tokens[j] = token
  BY <1>1, <1>4
<1> HIDE DEF j, S
<1>7. j - 1 \in Nat /\ (j - 1) + 1 = j
  BY <1>1, <1>6
<1> QED BY <1>5, <1>6, <1>7 DEF j

LEMMA MeantIsText ==
    ASSUME vocab \in Vocabularies, NEW id \in Nat,
           id + 1 \in 1 .. Len(vocab.tokens)
    PROVE  Meant(id) = ByteDecode(vocab.tokens[id + 1])
<1> DEFINE token == vocab.tokens[id + 1]
<1>1. /\ token \in Words /\ token \in ToSet(vocab.tokens)
      /\ Len(vocab.tokens) \in Nat
  BY VocabType DEF ToSet
<1>2. CASE IsSpecial(token)
  <2>1. ToSet(token) \subseteq 0 .. 127
    BY <1>1, <1>2, TokAssumption
  <2>2. ByteDecode(token) = token
    BY <1>1, <2>1, AsciiDecodes
  <2> QED BY <1>2, <2>2 DEF Meant
<1>3. CASE ~IsSpecial(token)
  <2>1. ~(id >= Len(vocab.tokens))
    BY <1>1
  <2> QED BY <1>3, <2>1 DEF Meant, Decode
<1> QED BY <1>2, <1>3
-----------------------------------------------------------------------------
(* The pair that is joined *)

\* A set of numbers up to n that is not empty has a greatest.
LEMMA MaxBelow ==
    ASSUME NEW n \in Nat, NEW S \in SUBSET (1 .. n), S # {}
    PROVE  Max(S) \in S
<1> DEFINE R == {n - x : x \in S}
<1>0. ASSUME NEW x \in S PROVE x \in 1 .. n /\ n - x \in Nat
  <2>1. x \in 1 .. n
    OBVIOUS
  <2> QED BY <2>1
<1>1. R \in SUBSET Nat /\ R # {}
  BY <1>0
<1>2. PICK y \in R : \A z \in R : y <= z
  <2> HIDE DEF R
  <2> QED BY <1>1, LeastExists
<1>3. PICK x \in S : y = n - x
  BY <1>2
<1>4. ASSUME NEW z \in S PROVE x >= z
  <2>1. n - x <= n - z
    BY <1>2, <1>3
  <2> QED BY <1>0, <2>1
<1> QED BY <1>3, <1>4 DEF Max

\* The rank of a pair is a number of its own.
LEMMA RankOfPair ==
    ASSUME NEW v \in Vocabularies, NEW p \in ToSet(v.merges)
    PROVE  /\ RankIn(v.merges, p) \in 1 .. Len(v.merges)
           /\ v.merges[RankIn(v.merges, p)] = p
<1> DEFINE S == {j \in DOMAIN v.merges : v.merges[j] = p}
<1>1. /\ Len(v.merges) \in Nat
      /\ DOMAIN v.merges = 1 .. Len(v.merges)
  BY VocabType, LenProperties
<1>2. S # {}
  BY DEF ToSet
<1>3. S \in SUBSET (1 .. Len(v.merges))
  BY <1>1
<1>4. Max(S) \in S
  <2> HIDE DEF S
  <2> QED BY <1>1, <1>2, <1>3, MaxBelow
<1>5. RankIn(v.merges, p) = Max(S)
  BY DEF RankIn
<1>6. RankIn(v.merges, p) \in S
  BY <1>4, <1>5
<1> QED BY <1>1, <1>6

\* The pair that encode chooses has a rank, none has a lower one, and it is the
\* first of its rank.
LEMMA BestJoins ==
    ASSUME vocab \in Vocabularies, Len(syms) \in Nat, Joinable # {}
    PROVE  /\ Best \in 1 .. Len(syms) - 1
           /\ Ranked(syms[Best], syms[Best + 1])
           /\ \A q \in Joinable :
                 /\ Rank(syms[Best], syms[Best + 1]) <= Rank(syms[q], syms[q + 1])
                 /\ <<syms[q], syms[q + 1]>> = <<syms[Best], syms[Best + 1]>>
                       => Best <= q
<1> DEFINE rank(k) == Rank(syms[k], syms[k + 1])
           R == {rank(k) : k \in Joinable}
           L == {k \in Joinable : \A q \in Joinable : rank(k) <= rank(q)}
<1>1. ASSUME NEW k \in Joinable PROVE rank(k) \in Nat
  <2>1. <<syms[k], syms[k + 1]>> \in ToSet(vocab.merges)
    BY DEF Joinable, Ranked
  <2>2. RankIn(vocab.merges, <<syms[k], syms[k + 1]>>) \in 1 .. Len(vocab.merges)
    BY <2>1, RankOfPair
  <2> QED BY <2>2 DEF Rank
<1>2. \A q, k \in Joinable :
         <<syms[q], syms[q + 1]>> = <<syms[k], syms[k + 1]>> => rank(q) = rank(k)
  BY DEF Rank
<1> HIDE DEF rank
<1>3. R \in SUBSET Nat /\ R # {}
  BY <1>1
<1>4. PICK r \in R : \A q \in R : r <= q
  <2> HIDE DEF R
  <2> QED BY <1>3, LeastExists
<1>5. L \in SUBSET Nat /\ L # {}
  <2>1. PICK k \in Joinable : r = rank(k)
    BY <1>4
  <2>2. k \in L
    BY <1>4, <2>1
  <2>3. L \subseteq 1 .. Len(syms) - 1
    BY DEF Joinable
  <2> QED BY <2>2, <2>3
<1>6. PICK k \in L : \A q \in L : k <= q
  <2> HIDE DEF L
  <2> QED BY <1>5, LeastExists
<1>7. Min(L) \in L /\ \A q \in L : Min(L) <= q
  BY <1>6 DEF Min
<1>8. Best = Min(L)
  BY DEF Best, rank
<1>9. Best \in L /\ \A q \in L : Best <= q
  BY <1>7, <1>8
<1>10. Best \in Joinable /\ \A q \in Joinable : rank(Best) <= rank(q)
  BY <1>9
<1>11. ASSUME NEW q \in Joinable,
              <<syms[q], syms[q + 1]>> = <<syms[Best], syms[Best + 1]>>
       PROVE  Best <= q
  <2>1. rank(q) = rank(Best)
    BY <1>2, <1>10, <1>11
  <2>2. q \in L
    BY <1>10, <2>1
  <2> QED BY <1>9, <2>2
<1> QED BY <1>10, <1>11 DEF Joinable, rank
-----------------------------------------------------------------------------
(* The invariant *)

\* encode has written the ids of the text before pos; the symbols spell what
\* lies between pos and end, and every one of them is a token.
TokIInv ==
    /\ vocab \in Vocabularies /\ text \in Seq(0 .. 255)
    /\ text = <<>> => syms = <<>> /\ pos = 1
    /\ text # <<>> /\ Parts(vocab) \subseteq ToSet(vocab.tokens) =>
          /\ result \in Seq(Nat) /\ (vocab.add_bos => result # <<>>)
          /\ pos \in 1 .. Len(text) + 1
          /\ syms \in Seq(Parts(vocab))
          /\ Valid(vocab, Own) /\ Spelled(vocab, Own) = SubSeq(text, 1, pos - 1)
          /\ syms # <<>> =>
                /\ end \in pos .. Len(text)
                /\ ByteDecode(FlattenSeq(syms)) = SubSeq(text, pos, end)

LEMMA SubText ==
    ASSUME NEW t \in Seq(0 .. 255), NEW a \in 1 .. Len(t) + 1,
           NEW b \in a - 1 .. Len(t)
    PROVE  SubSeq(t, a, b) \in Words
<1>1. Len(t) \in Nat
  BY LenProperties
<1>2. ASSUME NEW i \in a .. b PROVE t[i] \in Nat
  <2>1. i \in 1 .. Len(t)
    BY <1>1
  <2>2. t[i] \in 0 .. 255
    BY <2>1, ElementOfSeq
  <2> QED BY <2>2, ByteIsNat, Zenon
<1>3. a \in Int /\ b \in Int
  BY <1>1
<1> QED BY <1>2, <1>3, SubSeqProperties DEF Words

\* A step that adds ids adds what they spell.
LEMMA OwnGrows ==
    ASSUME vocab \in Vocabularies, result \in Seq(Nat),
           vocab.add_bos => result # <<>>, Valid(vocab, Own),
           NEW s, Valid(vocab, s), vocab' = vocab, result' = result \o s
    PROVE  /\ result' \in Seq(Nat) /\ (vocab.add_bos => result' # <<>>)
           /\ Valid(vocab, Own') /\ Own' = Own \o s
           /\ Spelled(vocab, Own') = Spelled(vocab, Own) \o Spelled(vocab, s)
<1>1. s \in Seq(Nat)
  BY DEF Valid
<1>2. /\ result \o s \in Seq(Nat)
      /\ result # <<>> => result \o s # <<>>
  BY <1>1, ConcatProperties, ConcatSimplifications
<1>3. Own' = Own \o s
  <2>1. CASE vocab.add_bos
    <3>1. Own = Tail(result) /\ Own' = Tail(result \o s) /\ result # <<>>
      BY <1>2, <2>1 DEF Own
    <3>2. Tail(result \o s) = Tail(result) \o s
      BY <1>1, <3>1
    <3> QED BY <3>1, <3>2
  <2>2. CASE ~vocab.add_bos
    BY <2>2 DEF Own
  <2> QED BY <2>1, <2>2
<1>4. /\ Valid(vocab, Own \o s)
      /\ Spelled(vocab, Own \o s) = Spelled(vocab, Own) \o Spelled(vocab, s)
  BY SpelledConcat
<1> QED BY <1>2, <1>3, <1>4

LEMMA SpelledOne ==
    ASSUME NEW v \in Vocabularies, NEW id \in Nat,
           id + 1 \in 1 .. Len(v.tokens)
    PROVE  /\ Valid(v, <<id>>)
           /\ Spelled(v, <<id>>) = ByteDecode(v.tokens[id + 1])
<1> DEFINE ids == <<id>>
           w == ByteDecode(v.tokens[id + 1])
           f == [k \in DOMAIN ids |-> ByteDecode(v.tokens[ids[k] + 1])]
<1>1. ids \in Seq(Nat) /\ Len(ids) = 1 /\ ids[1] = id /\ DOMAIN ids = 1 .. 1
  OBVIOUS
<1>2. Valid(v, ids)
  BY <1>1 DEF Valid
<1>3. f \in Seq(Words) /\ Len(f) = 1
  <2> HIDE DEF ids
  <2> QED BY <1>1, <1>2, SpelledWords
<1>4. f[1] = w
  <2> HIDE DEF ids, w
  <2> QED BY <1>1 DEF w
<1>5. w \in Words
  BY VocabType, DecodedBytes
<1>6. <<w>> \in Seq(Words) /\ FlattenSeq(<<w>>) = w
  BY <1>5, FlattenOne
<1>7. f = <<w>>
  <2>1. Len(<<w>>) = 1 /\ <<w>>[1] = w
    OBVIOUS
  <2> HIDE DEF f, w, ids
  <2> QED BY <1>3, <1>4, <1>6, <2>1, SeqEqual
<1>8. Spelled(v, ids) = FlattenSeq(f)
  BY DEF Spelled
<1> HIDE DEF f, w
<1>9. Spelled(v, ids) = w
  BY <1>6, <1>7, <1>8
<1> QED BY <1>2, <1>9 DEF w, ids

LEMMA SpelledNone ==
    ASSUME NEW v
    PROVE  Valid(v, <<>>) /\ Spelled(v, <<>>) = <<>>
<1>1. [k \in DOMAIN <<>> |-> ByteDecode(v.tokens[<<>>[k] + 1])] = <<>>
  OBVIOUS
<1>2. Valid(v, <<>>)
  BY DEF Valid
<1> QED BY <1>1, <1>2, FlattenNone DEF Spelled

\* The specialized case: a vocabulary whose parts are all tokens, and a text.
Encoding == text # <<>> /\ Parts(vocab) \subseteq ToSet(vocab.tokens)

LEMMA EncodeStep ==
    ASSUME TokIInv, NEW input \in Inputs, Encode(input[1], input[2])
    PROVE  TokIInv'
<1> DEFINE v == input[1]
           t == input[2]
<1>1. v \in Vocabularies /\ t \in Seq(0 .. 255)
  BY TokAssumption
<1>2. /\ vocab' = v /\ text' = t
      /\ result' = IF v.add_bos THEN <<v.bos>> ELSE <<>>
      /\ syms' = <<>> /\ pos' = 1
  BY DEF Encode, TokIInv
<1>3. Own' = <<>>
  BY <1>2 DEF Own
<1>4. result' \in Seq(Nat) /\ (v.add_bos => result' # <<>>)
  <2>1. v.bos \in Nat
    BY <1>1, VocabType
  <2>2. <<v.bos>> \in Seq(Nat) /\ <<v.bos>> # <<>> /\ <<>> \in Seq(Nat)
    BY <2>1
  <2> QED BY <1>2, <2>2
<1>5. SubSeq(t, 1, 1 - 1) = <<>> /\ Len(t) \in Nat
  BY <1>1, SubSeqEmpty, LenProperties
<1>6. Valid(v, <<>>) /\ Spelled(v, <<>>) = <<>>
  BY SpelledNone
<1>7. 1 \in 1 .. Len(t) + 1 /\ <<>> \in Seq(Parts(v))
  BY <1>5
<1> HIDE DEF v, t
<1> QED BY <1>1, <1>2, <1>3, <1>4, <1>5, <1>6, <1>7 DEF TokIInv

LEMMA SpecialStep ==
    ASSUME TokIInv, TakeSpecial
    PROVE  TokIInv'
<1> DEFINE n == Len(text)
<1>1. /\ vocab' = vocab /\ text' = text /\ syms' = syms /\ end' = end
      /\ syms = <<>> /\ pos <= n
  BY DEF TakeSpecial, AtPiece
<1>2. PICK token \in SpecialsAt(pos) : /\ result' = Append(result, Id(token))
                                       /\ pos' = pos + Len(token)
  BY DEF TakeSpecial
<1>3. vocab \in Vocabularies /\ text \in Seq(0 .. 255) /\ n \in Nat
  BY LenProperties DEF TokIInv
<1>4. text # <<>>
  <2>1. text = <<>> => n = 0 /\ pos = 1
    BY DEF TokIInv
  <2> QED BY <1>1, <2>1
<1>5. CASE Encoding
  <2>1. /\ result \in Seq(Nat) /\ (vocab.add_bos => result # <<>>)
        /\ pos \in 1 .. n /\ Valid(vocab, Own)
        /\ Spelled(vocab, Own) = SubSeq(text, 1, pos - 1)
    BY <1>1, <1>3, <1>5 DEF TokIInv, Encoding
  <2>2. /\ token \in ToSet(vocab.tokens) /\ IsSpecial(token)
        /\ IsPrefix(token, SubSeq(text, pos, n))
    BY <1>2 DEF SpecialsAt
  <2>3. token \in Words /\ Len(token) \in Nat /\ Len(token) > 2
    <3>1. token \in Words
      BY <1>3, <2>2, VocabType DEF ToSet
    <3> QED BY <2>2, <3>1, LenProperties DEF IsSpecial, Words
  <2>4. ByteDecode(token) = token
    BY <1>3, <2>2, <2>3, TokAssumption, AsciiDecodes
  <2> DEFINE rest == SubSeq(text, pos, n)
             last == pos + Len(token) - 1
  <2>5. rest \in Words /\ Len(rest) = n - pos + 1
    <3>1. rest \in Words
      BY <1>3, <2>1, SubText
    <3>2. \A i \in pos .. n : text[i] \in 0 .. 255
      BY <1>3, <2>1, ElementOfSeq
    <3>3. Len(rest) = IF pos <= n THEN n - pos + 1 ELSE 0
      BY <1>3, <2>1, <3>2, SubSeqProperties
    <3> QED BY <1>1, <3>1, <3>3
  <2>6. Len(token) <= n - pos + 1 /\ token = SubSeq(rest, 1, Len(token))
    <3>1. SubSeq(token, 1, Len(token)) = token
      BY <2>3, SubSeqFull DEF Words
    <3> HIDE DEF rest
    <3>2. /\ Len(token) <= Len(rest)
          /\ SubSeq(token, 1, Len(token)) = SubSeq(rest, 1, Len(token))
      BY <2>2 DEF IsPrefix, rest
    <3> QED BY <2>5, <3>1, <3>2
  <2>7. token = SubSeq(text, pos, last)
    <3>1. /\ pos \in 1 .. n /\ n \in 1 .. n
          /\ 1 \in 1 .. n - pos + 1 /\ Len(token) \in 1 .. n - pos + 1
      BY <1>3, <2>1, <2>3, <2>6
    <3>2. SubSeq(SubSeq(text, pos, n), 1, Len(token))
             = SubSeq(text, pos + 1 - 1, pos + Len(token) - 1)
      BY <1>3, <3>1, SubSeqOfSubSeq
    <3>3. pos + 1 - 1 = pos
      BY <2>1
    <3> QED BY <2>6, <3>2, <3>3
  <2>8. /\ Id(token) \in Nat /\ Id(token) + 1 \in 1 .. Len(vocab.tokens)
        /\ vocab.tokens[Id(token) + 1] = token
    BY <1>3, <2>2, KnownId DEF Known
  <2> DEFINE s == <<Id(token)>>
  <2>9. Valid(vocab, s) /\ Spelled(vocab, s) = token
    BY <1>3, <2>4, <2>8, SpelledOne
  <2>10. result' = result \o s
    BY <1>2, <2>1, <2>8, AppendIsConcat
  <2> HIDE DEF s
  <2>11. /\ result' \in Seq(Nat) /\ (vocab.add_bos => result' # <<>>)
         /\ Valid(vocab, Own')
         /\ Spelled(vocab, Own') = Spelled(vocab, Own) \o Spelled(vocab, s)
    BY <1>1, <1>3, <2>1, <2>9, <2>10, OwnGrows
  <2>12. /\ pos - 1 \in 1 - 1 .. n /\ last \in pos - 1 .. n
         /\ 1 \in 1 .. n + 1 /\ (pos - 1) + 1 = pos
         /\ pos' \in 1 .. n + 1 /\ pos' - 1 = last
    BY <1>2, <1>3, <2>1, <2>3, <2>6
  <2> HIDE DEF last
  <2>13. SubSeq(text, 1, pos - 1) \o SubSeq(text, pos, last) =
           SubSeq(text, 1, last)
    <3>1. SubSeq(text, 1, pos - 1) \o SubSeq(text, (pos - 1) + 1, last)
             = SubSeq(text, 1, last)
      BY <1>3, <2>12, ConcatAdjacentSubSeq
    <3> QED BY <2>12, <3>1
  <2>14. Spelled(vocab, Own') = SubSeq(text, 1, pos' - 1)
    BY <2>1, <2>7, <2>9, <2>11, <2>12, <2>13
  <2> QED BY <1>1, <1>3, <1>5, <2>11, <2>12, <2>14 DEF TokIInv, Encoding
<1>6. CASE ~Encoding
  BY <1>1, <1>3, <1>4, <1>6 DEF TokIInv, Encoding
<1> QED BY <1>5, <1>6

LEMMA PieceEnds ==
    ASSUME Len(text) \in Nat, NEW p \in 1 .. Len(text)
    PROVE  PieceEnd(p) \in p .. Len(text)
<1> DEFINE S == {e \in p .. Len(text) : SpecialsAt(e + 1) # {}} \cup {Len(text)}
<1>1. S \in SUBSET Nat /\ S # {} /\ S \subseteq p .. Len(text)
  OBVIOUS
<1>2. PICK x \in S : \A y \in S : x <= y
  <2> HIDE DEF S
  <2> QED BY <1>1, LeastExists
<1>3. Min(S) \in S
  BY <1>2 DEF Min
<1>4. PieceEnd(p) = Min(S)
  BY DEF PieceEnd
<1> HIDE DEF S
<1> QED BY <1>1, <1>3, <1>4

LEMMA BeginStep ==
    ASSUME TokIInv, BeginPiece
    PROVE  TokIInv'
<1> DEFINE n == Len(text)
           e == PieceEnd(pos)
<1>1. /\ vocab' = vocab /\ text' = text /\ pos' = pos /\ result' = result
      /\ end' = e /\ syms' = Symbols(pos, e) /\ pos <= n
  BY DEF BeginPiece, AtPiece
<1>2. vocab \in Vocabularies /\ text \in Seq(0 .. 255) /\ n \in Nat
  BY LenProperties DEF TokIInv
<1>3. text # <<>>
  <2>1. text = <<>> => n = 0 /\ pos = 1
    BY DEF TokIInv
  <2> QED BY <1>1, <2>1
<1>4. CASE Encoding
  <2>1. /\ result \in Seq(Nat) /\ (vocab.add_bos => result # <<>>)
        /\ pos \in 1 .. n /\ Valid(vocab, Own)
        /\ Spelled(vocab, Own) = SubSeq(text, 1, pos - 1)
    BY <1>1, <1>2, <1>4 DEF TokIInv, Encoding
  <2>2. e \in pos .. n
    BY <1>2, <2>1, PieceEnds
  <2> HIDE DEF e
  <2>3. /\ Symbols(pos, e) \in Seq(Words) /\ Len(Symbols(pos, e)) = e - pos + 1
        /\ \A k \in 1 .. e - pos + 1 :
              /\ text[pos + k - 1] \in 0 .. 255
              /\ Symbols(pos, e)[k] = <<Mapped[text[pos + k - 1]]>>
    BY <1>2, <2>1, <2>2, SymbolsType
  <2>4. ByteDecode(FlattenSeq(Symbols(pos, e))) = SubSeq(text, pos, e)
    BY <1>2, <2>1, <2>2, SymbolsText
  <2>5. Symbols(pos, e) \in Seq(Parts(vocab))
    <3> DEFINE s == Symbols(pos, e)
               m == e - pos + 1
    <3>1. ASSUME NEW k \in 1 .. m PROVE s[k] \in Parts(vocab)
      BY <2>3 DEF Parts
    <3>2. m \in Nat /\ s \in Seq(Words) /\ Len(s) = m
      BY <1>2, <2>1, <2>2, <2>3
    <3> HIDE DEF s, m
    <3>3. s \in [1 .. m -> Words]
      BY <3>2, LenProperties
    <3>4. s \in [1 .. m -> Parts(vocab)]
      BY <3>1, <3>3
    <3>5. s \in Seq(Parts(vocab))
      BY <3>2, <3>4, FunctionIsSeq
    <3> QED BY <3>5 DEF s
  <2>6. Own' = Own
    BY <1>1 DEF Own
  <2> QED BY <1>1, <1>2, <1>4, <2>1, <2>2, <2>4, <2>5, <2>6 DEF TokIInv, Encoding
<1>5. CASE ~Encoding
  BY <1>1, <1>2, <1>3, <1>5 DEF TokIInv, Encoding
<1> QED BY <1>4, <1>5

LEMMA JoinStep ==
    ASSUME TokIInv, JoinPair
    PROVE  TokIInv'
<1>1. /\ UNCHANGED <<vocab, text, pos, end, result>>
      /\ syms' = JoinedAt(Best) /\ Joinable # {}
  BY DEF JoinPair
<1>2. vocab \in Vocabularies /\ text \in Seq(0 .. 255)
  BY DEF TokIInv
<1>3. text # <<>>
  <2>1. text = <<>> => syms = <<>>
    BY DEF TokIInv
  <2>2. syms = <<>> => Joinable = {}
    BY DEF Joinable
  <2> QED BY <1>1, <2>1, <2>2
<1>4. CASE Encoding
  <2> DEFINE n == Len(syms)
             k == Best
             P == Parts(vocab)
  <2>1. syms \in Seq(P)
    BY <1>4 DEF TokIInv, Encoding
  <2>2. n \in Nat /\ P \subseteq Words
    BY <1>2, <2>1, LenProperties, PartsType
  <2>3. syms \in Seq(Words)
    BY <2>1, <2>2, SeqMonotonic
  <2>4. k \in 1 .. n - 1 /\ Ranked(syms[k], syms[k + 1])
    BY <1>1, <1>2, <2>2, BestJoins
  <2> HIDE DEF k, P
  <2> DEFINE j == JoinedAt(k)
  <2>5. /\ j \in Seq(Words) /\ Len(j) = n - 1
        /\ \A i \in 1 .. n - 1 : j[i] = IF i < k THEN syms[i]
                                        ELSE IF i =
                                          k THEN syms[k] \o syms[k + 1]
                                        ELSE syms[i + 1]
    BY <2>3, <2>4, JoinedElements
  <2>6. FlattenSeq(j) = FlattenSeq(syms)
    BY <2>3, <2>4, JoinedText
  <2>7. syms[k] \o syms[k + 1] \in P
    <3>1. <<syms[k], syms[k + 1]>> \in ToSet(vocab.merges)
      BY <2>4 DEF Ranked
    <3> DEFINE m == <<syms[k], syms[k + 1]>>
    <3>2. m[1] = syms[k] /\ m[2] = syms[k + 1]
      OBVIOUS
    <3> HIDE DEF m
    <3>3. m \in ToSet(vocab.merges)
      BY <3>1 DEF m
    <3>4. m[1] \o m[2] \in P
      BY <3>3 DEF P, Parts
    <3> QED BY <3>2, <3>4
  <2>8. \A i \in 1 .. n : syms[i] \in P
    BY <2>1, ElementOfSeq
  <2> HIDE DEF j, n
  <2>9. ASSUME NEW i \in 1 .. n - 1 PROVE j[i] \in P
    <3>1. i \in 1 .. n /\ i + 1 \in 1 .. n
      BY <2>2
    <3> QED BY <2>5, <2>7, <2>8, <3>1
  <2>10. j \in Seq(P) /\ j # <<>>
    <3>1. n - 1 \in Nat /\ n - 1 > 0
      BY <2>2, <2>4
    <3>2. j \in [1 .. n - 1 -> Words]
      BY <2>5, LenProperties
    <3>3. j \in [1 .. n - 1 -> P]
      BY <2>9, <3>2
    <3>4. j # <<>>
      BY <2>5, <3>1, EmptySeq
    <3> QED BY <3>1, <3>3, <3>4, FunctionIsSeq
  <2>11. syms # <<>>
    <3>1. syms = <<>> => n = 0
      BY DEF n
    <3> QED BY <2>4, <3>1
  <2>12. /\ end \in pos .. Len(text)
         /\ ByteDecode(FlattenSeq(syms)) = SubSeq(text, pos, end)
    BY <1>4, <2>11 DEF TokIInv, Encoding
  <2>13. syms' = j
    BY <1>1 DEF j, k
  <2>14. Own' = Own
    BY <1>1 DEF Own
  <2>15. syms' \in Seq(Parts(vocab))
    BY <2>10, <2>13 DEF P
  <2>16. ByteDecode(FlattenSeq(syms')) = SubSeq(text, pos, end)
    BY <2>6, <2>12, <2>13
  <2> QED BY <1>1, <1>2, <1>4, <2>12, <2>14, <2>15, <2>16 DEF TokIInv, Encoding
<1>5. CASE ~Encoding
  BY <1>1, <1>2, <1>3, <1>5 DEF TokIInv, Encoding
<1> QED BY <1>4, <1>5

LEMMA EndStep ==
    ASSUME TokIInv, EndPiece
    PROVE  TokIInv'
<1> DEFINE n == Len(text)
           s == [k \in DOMAIN syms |-> Id(syms[k])]
<1>1. /\ vocab' = vocab /\ text' = text /\ end' = end
      /\ result' = result \o s /\ syms' = <<>> /\ pos' = end + 1
      /\ syms # <<>>
  BY DEF EndPiece
<1>2. vocab \in Vocabularies /\ text \in Seq(0 .. 255) /\ n \in Nat
  BY LenProperties DEF TokIInv
<1>3. text # <<>>
  BY <1>1 DEF TokIInv
<1>4. CASE Encoding
  <2> DEFINE P == Parts(vocab)
             m == Len(syms)
             f == [k \in DOMAIN s |-> ByteDecode(vocab.tokens[s[k] + 1])]
  <2>1. /\ result \in Seq(Nat) /\ (vocab.add_bos => result # <<>>)
        /\ pos \in 1 .. n + 1 /\ Valid(vocab, Own)
        /\ Spelled(vocab, Own) = SubSeq(text, 1, pos - 1)
        /\ syms \in Seq(P) /\ P \subseteq ToSet(vocab.tokens)
        /\ end \in pos .. n
        /\ ByteDecode(FlattenSeq(syms)) = SubSeq(text, pos, end)
    BY <1>1, <1>4 DEF TokIInv, Encoding
  <2>2. /\ m \in Nat /\ DOMAIN syms = 1 .. m /\ P \subseteq Words
        /\ \A k \in 1 .. m : syms[k] \in P
    BY <1>2, <2>1, LenProperties, ElementOfSeq, PartsType
  <2>3. syms \in Seq(Words)
    BY <2>1, <2>2, SeqMonotonic
  <2> HIDE DEF P, m
  <2>4. ASSUME NEW k \in 1 .. m
        PROVE  /\ Id(syms[k]) \in Nat
               /\ Id(syms[k]) + 1 \in 1 .. Len(vocab.tokens)
               /\ vocab.tokens[Id(syms[k]) + 1] = syms[k]
    <3>1. Known(syms[k])
      BY <2>1, <2>2 DEF Known
    <3> QED BY <1>2, <3>1, KnownId
  <2>5. /\ s \in [1 .. m -> Nat]
        /\ \A k \in 1 .. m : s[k] = Id(syms[k])
    BY <2>2, <2>4
  <2> HIDE DEF s
  <2>6. s \in Seq(Nat) /\ Len(s) = m /\ DOMAIN s = 1 .. m
    BY <2>2, <2>5, FunctionIsSeq
  <2>7. Valid(vocab, s)
    BY <2>4, <2>5, <2>6 DEF Valid
  <2>8. \A k \in 1 .. m : f[k] = ByteDecode(syms[k])
    BY <2>4, <2>5, <2>6
  <2>9. f \in Seq(Words) /\ Len(f) = m
    BY <1>2, <2>6, <2>7, SpelledWords
  <2>10. Spelled(vocab, s) = FlattenSeq(f)
    BY DEF Spelled
  <2> HIDE DEF f
  <2>11. FlattenSeq(f) = ByteDecode(FlattenSeq(syms))
    BY <2>3, <2>8, <2>9, DecodeFlatten DEF m
  <2>12. /\ result' \in Seq(Nat) /\ (vocab.add_bos => result' # <<>>)
         /\ Valid(vocab, Own')
         /\ Spelled(vocab, Own') = Spelled(vocab, Own) \o Spelled(vocab, s)
    BY <1>1, <1>2, <2>1, <2>7, OwnGrows
  <2>13. /\ pos - 1 \in 1 - 1 .. n /\ end \in pos - 1 .. n
         /\ 1 \in 1 .. n + 1 /\ (pos - 1) + 1 = pos
         /\ end + 1 \in 1 .. n + 1 /\ (end + 1) - 1 = end
    BY <1>2, <2>1
  <2>14. SubSeq(text, 1, pos - 1) \o SubSeq(text, pos, end) =
           SubSeq(text, 1, end)
    <3>1. SubSeq(text, 1, pos - 1) \o SubSeq(text, (pos - 1) + 1, end)
             = SubSeq(text, 1, end)
      BY <1>2, <2>13, ConcatAdjacentSubSeq
    <3> QED BY <2>13, <3>1
  <2>15. Spelled(vocab, Own') = SubSeq(text, 1, pos' - 1)
    BY <1>1, <2>1, <2>10, <2>11, <2>12, <2>13, <2>14
  <2>16. pos' \in 1 .. n + 1 /\ <<>> \in Seq(Parts(vocab))
    BY <1>1, <2>13
  <2> QED BY <1>1, <1>2, <1>4, <2>12, <2>15, <2>16 DEF TokIInv, Encoding
<1>5. CASE ~Encoding
  BY <1>1, <1>2, <1>3, <1>5 DEF TokIInv, Encoding
<1> QED BY <1>4, <1>5

LEMMA TokSteps == TokIInv /\ [TokNext]_tokVars => TokIInv'
<1> SUFFICES ASSUME TokIInv, [TokNext]_tokVars PROVE TokIInv'
  OBVIOUS
<1>1. ASSUME NEW input \in Inputs, Encode(input[1], input[2]) PROVE TokIInv'
  BY <1>1, EncodeStep
<1>2. CASE TakeSpecial
  BY <1>2, SpecialStep
<1>3. CASE BeginPiece
  BY <1>3, BeginStep
<1>4. CASE JoinPair
  BY <1>4, JoinStep
<1>5. CASE EndPiece
  BY <1>5, EndStep
<1>6. CASE UNCHANGED tokVars
  <2>1. UNCHANGED <<vocab, text, pos, end, syms, result>>
    BY <1>6 DEF tokVars
  <2>2. Own' = Own
    BY <2>1 DEF Own
  <2> QED BY <2>1, <2>2 DEF TokIInv
<1> QED BY <1>1, <1>2, <1>3, <1>4, <1>5, <1>6 DEF TokNext, TokStep

LEMMA TextOfInvariant == TokIInv => EncodesText
<1> SUFFICES ASSUME TokIInv, text # <<>>, Closed
             PROVE  EncodesText
  BY DEF EncodesText
<1> DEFINE n == Len(text)
           ids == Own
           f == [k \in DOMAIN ids |-> Meant(ids[k])]
           g == [k \in DOMAIN ids |-> ByteDecode(vocab.tokens[ids[k] + 1])]
<1>1. Parts(vocab) \subseteq ToSet(vocab.tokens)
  BY DEF Closed, Parts
<1>2. /\ vocab \in Vocabularies /\ text \in Seq(0 .. 255) /\ n \in Nat
      /\ pos \in 1 .. n + 1 /\ Valid(vocab, Own)
      /\ Spelled(vocab, Own) = SubSeq(text, 1, pos - 1)
      /\ syms # <<>> =>
            /\ end \in pos .. n
            /\ ByteDecode(FlattenSeq(syms)) = SubSeq(text, pos, end)
  BY <1>1, LenProperties DEF TokIInv
<1>3. f = g
  <2>1. \A k \in DOMAIN ids : /\ ids[k] \in Nat
                              /\ ids[k] + 1 \in 1 .. Len(vocab.tokens)
    BY <1>2, LenProperties DEF Valid
  <2> HIDE DEF ids
  <2>2. \A k \in DOMAIN ids : Meant(ids[k]) =
          ByteDecode(vocab.tokens[ids[k] + 1])
    BY <1>2, <2>1, MeantIsText
  <2> QED BY <2>2
<1>4. FlattenSeq(f) = SubSeq(text, 1, pos - 1)
  BY <1>2, <1>3 DEF Spelled
<1> HIDE DEF f, g
<1>5. SubSeq(text, 1, n) = text
  BY <1>2, SubSeqFull
<1>6. ASSUME NEW b \in pos - 1 .. n
      PROVE  SubSeq(text, 1, pos - 1) \o SubSeq(text, pos, b) =
               SubSeq(text, 1, b)
  <2>1. pos - 1 \in 1 - 1 .. n /\ 1 \in 1 .. n + 1 /\ (pos - 1) + 1 = pos
    BY <1>2
  <2>2. SubSeq(text, 1, pos - 1) \o SubSeq(text, (pos - 1) + 1, b)
           = SubSeq(text, 1, b)
    BY <1>2, <2>1, ConcatAdjacentSubSeq
  <2> QED BY <2>1, <2>2
<1>7. CASE syms = <<>>
  <2>1. ByteDecode(FlattenSeq(syms)) = <<>>
    BY <1>7, FlattenNone, DecodeNone
  <2>2. SubSeq(text, 1, pos - 1) \in Words
    <3>1. 1 \in 1 .. n + 1 /\ pos - 1 \in 1 - 1 .. n
      BY <1>2
    <3> QED BY <1>2, <3>1, SubText
  <2>3. SubSeq(text, 1, pos - 1) \o <<>> = SubSeq(text, 1, pos - 1)
    BY <2>2, Joined
  <2>4. n \in pos - 1 .. n
    BY <1>2
  <2>5. SubSeq(text, 1, pos - 1) \o SubSeq(text, pos, n) = text
    BY <1>5, <1>6, <2>4
  <2>6. (FlattenSeq(f) \o ByteDecode(FlattenSeq(syms))) \o SubSeq(text, pos, n)
           = text
    BY <1>4, <2>1, <2>3, <2>5
  <2> QED BY <1>7, <2>6 DEF EncodesText, Own, f
<1>8. CASE syms # <<>>
  <2>1. end \in pos - 1 .. n /\ end + 1 \in 1 .. n + 1 /\ end \in 1 - 1 .. n
        /\ n \in end .. n /\ 1 \in 1 .. n + 1
    BY <1>2, <1>8
  <2>2. FlattenSeq(f) \o ByteDecode(FlattenSeq(syms)) = SubSeq(text, 1, end)
    BY <1>2, <1>4, <1>6, <1>8, <2>1
  <2>3. SubSeq(text, 1, end) \o SubSeq(text, end + 1, n) = text
    BY <1>2, <1>5, <2>1, ConcatAdjacentSubSeq
  <2>4. (FlattenSeq(f) \o ByteDecode(FlattenSeq(syms)))
           \o SubSeq(text, end + 1, n) = text
    BY <2>2, <2>3
  <2> QED BY <1>8, <2>4 DEF EncodesText, Own, f
<1> QED BY <1>7, <1>8

\* encode loses, doubles and reorders nothing, for every vocabulary that has
\* all bytes and all products of its merges, and every text
\* (Gpt2Tokenizer::encode, decode).
THEOREM TextIsEncoded == TokSpec => []EncodesText
<1>1. TokInit => TokIInv
  <2> SUFFICES ASSUME TokInit PROVE TokIInv
    OBVIOUS
  <2>1. <<>> \in Seq(0 .. 255)
    BY EmptySeq
  <2> QED BY <2>1 DEF TokInit, TokIInv
<1>2. TokIInv /\ [TokNext]_tokVars => TokIInv'
  BY TokSteps
<1>3. TokIInv => EncodesText
  BY TextOfInvariant
<1> QED BY <1>1, <1>2, <1>3, PTL DEF TokSpec
-----------------------------------------------------------------------------
(* The reference: all the occurrences of a pair at once *)

\* The symbols of a piece: words, none of them empty.
Letters == Words \ {<<>>}

LEMMA LetterJoined ==
    ASSUME NEW a \in Letters, NEW b \in Letters
    PROVE  a \o b \in Letters /\ a \o b # a /\ a \o b # b
<1>1. /\ a \in Words /\ b \in Words /\ Len(a) \in Nat /\ Len(b) \in Nat
      /\ Len(a) > 0 /\ Len(b) > 0
  BY LenProperties, EmptySeq DEF Letters, Words
<1>2. a \o b \in Words /\ Len(a \o b) = Len(a) + Len(b)
  BY <1>1, ConcatProperties DEF Words
<1>3. Len(a \o b) # 0 /\ Len(a \o b) # Len(a) /\ Len(a \o b) # Len(b)
  BY <1>1, <1>2
<1> QED BY <1>2, <1>3, EmptySeq DEF Letters

LEMMA LetterPrepended ==
    ASSUME NEW a \in Letters, NEW s \in Seq(Letters)
    PROVE  /\ <<a>> \o s \in Seq(Letters) /\ Len(<<a>> \o s) = 1 + Len(s)
           /\ Len(s) \in Nat
<1>1. <<a>> \in Seq(Letters) /\ Len(<<a>>) = 1
  OBVIOUS
<1> QED BY <1>1, ConcatProperties, LenProperties

LEMMA NoLetters == <<>> \in Seq(Letters)
OBVIOUS

\* u[m] is what becomes of the last m symbols of s when the pair p is joined.
Ends(u, s, p) ==
    /\ u \in [0 .. Len(s) -> Seq(Letters)] /\ u[0] = <<>>
    /\ \A m \in 1 .. Len(s) :
          u[m] = IF m > 1 /\ <<s[Len(s) - m + 1], s[Len(s) - m + 2]>> = p
                 THEN <<p[1] \o p[2]>> \o u[m - 2]
                 ELSE <<s[Len(s) - m + 1]>> \o u[m - 1]

\* Induction with the two numbers before.
LEMMA TwoStepInduction ==
    ASSUME NEW n \in Nat, NEW S, 0 \in S, n >= 1 => 1 \in S,
           \A j \in Nat : j + 2 <= n /\ j \in S /\ j + 1 \in S => j + 2 \in S
    PROVE  0 .. n \subseteq S
<1> DEFINE T == {j \in Nat : (j <= n => j \in S) /\ (j + 1 <= n => j + 1 \in S)}
<1>1. 0 \in T
  OBVIOUS
<1>2. ASSUME NEW j \in Nat, j \in T PROVE j + 1 \in T
  <2>1. j + 1 <= n => j + 1 \in S
    BY <1>2
  <2>2. ASSUME (j + 1) + 1 <= n PROVE (j + 1) + 1 \in S
    <3>1. (j + 1) + 1 = j + 2 /\ j + 2 <= n /\ j <= n /\ j + 1 <= n
      BY <2>2
    <3>2. j \in S /\ j + 1 \in S
      BY <1>2, <3>1
    <3> QED BY <3>1, <3>2
  <2> QED BY <2>1, <2>2
<1> HIDE DEF T
<1>3. Nat \subseteq T
  BY <1>1, <1>2, SetInduction
<1> QED BY <1>3 DEF T

LEMMA EndsExist ==
    ASSUME NEW s \in Seq(Letters), NEW p \in Letters \X Letters
    PROVE  \E u : Ends(u, s, p) /\ JoinAll(s, p) = u[Len(s)]
<1> DEFINE n == Len(s)
           x == <<p[1] \o p[2]>>
           Pair(m) == m > 1 /\ <<s[n - m + 1], s[n - m + 2]>> = p
           Body(u) == [m \in 0 .. n |->
                         IF m = 0 THEN <<>>
                         ELSE IF Pair(m) THEN x \o u[m - 2]
                         ELSE <<s[n - m + 1]>> \o u[m - 1]]
           u == CHOOSE u : u = Body(u)
           V == Seq(Letters) \X Seq(Letters)
           F == [m \in 1 .. n |-> [y \in V |->
                    <<IF Pair(m) THEN x \o y[2] ELSE <<s[n - m + 1]>> \o y[1],
                      y[1]>>]]
<1>1. n \in Nat /\ \A k \in 1 .. n : s[k] \in Letters
  BY LenProperties
<1>2. ASSUME NEW w \in Seq(Letters) PROVE x \o w \in Seq(Letters)
  <2>1. p[1] \o p[2] \in Letters
    BY LetterJoined
  <2> QED BY <2>1, LetterPrepended
<1>3. ASSUME NEW w \in Seq(Letters), NEW m \in 1 .. n
      PROVE  <<s[n - m + 1]>> \o w \in Seq(Letters)
  <2>1. n - m + 1 \in 1 .. n
    BY <1>1
  <2> QED BY <1>1, <2>1, LetterPrepended
<1> HIDE DEF n, x, Pair
<1>4. F \in [1 .. n -> [V -> V]]
  <2>1. ASSUME NEW m \in 1 .. n, NEW y \in V
        PROVE  <<IF Pair(m) THEN x \o y[2] ELSE <<s[n - m + 1]>> \o y[1],
                 y[1]>> \in V
    <3>1. y[1] \in Seq(Letters) /\ y[2] \in Seq(Letters)
      OBVIOUS
    <3>2. /\ x \o y[2] \in Seq(Letters)
          /\ <<s[n - m + 1]>> \o y[1] \in Seq(Letters)
      BY <1>2, <1>3, <3>1
    <3> QED BY <3>1, <3>2
  <2> HIDE DEF V
  <2> QED BY <2>1
<1>5. <<<<>>, <<>>>> \in V
  BY NoLetters, Zenon
<1>6. PICK f : Iterates(f, V, <<<<>>, <<>>>>, F, n)
  <2> HIDE DEF F, V
  <2> QED BY <1>1, <1>4, <1>5, IterationExists
<1>7. /\ \A m \in 0 .. n : f[m] \in V
      /\ f[0] = <<<<>>, <<>>>>
      /\ \A m \in 1 .. n :
            f[m] = <<IF Pair(m) THEN x \o f[m - 1][2]
                     ELSE <<s[n - m + 1]>> \o f[m - 1][1], f[m - 1][1]>>
      /\ \A m \in 1 .. n : f[m][2] = f[m - 1][1]
  <2>1. /\ \A m \in 0 .. n : f[m] \in V
        /\ f[0] = <<<<>>, <<>>>>
        /\ \A m \in 1 .. n : f[m] = F[m][f[m - 1]]
    <3> HIDE DEF F, V
    <3> QED BY <1>1, <1>6 DEF Iterates
  <2>2. ASSUME NEW m \in 1 .. n
        PROVE  f[m] = <<IF Pair(m) THEN x \o f[m - 1][2]
                        ELSE <<s[n - m + 1]>> \o f[m - 1][1], f[m - 1][1]>>
    <3>1. f[m - 1] \in V
      BY <1>1, <2>1
    <3> HIDE DEF V
    <3> QED BY <2>1, <3>1
  <2>3. ASSUME NEW m \in 1 .. n PROVE f[m][2] = f[m - 1][1]
    <3> DEFINE a == IF Pair(m) THEN x \o f[m - 1][2]
                    ELSE <<s[n - m + 1]>> \o f[m - 1][1]
               b == f[m - 1][1]
    <3>1. f[m] = <<a, b>>
      BY <2>2
    <3> HIDE DEF a, b
    <3>2. f[m][2] = b
      BY <3>1
    <3> QED BY <3>2 DEF b
  <2> QED BY <2>1, <2>2, <2>3
<1> DEFINE g == [m \in 0 .. n |-> f[m][1]]
<1>8. ASSUME NEW m \in 1 .. n
      PROVE  g[m] =
               IF Pair(m) THEN x \o g[m - 2] ELSE <<s[n - m + 1]>> \o g[m - 1]
  <2>1. m - 1 \in 0 .. n /\ m \in 0 .. n
    BY <1>1
  <2>2. f[m][1] = IF Pair(m) THEN x \o f[m - 1][2]
                  ELSE <<s[n - m + 1]>> \o f[m - 1][1]
    BY <1>7
  <2>3. CASE Pair(m)
    <3>1. m - 1 \in 1 .. n /\ m - 2 \in 0 .. n /\ (m - 1) - 1 = m - 2
      BY <1>1, <2>3 DEF Pair
    <3>2. f[m - 1][2] = f[m - 2][1]
      BY <1>7, <3>1
    <3> QED BY <2>1, <2>2, <2>3, <3>1, <3>2
  <2>4. CASE ~Pair(m)
    BY <2>1, <2>2, <2>4
  <2> QED BY <2>3, <2>4
<1>9. g[0] = <<>>
  BY <1>1, <1>7
<1>10. g = Body(g)
  <2>1. ASSUME NEW m \in 0 .. n
        PROVE  g[m] = IF m = 0 THEN <<>>
                      ELSE IF Pair(m) THEN x \o g[m - 2]
                      ELSE <<s[n - m + 1]>> \o g[m - 1]
    <3>1. CASE m = 0
      BY <1>9, <3>1
    <3>2. CASE m # 0
      <4>1. m \in 1 .. n
        BY <1>1, <3>2
      <4> QED BY <1>8, <3>2, <4>1
    <3> QED BY <3>1, <3>2
  <2>2. g = [m \in 0 .. n |-> g[m]]
    OBVIOUS
  <2> HIDE DEF g
  <2> QED BY <2>1, <2>2
<1> HIDE DEF g
<1>11. u = Body(u)
  <2> HIDE DEF Body
  <2> QED BY <1>10
<1> HIDE DEF u
<1>12. /\ u = [m \in 0 .. n |-> u[m]] /\ u[0] = <<>>
       /\ \A m \in 1 .. n : u[m] = IF Pair(m) THEN x \o u[m - 2]
                                   ELSE <<s[n - m + 1]>> \o u[m - 1]
  <2>1. u = [m \in 0 .. n |-> IF m = 0 THEN <<>>
                              ELSE IF Pair(m) THEN x \o u[m - 2]
                              ELSE <<s[n - m + 1]>> \o u[m - 1]]
    BY <1>11
  <2> HIDE DEF Body
  <2>2. DOMAIN u = 0 .. n
    BY <2>1, Zenon
  <2>3. \A m \in 0 .. n : u[m] = IF m = 0 THEN <<>>
                                  ELSE IF Pair(m) THEN x \o u[m - 2]
                                  ELSE <<s[n - m + 1]>> \o u[m - 1]
    BY <2>1, Zenon
  <2>4. u = [m \in 0 .. n |-> u[m]]
    BY <2>1, <2>2, Zenon
  <2>5. 0 \in 0 .. n /\ \A m \in 1 .. n : m \in 0 .. n /\ m # 0
    BY <1>1
  <2> QED BY <2>3, <2>4, <2>5, Zenon
<1> DEFINE S == {m \in 0 .. n : u[m] \in Seq(Letters)}
<1>13. 0 .. n \subseteq S
  <2>1. 0 \in S
    <3>1. 0 \in 0 .. n /\ u[0] = <<>>
      BY <1>1, <1>12
    <3>2. u[0] \in Seq(Letters)
      BY <3>1, NoLetters, Zenon
    <3> QED BY <3>1, <3>2
  <2>2. ASSUME n >= 1 PROVE 1 \in S
    <3>1. 1 \in 1 .. n /\ ~Pair(1) /\ 1 - 1 = 0
      BY <1>1, <2>2 DEF Pair
    <3>2. u[1] = <<s[n - 1 + 1]>> \o u[0]
      BY <1>12, <3>1
    <3>3. <<s[n - 1 + 1]>> \o u[0] \in Seq(Letters)
      BY <1>3, <1>12, <3>1, NoLetters
    <3>4. 1 \in 0 .. n /\ u[1] \in Seq(Letters)
      BY <1>1, <2>2, <3>2, <3>3
    <3> QED BY <3>4
  <2>3. ASSUME NEW j \in Nat, j + 2 <= n, j \in S, j + 1 \in S
        PROVE  j + 2 \in S
    <3>1. /\ j + 2 \in 1 .. n /\ (j + 2) - 2 = j /\ (j + 2) - 1 = j + 1
          /\ j + 2 \in 0 .. n
      BY <1>1, <2>3
    <3>2. u[j] \in Seq(Letters) /\ u[j + 1] \in Seq(Letters)
      BY <2>3
    <3>3. u[j + 2] = IF Pair(j + 2) THEN x \o u[j]
                     ELSE <<s[n - (j + 2) + 1]>> \o u[j + 1]
      BY <1>12, <3>1
    <3>4. /\ x \o u[j] \in Seq(Letters)
          /\ <<s[n - (j + 2) + 1]>> \o u[j + 1] \in Seq(Letters)
      BY <1>2, <1>3, <3>1, <3>2
    <3> QED BY <3>1, <3>3, <3>4
  <2> HIDE DEF S
  <2> QED BY <1>1, <2>1, <2>2, <2>3, TwoStepInduction
<1>14. u \in [0 .. n -> Seq(Letters)]
  BY <1>12, <1>13
<1>15. Ends(u, s, p)
  BY <1>12, <1>14 DEF Ends, n, Pair, x
<1>16. JoinAll(s, p) = u[n]
  BY DEF JoinAll, u, Body, Pair, x, n
<1> QED BY <1>15, <1>16 DEF n

\* p is a pair of neighbours in s.
Occurs(p, s) == \E k \in 1 .. Len(s) - 1 : <<s[k], s[k + 1]>> = p

\* What the pair does not occur in stays; what it occurs in becomes shorter.
LEMMA JoinAllShortens ==
    ASSUME NEW s \in Seq(Letters), NEW p \in Letters \X Letters
    PROVE  /\ JoinAll(s, p) \in Seq(Letters)
           /\ Len(JoinAll(s, p)) <= Len(s)
           /\ Occurs(p, s) => Len(JoinAll(s, p)) < Len(s)
<1> DEFINE n == Len(s)
<1>1. PICK u : Ends(u, s, p) /\ JoinAll(s, p) = u[n]
  BY EndsExist
<1>2. n \in Nat /\ \A k \in 1 .. n : s[k] \in Letters
  BY LenProperties
<1>3. p[1] \o p[2] \in Letters
  BY LetterJoined
<1>4. \A m \in 0 .. n : u[m] \in Seq(Letters) /\ Len(u[m]) \in Nat
  BY <1>1, LenProperties DEF Ends
<1>5. u[0] = <<>>
  BY <1>1 DEF Ends
\* Step by step, with what the pair's occurrences leave.
<1> DEFINE Pair(m) == m > 1 /\ <<s[n - m + 1], s[n - m + 2]>> = p
           Among(m) == \E k \in 2 .. m : Pair(k)
           S == {m \in 0 .. n : /\ Len(u[m]) <= m
                                /\ Among(m) => Len(u[m]) <= m - 1}
<1>6. ASSUME NEW m \in 1 .. n
      PROVE  /\ Pair(m) => Len(u[m]) = 1 + Len(u[m - 2])
             /\ ~Pair(m) => Len(u[m]) = 1 + Len(u[m - 1])
  <2>1. u[m] = IF Pair(m) THEN <<p[1] \o p[2]>> \o u[m - 2]
               ELSE <<s[n - m + 1]>> \o u[m - 1]
    BY <1>1 DEF Ends
  <2>2. CASE Pair(m)
    <3>1. m - 2 \in 0 .. n
      BY <1>2, <2>2
    <3>2. u[m - 2] \in Seq(Letters)
      BY <1>4, <3>1
    <3>3. Len(<<p[1] \o p[2]>> \o u[m - 2]) = 1 + Len(u[m - 2])
      BY <1>3, <3>2, LetterPrepended
    <3> QED BY <2>1, <2>2, <3>3
  <2>3. CASE ~Pair(m)
    <3>1. m - 1 \in 0 .. n /\ n - m + 1 \in 1 .. n
      BY <1>2
    <3>2. u[m - 1] \in Seq(Letters) /\ s[n - m + 1] \in Letters
      BY <1>2, <1>4, <3>1
    <3>3. Len(<<s[n - m + 1]>> \o u[m - 1]) = 1 + Len(u[m - 1])
      BY <3>2, LetterPrepended
    <3> QED BY <2>1, <2>3, <3>3
  <2> QED BY <2>2, <2>3
<1>7. \A m \in 0 .. 1 : ~Among(m)
  BY DEF Pair
<1>8. \A m \in 2 .. n : Among(m) => Pair(m) \/ Among(m - 1)
  <2>1. ASSUME NEW m \in 2 .. n, NEW k \in 2 .. m, Pair(k), ~Pair(m)
        PROVE  Among(m - 1)
    <3>1. k # m
      BY <2>1
    <3>2. k \in 2 .. m - 1
      BY <1>2, <3>1
    <3> QED BY <2>1, <3>2
  <2> HIDE DEF Pair
  <2> QED BY <2>1
<1>9. Occurs(p, s) => Among(n)
  <2>1. ASSUME NEW k \in 1 .. n - 1, <<s[k], s[k + 1]>> = p
        PROVE  Among(n)
    <3>1. /\ n - k + 1 \in 2 .. n /\ n - k + 1 > 1
          /\ n - (n - k + 1) + 1 = k /\ n - (n - k + 1) + 2 = k + 1
      BY <1>2
    <3>2. Pair(n - k + 1)
      BY <2>1, <3>1
    <3> HIDE DEF Pair
    <3> QED BY <3>1, <3>2
  <2> QED BY <2>1 DEF Occurs
<1> HIDE DEF Among
<1>10. 0 \in S
  BY <1>2, <1>5, <1>7
<1>11. ASSUME n >= 1 PROVE 1 \in S
  <2>1. ~Pair(1) /\ 1 \in 1 .. n /\ 1 - 1 = 0 /\ Len(u[0]) = 0
    BY <1>2, <1>5, <1>11
  <2> HIDE DEF Pair
  <2>2. Len(u[1]) = 1 + Len(u[1 - 1])
    BY <1>6, <2>1, Zenon
  <2>3. Len(u[1]) = 1
    BY <2>1, <2>2
  <2>4. 1 \in 0 .. n /\ ~Among(1)
    BY <1>2, <1>7, <1>11
  <2>5. Len(u[1]) <= 1
    BY <2>3
  <2> QED BY <2>4, <2>5, Zenon
<1> HIDE DEF Pair
<1>12. ASSUME NEW j \in Nat, j + 2 <= n, j \in S, j + 1 \in S
       PROVE  j + 2 \in S
  <2>1. /\ j + 2 \in 2 .. n /\ j + 2 \in 1 .. n /\ j + 2 \in 0 .. n
        /\ (j + 2) - 2 = j /\ (j + 2) - 1 = j + 1
        /\ j \in 0 .. n /\ j + 1 \in 0 .. n
    BY <1>2, <1>12
  <2>2. /\ Len(u[j]) \in Nat /\ Len(u[j + 1]) \in Nat /\ Len(u[j]) <= j
        /\ Len(u[j + 1]) <= j + 1 /\ (Among(j + 1) => Len(u[j + 1]) <= j)
    BY <1>4, <1>12, <2>1
  <2>3. CASE Pair(j + 2)
    <3>1. Len(u[j + 2]) = 1 + Len(u[j])
      BY <1>6, <2>1, <2>3
    <3> QED BY <2>1, <2>2, <3>1
  <2>4. CASE ~Pair(j + 2)
    <3>1. Len(u[j + 2]) = 1 + Len(u[j + 1])
      BY <1>6, <2>1, <2>4
    <3>2. Among(j + 2) => Among(j + 1)
      BY <1>8, <2>1, <2>4
    <3> QED BY <2>1, <2>2, <3>1, <3>2
  <2> QED BY <2>3, <2>4
<1> HIDE DEF S
<1>13. n \in S
  <2>1. 0 .. n \subseteq S
    BY <1>2, <1>10, <1>11, <1>12, TwoStepInduction
  <2> QED BY <1>2, <2>1
<1>14. /\ u[n] \in Seq(Letters) /\ Len(u[n]) <= n
       /\ Among(n) => Len(u[n]) < n
  <2>1. Len(u[n]) <= n /\ (Among(n) => Len(u[n]) <= n - 1)
    BY <1>13 DEF S
  <2>2. u[n] \in Seq(Letters) /\ Len(u[n]) \in Nat
    BY <1>2, <1>4
  <2> QED BY <1>2, <2>1, <2>2
<1> QED BY <1>1, <1>9, <1>14

LEMMA PrependedElement ==
    ASSUME NEW a \in Letters, NEW s \in Seq(Letters), NEW i \in 1 .. Len(s) + 1
    PROVE  (<<a>> \o s)[i] = IF i = 1 THEN a ELSE s[i - 1]
<1>1. <<a>> \in Seq(Letters) /\ Len(<<a>>) = 1 /\ <<a>>[1] = a
  OBVIOUS
<1>2. Len(s) \in Nat
  BY LenProperties
<1> QED BY <1>1, <1>2, ConcatProperties

LEMMA JoinAllNothing ==
    ASSUME NEW s \in Seq(Letters), NEW p \in Letters \X Letters, ~Occurs(p, s)
    PROVE  JoinAll(s, p) = s
<1> DEFINE n == Len(s)
<1>1. PICK u : Ends(u, s, p) /\ JoinAll(s, p) = u[n]
  BY EndsExist
<1>2. n \in Nat /\ \A k \in 1 .. n : s[k] \in Letters
  BY LenProperties
<1>3. u[0] = <<>> /\ \A m \in 0 .. n : u[m] \in Seq(Letters)
  BY <1>1 DEF Ends
<1>4. ASSUME NEW m \in 1 .. n PROVE u[m] = <<s[n - m + 1]>> \o u[m - 1]
  <2>1. ASSUME m > 1 PROVE <<s[n - m + 1], s[n - m + 2]>> # p
    <3>1. n - m + 1 \in 1 .. n - 1 /\ (n - m + 1) + 1 = n - m + 2
      BY <1>2, <2>1
    <3> QED BY <3>1 DEF Occurs
  <2> QED BY <1>1, <2>1 DEF Ends
<1> DEFINE S == {m \in Nat : m <= n =>
                    Len(u[m]) = m /\ \A i \in 1 .. m : u[m][i] = s[n - m + i]}
<1>5. 0 \in S
  BY <1>3
<1>6. ASSUME NEW m \in Nat, m \in S PROVE m + 1 \in S
  <2> SUFFICES ASSUME m + 1 <= n
               PROVE  /\ Len(u[m + 1]) = m + 1
                      /\ \A i \in 1 .. m + 1 : u[m + 1][i] = s[n - (m + 1) + i]
    OBVIOUS
  <2>1. /\ m + 1 \in 1 .. n /\ (m + 1) - 1 = m /\ m \in 0 .. n
        /\ n - (m + 1) + 1 \in 1 .. n
    BY <1>2
  <2>2. Len(u[m]) = m /\ \A i \in 1 .. m : u[m][i] = s[n - m + i]
    BY <1>2, <1>6, <2>1
  <2>3. /\ u[m + 1] = <<s[n - (m + 1) + 1]>> \o u[m]
        /\ u[m] \in Seq(Letters) /\ s[n - (m + 1) + 1] \in Letters
    BY <1>2, <1>3, <1>4, <2>1
  <2>4. Len(u[m + 1]) = m + 1
    BY <2>2, <2>3, LetterPrepended
  <2>5. ASSUME NEW i \in 1 .. m + 1 PROVE u[m + 1][i] = s[n - (m + 1) + i]
    <3>1. u[m + 1][i] = IF i = 1 THEN s[n - (m + 1) + 1] ELSE u[m][i - 1]
      BY <2>2, <2>3, PrependedElement
    <3>2. CASE i = 1
      BY <3>1, <3>2
    <3>3. CASE i # 1
      <4>1. i - 1 \in 1 .. m /\ n - m + (i - 1) = n - (m + 1) + i
        BY <1>2, <3>3
      <4>2. u[m][i - 1] = s[n - m + (i - 1)]
        BY <2>2, <4>1
      <4> QED BY <3>1, <3>3, <4>1, <4>2
    <3> QED BY <3>2, <3>3
  <2> QED BY <2>4, <2>5
<1> HIDE DEF S
<1>7. n \in S
  BY <1>2, <1>5, <1>6, SetInduction
<1>8. Len(u[n]) = n /\ \A i \in 1 .. n : u[n][i] = s[i]
  <2>1. Len(u[n]) = n /\ \A i \in 1 .. n : u[n][i] = s[n - n + i]
    BY <1>2, <1>7 DEF S
  <2>2. \A i \in 1 .. n : n - n + i = i
    BY <1>2
  <2> QED BY <2>1, <2>2
<1>9. u[n] \in Seq(Letters) /\ n \in 0 .. n
  BY <1>2, <1>3
<1> QED BY <1>1, <1>8, <1>9, SeqEqual

\* t is s with the two symbols at k joined: nothing else is moved but by one.
JoinedOnce(s, k, t) ==
    /\ t \in Seq(Letters) /\ Len(t) = Len(s) - 1
    /\ \A i \in 1 .. Len(s) - 1 :
          t[i] = IF i < k THEN s[i] ELSE IF i = k THEN s[k] \o s[k + 1]
                 ELSE s[i + 1]

\* To join the first occurrence of a pair alone changes nothing of what joining
\* all of them gives: what is made of it is neither of the pair's symbols.
LEMMA JoinAllGoesOn ==
    ASSUME NEW s \in Seq(Letters), NEW k \in 1 .. Len(s) - 1, NEW t,
           JoinedOnce(s, k, t),
           \A i \in 1 .. k - 1 : <<s[i], s[i + 1]>> # <<s[k], s[k + 1]>>
    PROVE  JoinAll(t, <<s[k], s[k + 1]>>) = JoinAll(s, <<s[k], s[k + 1]>>)
<1> DEFINE n == Len(s)
           a == s[k]
           b == s[k + 1]
           p == <<a, b>>
<1>1. /\ n \in Nat /\ \A i \in 1 .. n : s[i] \in Letters
      /\ k \in 1 .. n /\ k + 1 \in 1 .. n
  BY LenProperties
<1>2. /\ t \in Seq(Letters) /\ Len(t) = n - 1
      /\ \A i \in 1 .. n - 1 : t[i] = IF i < k THEN s[i]
                                      ELSE IF i = k THEN a \o b ELSE s[i + 1]
  BY DEF JoinedOnce
<1>3. a \in Letters /\ b \in Letters /\ a \o b # a /\ a \o b # b
  BY <1>1, LetterJoined
<1>4. \A i \in 1 .. k - 1 : <<s[i], s[i + 1]>> # p
  OBVIOUS
<1> HIDE DEF a, b
<1>5. p \in Letters \X Letters /\ p[1] = a /\ p[2] = b
  BY <1>3
<1>6. p = <<s[k], s[k + 1]>>
  BY DEF a, b
<1> HIDE DEF p, n
<1>7. PICK u : Ends(u, s, p) /\ JoinAll(s, p) = u[n]
  BY <1>5, EndsExist DEF n
<1>8. PICK v : Ends(v, t, p) /\ JoinAll(t, p) = v[n - 1]
  BY <1>2, <1>5, EndsExist
<1> DEFINE Pair(w, i) == <<w[i], w[i + 1]>> = p
\* The recursions, by where the part begins.
<1>9. ASSUME NEW i \in 1 .. n
      PROVE  u[n - i + 1] =
               IF i < n /\ Pair(s, i) THEN <<a \o b>> \o u[n - i - 1]
                            ELSE <<s[i]>> \o u[n - i]
  <2>1. /\ n - i + 1 \in 1 .. n /\ n - (n - i + 1) + 1 = i
        /\ n - (n - i + 1) + 2 = i + 1 /\ (n - i + 1) - 2 = n - i - 1
        /\ (n - i + 1) - 1 = n - i /\ (n - i + 1 > 1 <=> i < n)
    BY <1>1
  <2>2. \A m \in 1 .. n :
           u[m] = IF m > 1 /\ <<s[n - m + 1], s[n - m + 2]>> = p
                  THEN <<p[1] \o p[2]>> \o u[m - 2]
                  ELSE <<s[n - m + 1]>> \o u[m - 1]
    BY <1>7 DEF Ends, n
  <2>3. u[n - i + 1] =
           IF n - i + 1 > 1 /\ <<s[n - (n - i + 1) + 1], s[n - (n - i + 1) + 2]>> =
             p
           THEN <<p[1] \o p[2]>> \o u[(n - i + 1) - 2]
           ELSE <<s[n - (n - i + 1) + 1]>> \o u[(n - i + 1) - 1]
    BY <2>1, <2>2
  <2> QED BY <1>5, <2>1, <2>3
<1>10. ASSUME NEW i \in 1 .. n - 1
       PROVE  v[n - i] =
                IF i < n - 1 /\ Pair(t, i) THEN <<a \o b>> \o v[n - i - 2]
                         ELSE <<t[i]>> \o v[n - i - 1]
  <2>1. /\ n - i \in 1 .. n - 1 /\ (n - 1) - (n - i) + 1 = i
        /\ (n - 1) - (n - i) + 2 = i + 1 /\ (n - i) - 2 = n - i - 2
        /\ (n - i) - 1 = n - i - 1 /\ (n - i > 1 <=> i < n - 1)
    BY <1>1
  <2>2. \A m \in 1 .. n - 1 :
           v[m] = IF m > 1 /\ <<t[(n - 1) - m + 1], t[(n - 1) - m + 2]>> = p
                  THEN <<p[1] \o p[2]>> \o v[m - 2]
                  ELSE <<t[(n - 1) - m + 1]>> \o v[m - 1]
    BY <1>2, <1>8 DEF Ends
  <2>3. v[n - i] =
           IF n - i > 1
              /\ <<t[(n - 1) - (n - i) + 1], t[(n - 1) - (n - i) + 2]>> = p
           THEN <<p[1] \o p[2]>> \o v[(n - i) - 2]
           ELSE <<t[(n - 1) - (n - i) + 1]>> \o v[(n - i) - 1]
    BY <2>1, <2>2
  <2> QED BY <1>5, <2>1, <2>3
<1>11. u[0] = <<>> /\ v[0] = <<>>
  BY <1>7, <1>8 DEF Ends
<1> HIDE DEF Pair
\* What lies behind is the same.
<1> DEFINE S == {m \in 0 .. n - 1 - k : u[m] = v[m]}
<1>12. 0 \in S
  BY <1>1, <1>11
<1>13. ASSUME NEW m \in 1 .. n - 1 - k
       PROVE  /\ m > 1 => \/ /\ u[m] = <<a \o b>> \o u[m - 2]
                             /\ v[m] = <<a \o b>> \o v[m - 2]
                          \/ /\ u[m] = <<s[n - m + 1]>> \o u[m - 1]
                             /\ v[m] = <<s[n - m + 1]>> \o v[m - 1]
              /\ m = 1 => /\ u[m] = <<s[n - m + 1]>> \o u[m - 1]
                          /\ v[m] = <<s[n - m + 1]>> \o v[m - 1]
  <2>1. /\ n - m + 1 \in 1 .. n /\ n - (n - m + 1) + 1 = m
        /\ n - (n - m + 1) - 1 = m - 2 /\ n - (n - m + 1) = m - 1
        /\ n - m \in 1 .. n - 1 /\ n - (n - m) = m
        /\ n - (n - m) - 2 = m - 2 /\ n - (n - m) - 1 = m - 1
        /\ (n - m + 1 < n <=> m > 1) /\ (n - m < n - 1 <=> m > 1)
    BY <1>1
  <2>2. u[m] = IF m > 1 /\ Pair(s, n - m + 1) THEN <<a \o b>> \o u[m - 2]
               ELSE <<s[n - m + 1]>> \o u[m - 1]
    <3>1. u[n - (n - m + 1) + 1] =
            IF n - m + 1 < n /\ Pair(s, n - m + 1)
            THEN <<a \o b>> \o u[n - (n - m + 1) - 1]
            ELSE <<s[n - m + 1]>> \o u[n - (n - m + 1)]
      BY <1>9, <2>1
    <3> QED BY <2>1, <3>1
  <2>3. v[m] = IF m > 1 /\ Pair(t, n - m) THEN <<a \o b>> \o v[m - 2]
               ELSE <<t[n - m]>> \o v[m - 1]
    <3>1. v[n - (n - m)] =
            IF n - m < n - 1 /\ Pair(t, n - m)
            THEN <<a \o b>> \o v[n - (n - m) - 2]
            ELSE <<t[n - m]>> \o v[n - (n - m) - 1]
      BY <1>10, <2>1
    <3> QED BY <2>1, <3>1
  <2>4. t[n - m] = s[n - m + 1]
    <3>1. ~(n - m < k) /\ n - m # k
      BY <1>1
    <3> QED BY <1>2, <2>1, <3>1
  <2>5. m > 1 => t[(n - m) + 1] = s[(n - m + 1) + 1]
    <3>1. ASSUME m > 1
          PROVE  /\ ~((n - m) + 1 < k) /\ (n - m) + 1 # k
                 /\ (n - m) + 1 \in 1 .. n - 1
                 /\ ((n - m) + 1) + 1 = (n - m + 1) + 1
      BY <1>1, <3>1
    <3> QED BY <1>2, <3>1
  <2>6. m > 1 => (Pair(s, n - m + 1) <=> Pair(t, n - m))
    BY <2>4, <2>5 DEF Pair
  <2>7. m = 1 => ~(m > 1)
    OBVIOUS
  <2>8. CASE m > 1 /\ Pair(s, n - m + 1)
    BY <2>2, <2>3, <2>6, <2>7, <2>8, Zenon
  <2>9. CASE ~(m > 1 /\ Pair(s, n - m + 1))
    <3>1. /\ u[m] = <<s[n - m + 1]>> \o u[m - 1]
          /\ v[m] = <<s[n - m + 1]>> \o v[m - 1]
      BY <2>2, <2>3, <2>4, <2>6, <2>9, Zenon
    <3> QED BY <3>1, Zenon
  <2> QED BY <2>8, <2>9, Zenon
<1>14. 0 .. n - 1 - k \subseteq S
  <2>1. n - 1 - k \in Nat
    BY <1>1
  <2>2. ASSUME n - 1 - k >= 1 PROVE 1 \in S
    <3>1. 1 \in 1 .. n - 1 - k /\ 1 \in 0 .. n - 1 - k /\ 1 - 1 = 0
      BY <2>1, <2>2
    <3>2. /\ u[1] = <<s[n - 1 + 1]>> \o u[1 - 1]
          /\ v[1] = <<s[n - 1 + 1]>> \o v[1 - 1]
      BY <1>13, <3>1
    <3>3. u[1] = v[1]
      BY <1>11, <3>1, <3>2
    <3> QED BY <3>1, <3>3
  <2>3. ASSUME NEW j \in Nat, j + 2 <= n - 1 - k, j \in S, j + 1 \in S
        PROVE  j + 2 \in S
    <3>1. /\ j + 2 \in 1 .. n - 1 - k /\ j + 2 \in 0 .. n - 1 - k /\ j + 2 > 1
          /\ (j + 2) - 2 = j /\ (j + 2) - 1 = j + 1
      BY <1>1, <2>3
    <3>2. u[j] = v[j] /\ u[j + 1] = v[j + 1]
      BY <2>3
    <3>3. \/ /\ u[j + 2] = <<a \o b>> \o u[(j + 2) - 2]
             /\ v[j + 2] = <<a \o b>> \o v[(j + 2) - 2]
          \/ /\ u[j + 2] = <<s[n - (j + 2) + 1]>> \o u[(j + 2) - 1]
             /\ v[j + 2] = <<s[n - (j + 2) + 1]>> \o v[(j + 2) - 1]
      BY <1>13, <3>1
    <3>4. u[j + 2] = v[j + 2]
      BY <3>1, <3>2, <3>3
    <3> QED BY <3>1, <3>4
  <2> HIDE DEF S
  <2> QED BY <1>12, <2>1, <2>2, <2>3, TwoStepInduction
\* There the pair becomes what is already joined.
<1>15. u[n - k + 1] = v[n - k]
  <2>1. n - k - 1 \in 0 .. n - 1 - k /\ k < n /\ k \in 1 .. n - 1
    BY <1>1
  <2>2. u[n - k - 1] = v[n - k - 1]
    BY <1>14, <2>1
  <2>3. u[n - k + 1] = <<a \o b>> \o u[n - k - 1]
    <3>1. Pair(s, k)
      BY <1>6 DEF Pair
    <3> QED BY <1>1, <1>9, <2>1, <3>1
  <2>4. v[n - k] = <<a \o b>> \o v[n - k - 1]
    <3>1. t[k] = a \o b
      BY <1>2, <2>1
    <3>2. ~Pair(t, k)
      BY <1>3, <1>5, <3>1 DEF Pair
    <3> QED BY <1>10, <2>1, <3>1, <3>2
  <2> QED BY <2>2, <2>3, <2>4
\* The pair does not occur before.
<1> DEFINE T == {m \in Nat : m < k => u[n - (k - m) + 1] = v[n - (k - m)]}
<1>16. 0 \in T
  BY <1>1, <1>15
<1>17. ASSUME NEW m \in Nat, m \in T PROVE m + 1 \in T
  <2> SUFFICES ASSUME m + 1 < k
               PROVE  u[n - (k - (m + 1)) + 1] = v[n - (k - (m + 1))]
    OBVIOUS
  <2> DEFINE i == k - (m + 1)
  <2>1. /\ i \in 1 .. n /\ i \in 1 .. n - 1 /\ i < k /\ i \in 1 .. k - 1
        /\ n - (k - m) + 1 = n - i /\ n - (k - m) = n - i - 1
        /\ i + 1 \in 1 .. n - 1 /\ i + 1 <= k
    BY <1>1
  <2>2. u[n - i] = v[n - i - 1]
    BY <1>1, <1>17, <2>1
  <2> HIDE DEF i
  <2>3. u[n - i + 1] = <<s[i]>> \o u[n - i]
    <3>1. ~Pair(s, i)
      BY <1>4, <2>1 DEF Pair
    <3> QED BY <1>9, <2>1, <3>1
  <2>4. v[n - i] = <<s[i]>> \o v[n - i - 1]
    <3>1. t[i] = s[i]
      BY <1>2, <2>1
    <3>2. ~Pair(t, i)
      <4>1. CASE i + 1 = k
        <5>1. t[i + 1] = a \o b
          BY <1>2, <2>1, <4>1
        <5> QED BY <1>3, <1>5, <5>1 DEF Pair
      <4>2. CASE i + 1 < k
        <5>1. t[i + 1] = s[i + 1]
          BY <1>2, <2>1, <4>2
        <5> QED BY <1>4, <2>1, <3>1, <5>1 DEF Pair
      <4> QED BY <1>1, <2>1, <4>1, <4>2
    <3> QED BY <1>10, <2>1, <3>1, <3>2
  <2>5. u[n - i + 1] = v[n - i]
    BY <2>2, <2>3, <2>4
  <2> QED BY <2>5 DEF i
<1> HIDE DEF T
<1>18. u[n] = v[n - 1]
  <2>1. /\ k - 1 \in Nat /\ k - 1 < k /\ n - (k - (k - 1)) + 1 = n
        /\ n - (k - (k - 1)) = n - 1
    BY <1>1
  <2>2. k - 1 \in T
    BY <1>16, <1>17, <2>1, SetInduction
  <2> QED BY <2>1, <2>2 DEF T
<1> QED BY <1>6, <1>7, <1>8, <1>18
-----------------------------------------------------------------------------
(* A round of the reference *)

LEMMA PairOfWord ==
    ASSUME NEW M, NEW s \in Seq(Letters), NEW p \in RankedPairs(M, s)
    PROVE  p \in Letters \X Letters /\ p \in ToSet(M) /\ Occurs(p, s)
<1>1. PICK k \in 1 .. Len(s) - 1 : p = <<s[k], s[k + 1]>>
  BY DEF RankedPairs
<1>2. k \in 1 .. Len(s) /\ k + 1 \in 1 .. Len(s)
  BY LenProperties
<1>3. s[k] \in Letters /\ s[k + 1] \in Letters
  BY <1>2, ElementOfSeq
<1>4. p \in ToSet(M)
  BY DEF RankedPairs
<1> QED BY <1>1, <1>3, <1>4 DEF Occurs

\* A round joins the pair of the least rank.
LEMMA RoundIsLeast ==
    ASSUME NEW v \in Vocabularies, NEW s \in Seq(Letters),
           NEW p \in RankedPairs(v.merges, s),
           \A q \in RankedPairs(v.merges, s) :
              RankIn(v.merges, p) <= RankIn(v.merges, q)
    PROVE  Round(v.merges, s) = JoinAll(s, p)
<1> DEFINE P == RankedPairs(v.merges, s)
           Least(x) == \A q \in P : RankIn(v.merges, x) <= RankIn(v.merges, q)
           c == CHOOSE x \in P : Least(x)
<1>1. \A q \in P : RankIn(v.merges, q) \in Nat /\ v.merges[RankIn(v.merges, q)] =
        q
  <2> TAKE q \in P
  <2>1. q \in ToSet(v.merges)
    BY PairOfWord
  <2>2. /\ RankIn(v.merges, q) \in 1 .. Len(v.merges)
        /\ v.merges[RankIn(v.merges, q)] = q
    BY <2>1, RankOfPair
  <2> QED BY <2>2
<1>2. p \in P /\ Least(p)
  OBVIOUS
<1>3. c \in P /\ Least(c)
  <2> HIDE DEF P, Least
  <2> QED BY <1>2
<1>4. Round(v.merges, s) = JoinAll(s, c)
  BY <1>2 DEF Round
<1> HIDE DEF c, P
<1>5. RankIn(v.merges, c) = RankIn(v.merges, p)
  BY <1>1, <1>2, <1>3
<1>6. c = p
  BY <1>1, <1>2, <1>3, <1>5
<1> QED BY <1>4, <1>6

LEMMA LeastPair ==
    ASSUME NEW v \in Vocabularies, NEW s \in Seq(Letters),
           RankedPairs(v.merges, s) # {}
    PROVE  \E p \in RankedPairs(v.merges, s) :
              \A q \in RankedPairs(v.merges, s) :
                 RankIn(v.merges, p) <= RankIn(v.merges, q)
<1> DEFINE P == RankedPairs(v.merges, s)
           R == {RankIn(v.merges, q) : q \in P}
<1>1. ASSUME NEW q \in P PROVE RankIn(v.merges, q) \in Nat
  <2>1. q \in ToSet(v.merges)
    BY PairOfWord
  <2>2. RankIn(v.merges, q) \in 1 .. Len(v.merges)
    BY <2>1, RankOfPair
  <2> QED BY <2>2
<1>2. R \in SUBSET Nat /\ R # {}
  BY <1>1
<1>3. PICK r \in R : \A x \in R : r <= x
  <2> HIDE DEF R
  <2> QED BY <1>2, LeastExists
<1>4. PICK p \in P : r = RankIn(v.merges, p)
  BY <1>3
<1> QED BY <1>3, <1>4

\* It shortens the word or leaves it.
LEMMA RoundType ==
    ASSUME NEW v \in Vocabularies, NEW s \in Seq(Letters)
    PROVE  /\ Round(v.merges, s) \in Seq(Letters)
           /\ Round(v.merges, s) = s \/ Len(Round(v.merges, s)) < Len(s)
<1>1. CASE RankedPairs(v.merges, s) = {}
  BY <1>1 DEF Round
<1>2. CASE RankedPairs(v.merges, s) # {}
  <2>1. PICK p \in RankedPairs(v.merges, s) :
           \A q \in RankedPairs(v.merges, s) :
              RankIn(v.merges, p) <= RankIn(v.merges, q)
    BY <1>2, LeastPair
  <2>2. Round(v.merges, s) = JoinAll(s, p)
    BY <2>1, RoundIsLeast
  <2>3. p \in Letters \X Letters /\ Occurs(p, s)
    BY PairOfWord
  <2> QED BY <2>2, <2>3, JoinAllShortens
<1> QED BY <1>1, <1>2

LEMMA JoinedIsOnce ==
    ASSUME syms \in Seq(Letters), NEW k \in 1 .. Len(syms) - 1
    PROVE  JoinedOnce(syms, k, JoinedAt(k))
<1> DEFINE n == Len(syms)
           t == JoinedAt(k)
<1>1. /\ n \in Nat /\ \A i \in 1 .. n : syms[i] \in Letters
  BY LenProperties
<1>2. syms \in Seq(Words)
  <2>1. Letters \subseteq Words
    BY DEF Letters
  <2> QED BY <2>1, SeqMonotonic
<1>3. /\ t \in Seq(Words) /\ Len(t) = n - 1
      /\ \A i \in 1 .. n - 1 : t[i] = IF i < k THEN syms[i]
                                      ELSE IF i = k THEN syms[k] \o syms[k + 1]
                                      ELSE syms[i + 1]
  BY <1>2, JoinedElements
<1> HIDE DEF t
<1>4. ASSUME NEW i \in 1 .. n - 1 PROVE t[i] \in Letters
  <2>1. i \in 1 .. n /\ i + 1 \in 1 .. n /\ k \in 1 .. n /\ k + 1 \in 1 .. n
    BY <1>1
  <2>2. syms[k] \o syms[k + 1] \in Letters
    BY <1>1, <2>1, LetterJoined
  <2> QED BY <1>1, <1>3, <2>1, <2>2
<1>5. t \in Seq(Letters)
  <2>1. n - 1 \in Nat
    BY <1>1
  <2> HIDE DEF n
  <2>2. t \in [1 .. n - 1 -> Words]
    BY <1>3, LenProperties
  <2>3. t \in [1 .. n - 1 -> Letters]
    BY <1>4, <2>2
  <2> QED BY <2>1, <2>3, FunctionIsSeq
<1> QED BY <1>3, <1>5 DEF JoinedOnce, t

\* Joining one pair is part of the round: the round of what is left is the same,
\* or it is done.  For what is made of the pair has a higher rank in any pair.
LEMMA RoundGoesOn ==
    ASSUME vocab \in Vocabularies, syms \in Seq(Letters), Joinable # {},
           InOrder(vocab.merges)
    PROVE  \/ Round(vocab.merges, JoinedAt(Best)) = Round(vocab.merges, syms)
           \/ JoinedAt(Best) = Round(vocab.merges, syms)
<1> DEFINE M == vocab.merges
           n == Len(syms)
           b == Best
           p == <<syms[b], syms[b + 1]>>
           t == JoinedAt(b)
<1>1. n \in Nat /\ \A i \in 1 .. n : syms[i] \in Letters
  BY LenProperties
<1>2. /\ b \in 1 .. n - 1 /\ Ranked(syms[b], syms[b + 1])
      /\ \A q \in Joinable :
            /\ Rank(syms[b], syms[b + 1]) <= Rank(syms[q], syms[q + 1])
            /\ <<syms[q], syms[q + 1]>> = p => b <= q
  BY <1>1, BestJoins
<1>3. JoinedOnce(syms, b, t)
  BY <1>2, JoinedIsOnce
<1> HIDE DEF b, t
<1>4. p \in ToSet(M)
  BY <1>2 DEF Ranked
<1>5. RankedPairs(M, syms) = {<<syms[k], syms[k + 1]>> : k \in Joinable}
  BY DEF RankedPairs, Joinable, Ranked
<1>6. p \in RankedPairs(M, syms)
  BY <1>2, <1>4 DEF RankedPairs
<1>7. \A q \in RankedPairs(M, syms) : RankIn(M, p) <= RankIn(M, q)
  <2> TAKE q \in RankedPairs(M, syms)
  <2>1. PICK k \in Joinable : q = <<syms[k], syms[k + 1]>>
    BY <1>5
  <2>2. Rank(syms[b], syms[b + 1]) <= Rank(syms[k], syms[k + 1])
    BY <1>2
  <2> QED BY <2>1, <2>2 DEF Rank
<1>8. Round(M, syms) = JoinAll(syms, p)
  BY <1>6, <1>7, RoundIsLeast
<1>9. ASSUME NEW i \in 1 .. b - 1 PROVE <<syms[i], syms[i + 1]>> # p
  <2>1. SUFFICES ASSUME <<syms[i], syms[i + 1]>> = p PROVE FALSE
    OBVIOUS
  <2>2. i \in 1 .. n - 1
    BY <1>1, <1>2
  <2>3. i \in Joinable
    BY <1>4, <2>1, <2>2 DEF Joinable, Ranked
  <2>4. b <= i
    BY <1>2, <2>1, <2>3
  <2> QED BY <1>1, <1>2, <2>4
<1>10. JoinAll(t, p) = JoinAll(syms, p)
  BY <1>2, <1>3, <1>9, JoinAllGoesOn
<1>11. /\ t \in Seq(Letters) /\ Len(t) = n - 1
       /\ \A i \in 1 .. n - 1 : t[i] = IF i < b THEN syms[i]
                                       ELSE IF i = b THEN syms[b] \o syms[b + 1]
                                       ELSE syms[i + 1]
  BY <1>3 DEF JoinedOnce
<1>12. p \in Letters \X Letters
  BY <1>6, PairOfWord
<1>13. CASE Occurs(p, t)
  <2>1. p \in RankedPairs(M, t)
    BY <1>4, <1>13 DEF Occurs, RankedPairs
  <2>2. ASSUME NEW q \in RankedPairs(M, t)
        PROVE  RankIn(M, p) <= RankIn(M, q)
    <3>1. PICK i \in 1 .. (n - 1) - 1 : q = <<t[i], t[i + 1]>>
      BY <1>11 DEF RankedPairs
    <3>2. q \in ToSet(M)
      BY DEF RankedPairs
    <3>3. /\ i \in 1 .. n - 1 /\ i + 1 \in 1 .. n - 1 /\ (i + 1) + 1 \in 1 .. n
          /\ b \in 1 .. n - 1
      BY <1>1, <1>2
    <3>4. CASE i = b \/ i + 1 = b
      <4>1. syms[b] \o syms[b + 1] \in {q[1], q[2]}
        <5>1. q[1] = t[i] /\ q[2] = t[i + 1]
          BY <3>1
        <5>2. t[b] = syms[b] \o syms[b + 1]
          <6>1. ~(b < b)
            BY <3>3
          <6> QED BY <1>11, <3>3, <6>1
        <5> QED BY <3>4, <5>1, <5>2
      <4>2. p[1] \o p[2] \in {q[1], q[2]}
        BY <4>1
      <4>3. /\ RankIn(M, p) \in 1 .. Len(M) /\ M[RankIn(M, p)] = p
            /\ RankIn(M, q) \in 1 .. Len(M) /\ M[RankIn(M, q)] = q
        BY <1>4, <3>2, RankOfPair
      <4>4. DOMAIN M = 1 .. Len(M) /\ Len(M) \in Nat
        BY VocabType, LenProperties
      <4> HIDE DEF p, M
      <4>5. RankIn(M, p) < RankIn(M, q)
        BY <4>2, <4>3, <4>4 DEF InOrder, M
      <4> QED BY <4>3, <4>4, <4>5
    <3>5. CASE i + 1 < b
      <4>1. t[i] = syms[i] /\ t[i + 1] = syms[i + 1]
        BY <1>11, <3>3, <3>5
      <4>2. q \in RankedPairs(M, syms)
        BY <3>1, <3>2, <3>3, <4>1 DEF RankedPairs
      <4> QED BY <1>7, <4>2
    <3>6. CASE i > b
      <4>1. t[i] = syms[i + 1] /\ t[i + 1] = syms[(i + 1) + 1]
        <5>1. ~(i < b) /\ i # b /\ ~(i + 1 < b) /\ i + 1 # b
          BY <3>3, <3>6
        <5> QED BY <1>11, <3>3, <5>1
      <4>2. q \in RankedPairs(M, syms)
        BY <3>1, <3>2, <3>3, <4>1 DEF RankedPairs
      <4> QED BY <1>7, <4>2
    <3> QED BY <3>3, <3>4, <3>5, <3>6
  <2>3. Round(M, t) = JoinAll(t, p)
    BY <1>11, <2>1, <2>2, RoundIsLeast
  <2> QED BY <1>8, <1>10, <2>3 DEF b, t
<1>14. CASE ~Occurs(p, t)
  <2>1. JoinAll(t, p) = t
    BY <1>11, <1>12, <1>14, JoinAllNothing
  <2> QED BY <1>8, <1>10, <2>1 DEF b, t
<1> QED BY <1>13, <1>14
-----------------------------------------------------------------------------
(* Rounds, until nothing is joined *)

\* f goes on from s by rounds.
Rounds(f, M, s, n) ==
    /\ f \in [0 .. n -> Seq(Letters)] /\ f[0] = s
    /\ \A k \in 1 .. n : f[k] = Round(M, f[k - 1])

LEMMA ReferenceIsLast ==
    ASSUME NEW v \in Vocabularies, NEW s \in Seq(Letters)
    PROVE  \E f : /\ Rounds(f, v.merges, s, Len(s))
                  /\ Reference(v.merges, s) = f[Len(s)]
<1> DEFINE n == Len(s)
           M == v.merges
           Body(u) == [k \in 0 .. n |-> IF k = 0 THEN s ELSE Round(M, u[k - 1])]
           u == CHOOSE u : u = Body(u)
           F == [k \in 1 .. n |-> [w \in Seq(Letters) |-> Round(M, w)]]
<1>1. n \in Nat
  BY LenProperties
<1>2. \A w \in Seq(Letters) : Round(M, w) \in Seq(Letters)
  BY RoundType
<1> HIDE DEF n, M
<1>3. F \in [1 .. n -> [Seq(Letters) -> Seq(Letters)]]
  BY <1>2
<1>4. PICK f : Iterates(f, Seq(Letters), s, F, n)
  <2> HIDE DEF F
  <2> QED BY <1>1, <1>3, IterationExists
<1>5. /\ f \in [0 .. n -> Seq(Letters)] /\ f[0] = s
      /\ \A k \in 1 .. n : f[k] = F[k][f[k - 1]]
  BY <1>4 DEF Iterates
<1>6. ASSUME NEW k \in 1 .. n PROVE f[k] = Round(M, f[k - 1])
  <2>1. k - 1 \in 0 .. n
    BY <1>1
  <2>2. f[k - 1] \in Seq(Letters)
    BY <1>5, <2>1
  <2> QED BY <1>5, <2>2
<1>7. f = Body(f)
  <2>1. f = [k \in 0 .. n |-> f[k]]
    BY <1>5
  <2>2. ASSUME NEW k \in 0 .. n
        PROVE  f[k] = IF k = 0 THEN s ELSE Round(M, f[k - 1])
    <3>1. CASE k = 0
      BY <1>5, <3>1
    <3>2. CASE k # 0
      <4>1. k \in 1 .. n
        BY <1>1, <3>2
      <4> QED BY <1>6, <3>2, <4>1
    <3> QED BY <3>1, <3>2
  <2> QED BY <2>1, <2>2, Zenon
<1>8. u = Body(u)
  <2> HIDE DEF Body
  <2> QED BY <1>7
<1> HIDE DEF u
<1>9. /\ u = [k \in 0 .. n |-> u[k]]
      /\ \A k \in 0 .. n : u[k] = IF k = 0 THEN s ELSE Round(M, u[k - 1])
  <2>1. u = [k \in 0 .. n |-> IF k = 0 THEN s ELSE Round(M, u[k - 1])]
    BY <1>8
  <2> HIDE DEF Body
  <2>2. DOMAIN u = 0 .. n
    BY <2>1, Zenon
  <2> QED BY <2>1, <2>2, Zenon
<1> DEFINE S == {k \in Nat : k <= n => u[k] \in Seq(Letters)}
<1>10. 0 \in S
  BY <1>1, <1>9
<1>11. ASSUME NEW k \in Nat, k \in S PROVE k + 1 \in S
  <2> SUFFICES ASSUME k + 1 <= n PROVE u[k + 1] \in Seq(Letters)
    OBVIOUS
  <2>1. k <= n /\ k + 1 \in 0 .. n /\ k + 1 # 0 /\ (k + 1) - 1 = k
    BY <1>1
  <2>2. u[k] \in Seq(Letters)
    BY <1>11, <2>1
  <2>3. u[k + 1] = Round(M, u[k])
    BY <1>9, <2>1
  <2> QED BY <1>2, <2>2, <2>3
<1> HIDE DEF S
<1>12. \A k \in 0 .. n : u[k] \in Seq(Letters)
  <2>1. Nat \subseteq S
    BY <1>10, <1>11, SetInduction
  <2> QED BY <1>1, <2>1 DEF S
<1>13. Rounds(u, M, s, n)
  <2>1. u \in [0 .. n -> Seq(Letters)]
    BY <1>9, <1>12
  <2>2. u[0] = s
    BY <1>1, <1>9
  <2>3. \A k \in 1 .. n : u[k] = Round(M, u[k - 1])
    BY <1>1, <1>9
  <2> QED BY <2>1, <2>2, <2>3 DEF Rounds
<1>14. Reference(M, s) = u[n]
  BY DEF Reference, u, n
<1> QED BY <1>13, <1>14 DEF n, M

\* Where a round joins nothing, none after it does.
LEMMA RoundsStay ==
    ASSUME NEW f, NEW M, NEW s, NEW n \in Nat, Rounds(f, M, s, n),
           NEW i \in 0 .. n, Round(M, f[i]) = f[i]
    PROVE  f[n] = f[i]
<1> DEFINE S == {j \in Nat : i + j <= n => f[i + j] = f[i]}
<1>1. 0 \in S
  OBVIOUS
<1>2. ASSUME NEW j \in Nat, j \in S PROVE j + 1 \in S
  <2> SUFFICES ASSUME i + (j + 1) <= n PROVE f[i + (j + 1)] = f[i]
    OBVIOUS
  <2>1. i + (j + 1) \in 1 .. n /\ (i + (j + 1)) - 1 = i + j /\ i + j <= n
    OBVIOUS
  <2>2. f[i + j] = f[i]
    BY <1>2, <2>1
  <2>3. f[i + (j + 1)] = Round(M, f[i + j])
    BY <2>1 DEF Rounds
  <2> QED BY <2>2, <2>3
<1> HIDE DEF S
<1>3. n - i \in Nat /\ i + (n - i) = n
  OBVIOUS
<1>4. n - i \in S
  BY <1>1, <1>2, <1>3, SetInduction
<1> QED BY <1>3, <1>4 DEF S

\* As many rounds as there are symbols are enough.
LEMMA RoundsSettle ==
    ASSUME NEW v \in Vocabularies, NEW s \in Seq(Letters), NEW f,
           Rounds(f, v.merges, s, Len(s))
    PROVE  Round(v.merges, f[Len(s)]) = f[Len(s)]
<1> DEFINE n == Len(s)
           M == v.merges
           Still(j) == Round(M, f[j]) = f[j]
           S == {j \in Nat : j <= n => Len(f[j]) <= n - j \/ Still(j)}
<1>1. /\ n \in Nat
      /\ \A j \in 0 .. n : f[j] \in Seq(Letters) /\ Len(f[j]) \in Nat
  BY LenProperties DEF Rounds
<1>2. 0 \in S
  BY <1>1 DEF Rounds
<1>3. ASSUME NEW j \in Nat, j \in S PROVE j + 1 \in S
  <2> SUFFICES ASSUME j + 1 <= n
               PROVE  Len(f[j + 1]) <= n - (j + 1) \/ Still(j + 1)
    OBVIOUS
  <2>1. j + 1 \in 1 .. n /\ (j + 1) - 1 = j /\ j \in 0 .. n /\ j + 1 \in 0 .. n
    BY <1>1
  <2>2. f[j + 1] = Round(M, f[j])
    BY <2>1 DEF Rounds
  <2>3. CASE Still(j)
    BY <2>2, <2>3
  <2>4. CASE ~Still(j)
    <3>1. Len(f[j]) <= n - j
      BY <1>1, <1>3, <2>1, <2>4
    <3>2. Len(f[j + 1]) < Len(f[j])
      BY <1>1, <2>1, <2>2, <2>4, RoundType
    <3> HIDE DEF n, Still
    <3> QED BY <1>1, <2>1, <3>1, <3>2
  <2> QED BY <2>3, <2>4
<1> HIDE DEF S
<1>4. n \in S
  BY <1>1, <1>2, <1>3, SetInduction
<1>5. Len(f[n]) <= n - n \/ Still(n)
  BY <1>1, <1>4 DEF S
<1>6. CASE Len(f[n]) <= n - n
  <2>1. n \in 0 .. n
    BY <1>1
  <2>2. f[n] \in Seq(Letters) /\ Len(f[n]) = 0
    BY <1>1, <1>6, <2>1
  <2>3. RankedPairs(M, f[n]) = {}
    BY <2>2 DEF RankedPairs
  <2> QED BY <2>3 DEF Round
<1> QED BY <1>5, <1>6

\* The reference does not change when its first round is done.
LEMMA ReferenceOfRound ==
    ASSUME NEW v \in Vocabularies, NEW s \in Seq(Letters)
    PROVE  Reference(v.merges, Round(v.merges, s)) = Reference(v.merges, s)
<1> DEFINE M == v.merges
           t == Round(M, s)
           n == Len(s)
           m == Len(t)
<1>1. t \in Seq(Letters) /\ (t = s \/ m < n) /\ n \in Nat /\ m \in Nat
  BY RoundType, LenProperties
<1>2. CASE t = s
  BY <1>2
<1>3. CASE m < n
  <2>1. PICK f : Rounds(f, M, s, n) /\ Reference(M, s) = f[n]
    BY ReferenceIsLast
  <2>2. PICK g : Rounds(g, M, t, m) /\ Reference(M, t) = g[m]
    BY <1>1, ReferenceIsLast
  <2>3. Round(M, g[m]) = g[m]
    BY <1>1, <2>2, RoundsSettle
  <2> DEFINE S == {j \in Nat : j <= m => f[j + 1] = g[j]}
  <2>4. 0 \in S
    <3>1. f[1] = Round(M, f[0]) /\ f[0] = s
      BY <1>1, <1>3, <2>1 DEF Rounds
    <3>2. g[0] = t
      BY <2>2 DEF Rounds
    <3> QED BY <3>1, <3>2
  <2> HIDE DEF t, m, n
  <2>5. ASSUME NEW j \in Nat, j \in S PROVE j + 1 \in S
    <3> SUFFICES ASSUME j + 1 <= m PROVE f[(j + 1) + 1] = g[j + 1]
      OBVIOUS
    <3>1. /\ j <= m /\ j + 1 \in 1 .. m /\ (j + 1) - 1 = j
          /\ (j + 1) + 1 \in 1 .. n /\ ((j + 1) + 1) - 1 = j + 1
      BY <1>1, <1>3
    <3>2. f[j + 1] = g[j]
      BY <2>5, <3>1
    <3>3. f[(j + 1) + 1] = Round(M, f[j + 1]) /\ g[j + 1] = Round(M, g[j])
      BY <2>1, <2>2, <3>1 DEF Rounds
    <3> QED BY <3>2, <3>3
  <2> HIDE DEF S
  <2>6. f[m + 1] = g[m]
    <3>1. m \in S
      BY <1>1, <2>4, <2>5, SetInduction
    <3> QED BY <1>1, <3>1 DEF S
  <2>7. m + 1 \in 0 .. n
    BY <1>1, <1>3
  <2>8. f[n] = f[m + 1]
    BY <1>1, <2>1, <2>3, <2>6, <2>7, RoundsStay
  <2> QED BY <2>1, <2>2, <2>6, <2>8 DEF t
<1> QED BY <1>1, <1>2, <1>3

LEMMA ReferenceOfDone ==
    ASSUME NEW v \in Vocabularies, NEW s \in Seq(Letters),
           Round(v.merges, s) = s
    PROVE  Reference(v.merges, s) = s
<1>1. PICK f : /\ Rounds(f, v.merges, s, Len(s))
               /\ Reference(v.merges, s) = f[Len(s)]
  BY ReferenceIsLast
<1>2. Len(s) \in Nat /\ f[0] = s
  BY <1>1, LenProperties DEF Rounds
<1>3. 0 \in 0 .. Len(s)
  BY <1>2
<1>4. f[Len(s)] = f[0]
  BY <1>1, <1>2, <1>3, RoundsStay
<1> QED BY <1>1, <1>2, <1>4
-----------------------------------------------------------------------------
(* encode and the reference *)

\* The reference of what is joined so far is that of the piece.
ReferenceIInv ==
    /\ vocab \in Vocabularies /\ text \in Seq(0 .. 255) /\ pos \in Nat \ {0}
    /\ syms # <<>> =>
          /\ end \in pos .. Len(text) /\ syms \in Seq(Letters)
          /\ InOrder(vocab.merges) =>
                Reference(vocab.merges, syms) =
                   Reference(vocab.merges, Symbols(pos, end))

LEMMA SymbolsAreLetters ==
    ASSUME text \in Seq(0 .. 255), NEW from \in 1 .. Len(text),
           NEW to \in from .. Len(text)
    PROVE  Symbols(from, to) \in Seq(Letters)
<1> DEFINE s == Symbols(from, to)
           m == to - from + 1
<1>1. /\ s \in Seq(Words) /\ Len(s) = m
      /\ \A k \in 1 .. m : s[k] = <<Mapped[text[from + k - 1]]>>
  BY SymbolsType
<1>2. m \in Nat
  BY LenProperties
<1> HIDE DEF s, m
<1>3. s \in [1 .. m -> Words]
  BY <1>1, LenProperties
<1>4. ASSUME NEW k \in 1 .. m PROVE s[k] \in Letters
  <2>1. s[k] \in Words /\ s[k] = <<Mapped[text[from + k - 1]]>>
    BY <1>1, <1>3
  <2>2. <<Mapped[text[from + k - 1]]>> # <<>>
    OBVIOUS
  <2> QED BY <2>1, <2>2 DEF Letters
<1>5. s \in [1 .. m -> Letters]
  BY <1>3, <1>4
<1>6. s \in Seq(Letters)
  BY <1>2, <1>5, FunctionIsSeq
<1> QED BY <1>6 DEF s

LEMMA JoinKeepsReference ==
    ASSUME ReferenceIInv, JoinPair
    PROVE  ReferenceIInv'
<1> DEFINE M == vocab.merges
           t == JoinedAt(Best)
<1>1. /\ vocab' = vocab /\ text' = text /\ pos' = pos /\ end' = end
      /\ syms' = t /\ Joinable # {}
  BY DEF JoinPair
<1>2. syms # <<>>
  BY <1>1 DEF Joinable
<1>3. /\ vocab \in Vocabularies /\ text \in Seq(0 .. 255) /\ pos \in Nat \ {0}
      /\ end \in pos .. Len(text) /\ syms \in Seq(Letters)
      /\ InOrder(M) => Reference(M, syms) = Reference(M, Symbols(pos, end))
  BY <1>2 DEF ReferenceIInv
<1>4. t \in Seq(Letters)
  <2>1. Len(syms) \in Nat
    BY <1>3, LenProperties
  <2>2. Best \in 1 .. Len(syms) - 1
    BY <1>1, <1>3, <2>1, BestJoins
  <2> QED BY <1>3, <2>2, JoinedIsOnce DEF JoinedOnce
<1>5. ASSUME InOrder(M) PROVE Reference(M, t) = Reference(M, syms)
  <2>1. Reference(M, Round(M, syms)) = Reference(M, syms)
    BY <1>3, ReferenceOfRound
  <2>2. Reference(M, Round(M, t)) = Reference(M, t)
    BY <1>3, <1>4, ReferenceOfRound
  <2>3. Round(M, t) = Round(M, syms) \/ t = Round(M, syms)
    BY <1>1, <1>3, <1>5, RoundGoesOn
  <2> QED BY <2>1, <2>2, <2>3
<1>6. Symbols(pos, end)' = Symbols(pos, end)
  BY <1>1 DEF Symbols
<1> HIDE DEF t
<1> QED BY <1>1, <1>3, <1>4, <1>5, <1>6 DEF ReferenceIInv

LEMMA ReferenceSteps == ReferenceIInv /\ [TokNext]_tokVars => ReferenceIInv'
<1> SUFFICES ASSUME ReferenceIInv, [TokNext]_tokVars PROVE ReferenceIInv'
  OBVIOUS
<1>0. /\ vocab \in Vocabularies /\ text \in Seq(0 .. 255) /\ pos \in Nat \ {0}
      /\ Len(text) \in Nat
  BY LenProperties DEF ReferenceIInv
<1>1. ASSUME NEW input \in Inputs, Encode(input[1], input[2])
      PROVE  ReferenceIInv'
  <2>1. input[1] \in Vocabularies /\ input[2] \in Seq(0 .. 255)
    BY TokAssumption
  <2>2. /\ vocab' = input[1] /\ text' = input[2] /\ pos' = pos /\ syms' = syms
        /\ text = <<>>
    BY <1>1 DEF Encode
  <2>3. syms = <<>>
    BY <1>0, <2>2 DEF ReferenceIInv
  <2> QED BY <1>0, <2>1, <2>2, <2>3 DEF ReferenceIInv
<1>2. CASE TakeSpecial
  <2>1. PICK token \in SpecialsAt(pos) : pos' = pos + Len(token)
    BY <1>2 DEF TakeSpecial
  <2>2. Len(token) \in Nat
    <3>1. token \in ToSet(vocab.tokens)
      BY DEF SpecialsAt
    <3>2. PICK k \in DOMAIN vocab.tokens : token = vocab.tokens[k]
      BY <3>1 DEF ToSet
    <3>3. token \in Words
      BY <1>0, <3>2, VocabType
    <3> QED BY <3>3, LenProperties DEF Words
  <2>3. vocab' = vocab /\ text' = text /\ syms' = <<>>
    BY <1>2 DEF TakeSpecial, AtPiece
  <2> QED BY <1>0, <2>1, <2>2, <2>3 DEF ReferenceIInv
<1>3. CASE BeginPiece
  <2>1. /\ vocab' = vocab /\ text' = text /\ pos' = pos
        /\ end' = PieceEnd(pos) /\ syms' = Symbols(pos, PieceEnd(pos))
        /\ pos \in 1 .. Len(text)
    BY <1>0, <1>3 DEF BeginPiece, AtPiece
  <2>2. PieceEnd(pos) \in pos .. Len(text)
    BY <1>0, <2>1, PieceEnds
  <2> DEFINE e == PieceEnd(pos)
  <2> HIDE DEF e
  <2>3. Symbols(pos, e) \in Seq(Letters)
    BY <1>0, <2>1, <2>2, SymbolsAreLetters DEF e
  <2>4. Symbols(pos, end)' = Symbols(pos, e)
    BY <2>1 DEF Symbols, e
  <2> QED BY <1>0, <2>1, <2>2, <2>3, <2>4 DEF ReferenceIInv, e
<1>4. CASE JoinPair
  BY <1>4, JoinKeepsReference
<1>5. CASE EndPiece
  <2>1. /\ vocab' = vocab /\ text' = text /\ syms' = <<>> /\ pos' = end + 1
        /\ syms # <<>>
    BY <1>5 DEF EndPiece
  <2>2. end \in pos .. Len(text)
    BY <2>1 DEF ReferenceIInv
  <2>3. end + 1 \in Nat \ {0}
    BY <1>0, <2>2
  <2> QED BY <1>0, <2>1, <2>3 DEF ReferenceIInv
<1>6. CASE UNCHANGED tokVars
  <2>1. /\ vocab' = vocab /\ text' = text /\ syms' = syms /\ pos' = pos
        /\ end' = end
    BY <1>6 DEF tokVars
  <2>2. Symbols(pos, end)' = Symbols(pos, end)
    BY <2>1 DEF Symbols
  <2> QED BY <2>1, <2>2 DEF ReferenceIInv
<1> QED BY <1>1, <1>2, <1>3, <1>4, <1>5, <1>6 DEF TokNext, TokStep

LEMMA ReferenceOfInvariant == ReferenceIInv => MatchesReference
<1> SUFFICES ASSUME ReferenceIInv, syms # <<>>, Joinable = {},
                    InOrder(vocab.merges)
             PROVE  syms = Reference(vocab.merges, Symbols(pos, end))
  BY DEF MatchesReference
<1>1. /\ vocab \in Vocabularies /\ syms \in Seq(Letters)
      /\ Reference(vocab.merges, syms) =
            Reference(vocab.merges, Symbols(pos, end))
  BY DEF ReferenceIInv
<1>2. RankedPairs(vocab.merges, syms) = {}
  BY DEF RankedPairs, Joinable, Ranked
<1>3. Round(vocab.merges, syms) = syms
  BY <1>2 DEF Round
<1>4. Reference(vocab.merges, syms) = syms
  BY <1>1, <1>3, ReferenceOfDone
<1> QED BY <1>1, <1>4

\* Where the merges that make a symbol come before those that use it, joining
\* one pair at a time (encode, src/tokenizer.cpp:13) ends, for every text and
\* every table of merges, in the symbols by which byte-pair encoding is defined:
\* those that joining all the occurrences of a pair at once gives.
THEOREM SymbolsAreReference == TokSpec => []MatchesReference
<1>1. TokInit => ReferenceIInv
  BY DEF TokInit, ReferenceIInv
<1>2. ReferenceIInv /\ [TokNext]_tokVars => ReferenceIInv'
  BY ReferenceSteps
<1>3. ReferenceIInv => MatchesReference
  BY ReferenceOfInvariant
<1> QED BY <1>1, <1>2, <1>3, PTL DEF TokSpec
-----------------------------------------------------------------------------
(* Sums *)

\* A running total of the weights w.
Totals(f, w, n) == /\ f \in [0 .. n -> Nat] /\ f[0] = 0
                   /\ \A k \in 1 .. n : f[k] = f[k - 1] + w[k - 1]

LEMMA AddBelow ==
    ASSUME NEW a \in Nat, NEW b \in Nat, NEW c \in Nat, NEW d \in Nat,
           NEW gap \in Nat, a + gap <= b, c <= d
    PROVE  (a + c) + gap <= b + d
OBVIOUS

LEMMA AddBoth ==
    ASSUME NEW a \in Nat, NEW b \in Nat, NEW c \in Nat, NEW d \in Nat,
           a <= b, c <= d
    PROVE  a + c <= b + d
OBVIOUS

\* Less is added to the one than to the other, at one place by a gap.
LEMMA TotalsBelow ==
    ASSUME NEW n \in Nat,
           NEW v \in [0 .. n - 1 -> Nat], NEW w \in [0 .. n - 1 -> Nat],
           NEW f, NEW g, Totals(f, v, n), Totals(g, w, n),
           NEW t \in 0 .. n - 1, NEW gap \in Nat,
           \A k \in 0 .. n - 1 : v[k] <= w[k], v[t] + gap <= w[t]
    PROVE  f[n] + gap <= g[n]
<1> DEFINE S == {j \in Nat : j <= n => f[j] + (IF t < j THEN gap ELSE 0) <= g[j]}
<1>1. 0 \in S
  BY DEF Totals
<1>2. ASSUME NEW j \in Nat, j \in S PROVE j + 1 \in S
  <2>1. SUFFICES ASSUME j + 1 <= n
                 PROVE  f[j + 1] + (IF t < j + 1 THEN gap ELSE 0) <= g[j + 1]
    OBVIOUS
  <2>2. f[j] + (IF t < j THEN gap ELSE 0) <= g[j]
    BY <1>2, <2>1
  <2>3. /\ f[j + 1] = f[j] + v[j] /\ g[j + 1] = g[j] + w[j]
        /\ f[j] \in Nat /\ g[j] \in Nat /\ v[j] \in Nat /\ w[j] \in Nat
    BY <2>1 DEF Totals
  <2>4. v[j] <= w[j] /\ (t = j => v[j] + gap <= w[j])
    BY <2>1
  <2>5. CASE t = j
    <3>1. f[j] <= g[j] /\ v[j] + gap <= w[j] /\ t < j + 1
      BY <2>2, <2>3, <2>4, <2>5
    <3>2. (v[j] + f[j]) + gap <= w[j] + g[j]
      BY <2>3, <3>1, AddBelow
    <3> QED BY <2>3, <3>1, <3>2
  <2>6. CASE t < j
    <3>1. f[j] + gap <= g[j] /\ t < j + 1
      BY <2>2, <2>6
    <3>2. (f[j] + v[j]) + gap <= g[j] + w[j]
      BY <2>3, <2>4, <3>1, AddBelow
    <3> QED BY <2>3, <3>1, <3>2
  <2>7. CASE t > j
    <3>1. f[j] <= g[j] /\ ~(t < j + 1)
      BY <2>2, <2>3, <2>7
    <3>2. f[j] + v[j] <= g[j] + w[j]
      BY <2>3, <2>4, <3>1, AddBoth
    <3>3. f[j + 1] <= g[j + 1] /\ f[j + 1] \in Nat
      BY <2>3, <3>2
    <3> QED BY <3>1, <3>3
  <2> QED BY <2>5, <2>6, <2>7
<1> HIDE DEF S
<1>3. Nat \subseteq S
  BY <1>1, <1>2, SetInduction
<1>4. f[n] + (IF t < n THEN gap ELSE 0) <= g[n]
  BY <1>3 DEF S
<1> QED BY <1>4

\* What Mass adds up.
Share(S, n) == [k \in 0 .. n - 1 |-> IF k \in S THEN Weight(k) ELSE 0]

LEMMA MassIsTotal ==
    ASSUME NEW n \in Nat, Cardinality(Ids) = n, NEW S,
           \A k \in 0 .. n - 1 : Weight(k) \in Nat
    PROVE  \E f : Totals(f, Share(S, n), n) /\ Mass(S) = f[n]
<1> DEFINE w == Share(S, n)
           Body(u) == [k \in 0 .. n |->
                         IF k = 0 THEN 0
                         ELSE u[k - 1] + (IF k - 1 \in S THEN Weight(k - 1)
                                          ELSE 0)]
           F == [k \in 1 .. n |-> [x \in Nat |-> x + w[k - 1]]]
           u == CHOOSE u : u = Body(u)
<1>1. \A k \in 0 .. n - 1 : /\ w[k] = (IF k \in S THEN Weight(k) ELSE 0)
                             /\ w[k] \in Nat
  BY DEF Share
<1> HIDE DEF w
<1>2. \A k \in 1 .. n : w[k - 1] \in Nat
  BY <1>1
<1>3. F \in [1 .. n -> [Nat -> Nat]]
  BY <1>2
<1>4. PICK f : Iterates(f, Nat, 0, F, n)
  <2> HIDE DEF F
  <2>1. 0 \in Nat
    OBVIOUS
  <2> QED BY <1>3, <2>1, IterationExists, Zenon
<1>5. ASSUME NEW k \in 1 .. n PROVE f[k] = f[k - 1] + w[k - 1]
  <2>1. f[k - 1] \in Nat /\ f[k] = F[k][f[k - 1]]
    BY <1>4 DEF Iterates
  <2> QED BY <2>1
<1>6. \A k \in 1 .. n : f[k] = f[k - 1] + (IF k - 1 \in S THEN Weight(k - 1)
                                           ELSE 0)
  BY <1>1, <1>5
<1>7. f = Body(f)
  BY <1>4, <1>6 DEF Iterates
<1>8. u = Body(u)
  <2> HIDE DEF Body
  <2> QED BY <1>7
<1> HIDE DEF u
<1>9. /\ u[0] = 0
      /\ \A k \in 1 .. n : u[k] = u[k - 1] + (IF k - 1 \in S THEN Weight(k - 1)
                                             ELSE 0)
      /\ DOMAIN u = 0 .. n
  BY <1>8
<1> DEFINE I == {j \in Nat : j <= n => u[j] \in Nat}
<1>10. 0 \in I
  BY <1>9
<1>11. ASSUME NEW j \in Nat, j \in I PROVE j + 1 \in I
  <2>1. SUFFICES ASSUME j + 1 <= n PROVE u[j + 1] \in Nat
    OBVIOUS
  <2>2. u[j] \in Nat
    BY <1>11, <2>1
  <2>3. j + 1 \in 1 .. n /\ (j + 1) - 1 = j /\ Weight(j) \in Nat
    BY <2>1
  <2>4. u[j + 1] = u[j] + (IF j \in S THEN Weight(j) ELSE 0)
    BY <1>9, <2>3
  <2> QED BY <2>2, <2>3, <2>4
<1> HIDE DEF I
<1>12. Nat \subseteq I
  BY <1>10, <1>11, SetInduction
<1>13. \A j \in 0 .. n : u[j] \in Nat
  BY <1>12 DEF I
<1>14. u = [j \in 0 .. n |-> u[j]]
  BY <1>8
<1>15. Totals(u, w, n)
  <2>1. u \in [0 .. n -> Nat]
    BY <1>13, <1>14
  <2>2. \A k \in 1 .. n : u[k] = u[k - 1] + w[k - 1]
    BY <1>1, <1>9
  <2> QED BY <1>9, <2>1, <2>2 DEF Totals
<1>16. Mass(S) = u[n]
  BY DEF Mass, u
<1> QED BY <1>15, <1>16 DEF w

LEMMA MassBelow ==
    ASSUME NEW n \in Nat, Ids = 0 .. n - 1, Cardinality(Ids) = n,
           \A k \in Ids : Weight(k) \in Nat,
           NEW S, NEW T, S \subseteq T, NEW t \in Ids, NEW gap \in Nat,
           gap = 0 \/ (t \in T \ S /\ gap <= Weight(t))
    PROVE  /\ Mass(S) \in Nat /\ Mass(T) \in Nat
           /\ Mass(S) + gap <= Mass(T)
<1>1. PICK f : Totals(f, Share(S, n), n) /\ Mass(S) = f[n]
  BY MassIsTotal
<1>2. PICK g : Totals(g, Share(T, n), n) /\ Mass(T) = g[n]
  BY MassIsTotal
<1> DEFINE v == Share(S, n)
           w == Share(T, n)
<1>3. /\ v \in [0 .. n - 1 -> Nat] /\ w \in [0 .. n - 1 -> Nat]
      /\ \A k \in 0 .. n - 1 : v[k] <= w[k]
      /\ t \in 0 .. n - 1 /\ v[t] + gap <= w[t]
  BY DEF Share
<1> HIDE DEF v, w
<1>0. Totals(f, v, n) /\ Totals(g, w, n)
  BY <1>1, <1>2 DEF v, w
<1>4. f[n] + gap <= g[n]
  BY <1>0, <1>3, TotalsBelow
<1> QED BY <1>1, <1>2, <1>4 DEF Totals
-----------------------------------------------------------------------------
(* The penalty *)

LEMMA ScaledBelow ==
    ASSUME NEW x \in Int, NEW f \in Nat \ {0}
    PROVE  Scaled(x, f) \in Int /\ Scaled(x, f) <= x
<1>1. CASE x >= 0
  <2>1. x \in Nat /\ x \div f \in Nat /\ x \div f <= x
    BY <1>1
  <2> QED BY <1>1, <2>1 DEF Scaled
<1>2. CASE x < 0
  <2>1. x * f \in Int /\ x * f <= x
    BY <1>2
  <2> QED BY <1>2, <2>1 DEF Scaled
<1> QED BY <1>1, <1>2

\* However often a token was said, its logit is not above the model's.
LEMMA PenalizedBelow ==
    ASSUME NEW d \in Draws, NEW t \in DOMAIN d.logits
    PROVE  Penalized(d, t) \in Int /\ Penalized(d, t) <= d.logits[t]
<1> DEFINE n == Len(d.history)
           x == d.logits[t]
           f == d.penalty
           Body(u) == [j \in 0 .. n |->
                         IF j = 0 THEN x
                         ELSE IF d.history[j] = t THEN Scaled(u[j - 1], f)
                         ELSE u[j - 1]]
           F == [j \in 1 .. n |-> [y \in Int |->
                    IF d.history[j] = t THEN Scaled(y, f) ELSE y]]
           u == CHOOSE u : u = Body(u)
<1>1. n \in Nat /\ x \in Int /\ f \in Nat \ {0}
  <2>1. /\ d.logits \in [0 .. Cardinality(DOMAIN d.logits) - 1 -> Int]
        /\ d.history \in Seq(Nat) /\ d.penalty \in Nat \ {0}
    BY DrawAssumption
  <2>2. x \in Int
    BY <2>1
  <2> QED BY <2>1, <2>2
<1>2. Penalized(d, t) = u[n]
  BY DEF Penalized
<1> HIDE DEF n, x, f
<1>3. F \in [1 .. n -> [Int -> Int]]
  BY <1>1, ScaledBelow
<1>4. PICK g : Iterates(g, Int, x, F, n)
  <2> HIDE DEF F
  <2> QED BY <1>1, <1>3, IterationExists
<1>5. ASSUME NEW j \in 1 .. n
      PROVE  g[j] = IF d.history[j] = t THEN Scaled(g[j - 1], f) ELSE g[j - 1]
  <2>1. g[j - 1] \in Int /\ g[j] = F[j][g[j - 1]]
    BY <1>1, <1>4 DEF Iterates
  <2> QED BY <2>1
<1>6. g = Body(g)
  BY <1>1, <1>4, <1>5 DEF Iterates
<1>7. u = Body(u)
  <2> HIDE DEF Body
  <2> QED BY <1>6
<1> HIDE DEF u
<1>8. /\ u[0] = x
      /\ \A j \in 1 .. n :
            u[j] = IF d.history[j] = t THEN Scaled(u[j - 1], f) ELSE u[j - 1]
  BY <1>1, <1>7
<1> DEFINE I == {j \in Nat : j <= n => u[j] \in Int /\ u[j] <= x}
<1>9. 0 \in I
  BY <1>1, <1>8
<1>10. ASSUME NEW j \in Nat, j \in I PROVE j + 1 \in I
  <2>1. SUFFICES ASSUME j + 1 <= n PROVE u[j + 1] \in Int /\ u[j + 1] <= x
    OBVIOUS
  <2>2. u[j] \in Int /\ u[j] <= x
    BY <1>1, <1>10, <2>1
  <2>3. j + 1 \in 1 .. n /\ (j + 1) - 1 = j
    BY <1>1, <2>1
  <2>4. u[j + 1] = IF d.history[j + 1] = t THEN Scaled(u[j], f) ELSE u[j]
    BY <1>8, <2>3
  <2>5. Scaled(u[j], f) \in Int /\ Scaled(u[j], f) <= u[j]
    BY <1>1, <2>2, ScaledBelow
  <2> QED BY <1>1, <2>2, <2>4, <2>5
<1> HIDE DEF I
<1>11. Nat \subseteq I
  BY <1>9, <1>10, SetInduction
<1>12. n \in I
  BY <1>1, <1>11
<1> QED BY <1>1, <1>2, <1>12 DEF I, x
-----------------------------------------------------------------------------
(* The invariant *)

\* l is the logits of a vocabulary of n tokens, penalized.
Penalties(n) == /\ Ids = 0 .. n - 1 /\ Cardinality(Ids) = n
                /\ ask \in Draws
                /\ \A t \in Ids : l[t] \in Int /\ l[t] <= ask.logits[t]

\* What sample has established before each of its steps.
SampleIInv ==
    /\ ask # NoAsk => \E n \in Nat \ {0} : Penalties(n)
    /\ kept # {} => /\ ask # NoAsk /\ ~ask.greedy /\ top \in Tops
                    /\ kept \in IF ask.top_p < 100 THEN Nuclei(top) ELSE {top}
    /\ pick # NoToken =>
          /\ ask # NoAsk
          /\ IF ask.greedy THEN pick = Greedy
             ELSE pick \in kept /\ Weight(pick) > 0

\* The highest logit is one, and no token weighs more than it.
LEMMA HighestIsMax ==
    ASSUME NEW n \in Nat \ {0}, Penalties(n)
    PROVE  /\ \E t \in Ids : l[t] = Highest
           /\ \A t \in Ids : l[t] <= Highest /\ Weight(t) \in Nat
<1> DEFINE f == [t \in 0 .. n - 1 |-> l[t]]
<1>2. f \in [0 .. n - 1 -> Int] /\ n - 1 \in Nat
  BY DEF Penalties
<1>3. PICK t \in 0 .. n - 1 : \A u \in 0 .. n - 1 : f[t] >= f[u]
  <2> HIDE DEF f
  <2> QED BY <1>2, GreatestExists
<1>4. t \in Ids /\ \A u \in Ids : l[t] >= l[u] /\ l[u] \in Int
  BY <1>3 DEF Penalties
<1> DEFINE S == {l[u] : u \in Ids}
<1>5. l[t] \in S /\ \A y \in S : l[t] >= y
  BY <1>4
<1>6. Highest \in S /\ \A y \in S : Highest >= y
  BY <1>5 DEF Highest, Max
<1>7. \A u \in Ids : l[u] <= Highest /\ l[u] \in Int /\ Highest \in Int
  BY <1>4, <1>6
<1>8. ASSUME NEW u \in Ids PROVE Weight(u) \in Nat
  <2>1. Highest - l[u] \in Nat
    BY <1>7
  <2> QED BY <2>1, ExpAssumption DEF Weight
<1> QED BY <1>6, <1>7, <1>8

\* Of two tokens the one that weighs more has the higher logit.
LEMMA HeavierIsHigher ==
    ASSUME NEW n \in Nat \ {0}, Penalties(n), NEW a \in Ids, NEW b \in Ids,
           Weight(a) > Weight(b)
    PROVE  l[a] > l[b]
<1>1. /\ l[a] \in Int /\ l[b] \in Int /\ Highest \in Int
      /\ l[a] <= Highest /\ l[b] <= Highest
  BY HighestIsMax DEF Penalties
<1>2. SUFFICES ASSUME l[a] <= l[b] PROVE FALSE
  BY <1>1
<1> DEFINE da == Highest - l[a]
           db == Highest - l[b]
<1>3. da \in Nat /\ db \in Nat /\ db <= da
  BY <1>1, <1>2
<1>4. /\ Weight(a) = IF da > Depth THEN 0 ELSE Exp[da]
      /\ Weight(b) = IF db > Depth THEN 0 ELSE Exp[db]
  BY DEF Weight
<1> HIDE DEF da, db
<1> QED BY <1>3, <1>4, ExpAssumption

\* max_element finds a token than which none is higher.
LEMMA GreedyIsHighest ==
    ASSUME NEW n \in Nat \ {0}, Penalties(n)
    PROVE  Greedy \in Ids /\ l[Greedy] = Highest
<1> DEFINE S == {t \in Ids : l[t] = Highest}
<1>1. S \in SUBSET Nat /\ S # {}
  BY HighestIsMax DEF Penalties
<1>2. PICK x \in S : \A y \in S : x <= y
  <2> HIDE DEF S
  <2> QED BY <1>1, LeastExists
<1>3. Greedy \in S
  BY <1>2 DEF Greedy, Min
<1> QED BY <1>3

\* A token of a set that was kept is in the top, has weight, and the heavier
\* ones are in what was kept before the last.
LEMMA HeavierInNucleus ==
    ASSUME NEW n \in Nat \ {0}, Penalties(n), NEW S \in Tops,
           NEW N \in Nuclei(S), NEW t \in N
    PROVE  LET H == {u \in Ids : Weight(u) > Weight(t)}
           IN \/ H = {}
              \/ 100 * Mass(H) < ask.top_p * Mass(S)
<1> DEFINE H == {u \in Ids : Weight(u) > Weight(t)}
<1>1. /\ S \subseteq Ids /\ N \subseteq S
      /\ \A a \in S, b \in Ids \ S : l[a] >= l[b]
      /\ \A a \in N, b \in S \ N : Weight(a) >= Weight(b)
  BY DEF Tops, kSubset, Nuclei
<1>2. PICK last \in N : /\ \A a \in N : Weight(a) >= Weight(last)
                        /\ N = {last} \/ ~Reached(N \ {last}, S)
  BY DEF Nuclei
<1>3. /\ \A u \in Ids : Weight(u) \in Nat /\ l[u] \in Int
      /\ t \in Ids /\ last \in Ids
  BY <1>1, <1>2, HighestIsMax DEF Penalties
<1>4. ASSUME NEW u \in H PROVE u \in N \ {last}
  <2>1. u \in Ids /\ Weight(u) > Weight(t)
    OBVIOUS
  <2>2. l[u] > l[t]
    BY <1>3, <2>1, HeavierIsHigher
  <2>3. u \in S
    BY <1>1, <1>3, <2>1, <2>2
  <2>4. u \in N
    BY <1>1, <1>3, <2>1, <2>3
  <2>5. u # last
    BY <1>2, <1>3, <2>1
  <2> QED BY <2>4, <2>5
<1>5. CASE N = {last}
  BY <1>4, <1>5
<1>6. CASE ~Reached(N \ {last}, S)
  <2> DEFINE before == N \ {last}
  <2>1. H \subseteq before /\ before \subseteq S
    BY <1>1, <1>4
  <2>2. /\ Ids = 0 .. n - 1 /\ Cardinality(Ids) = n
        /\ \A k \in Ids : Weight(k) \in Nat /\ 0 \in Nat
    BY <1>3 DEF Penalties
  <2> HIDE DEF H, before
  <2>3. /\ Mass(H) \in Nat /\ Mass(before) \in Nat
        /\ Mass(H) + 0 <= Mass(before)
    BY <1>3, <2>1, <2>2, MassBelow
  <2>4. Mass(S) \in Nat
    BY <1>3, <2>1, <2>2, MassBelow
  <2>5. ask.top_p \in Nat
    BY DrawAssumption DEF Penalties
  <2>6. ask.top_p * Mass(S) \in Nat
    BY <2>4, <2>5
  <2>7. 100 * Mass(before) < ask.top_p * Mass(S)
    BY <1>6, <2>3, <2>6 DEF Reached, before
  <2>8. 100 * Mass(H) < ask.top_p * Mass(S)
    BY <2>3, <2>6, <2>7
  <2> QED BY <2>8 DEF H
<1> QED BY <1>2, <1>5, <1>6

LEMMA PercentOfLess ==
    ASSUME NEW p \in Nat, p >= 100, NEW a \in Nat, NEW b \in Nat, a + 1 <= b
    PROVE  100 * a < p * b
OBVIOUS

\* Without top_p the tokens that are heavier than one of the top weigh less
\* than all of it.
LEMMA HeavierInTop ==
    ASSUME NEW n \in Nat \ {0}, Penalties(n), NEW S \in Tops, NEW t \in S,
           Weight(t) > 0, ask.top_p >= 100
    PROVE  100 * Mass({u \in Ids : Weight(u) > Weight(t)})
              < ask.top_p * Mass(S)
<1> DEFINE H == {u \in Ids : Weight(u) > Weight(t)}
<1>1. S \subseteq Ids /\ \A a \in S, b \in Ids \ S : l[a] >= l[b]
  BY DEF Tops, kSubset
<1>2. \A u \in Ids : Weight(u) \in Nat /\ l[u] \in Int
  BY HighestIsMax DEF Penalties
<1>3. ASSUME NEW u \in H PROVE u \in S \ {t}
  <2>1. u \in Ids /\ Weight(u) > Weight(t) /\ t \in Ids
    BY <1>1
  <2>2. l[u] > l[t]
    BY <2>1, HeavierIsHigher
  <2> QED BY <1>1, <1>2, <2>1, <2>2
<1>4. /\ Ids = 0 .. n - 1 /\ Cardinality(Ids) = n
      /\ \A k \in Ids : Weight(k) \in Nat
  BY <1>2 DEF Penalties
<1>5. H \subseteq S /\ t \in S \ H /\ t \in Ids /\ 1 <= Weight(t) /\ 1 \in Nat
  BY <1>1, <1>2, <1>3
<1> HIDE DEF H
<1>6. Mass(H) \in Nat /\ Mass(S) \in Nat /\ Mass(H) + 1 <= Mass(S)
  BY <1>4, <1>5, MassBelow
<1>7. ask.top_p \in Nat
  BY DrawAssumption DEF Penalties
<1>8. 100 * Mass(H) < ask.top_p * Mass(S)
  BY <1>6, <1>7, PercentOfLess
<1> QED BY <1>8 DEF H

\* Fewer than top_k tokens are higher than one of the top.
LEMMA HigherInTop ==
    ASSUME NEW n \in Nat \ {0}, Penalties(n), NEW S \in Tops, NEW t \in S
    PROVE  Cardinality({u \in Ids : l[u] > l[t]}) < TopK
<1> DEFINE H == {u \in Ids : l[u] > l[t]}
<1>1. /\ S \subseteq Ids /\ Cardinality(S) = TopK
      /\ \A a \in S, b \in Ids \ S : l[a] >= l[b]
  BY DEF Tops, kSubset
<1>2. \A u \in Ids : l[u] \in Int
  BY DEF Penalties
<1>3. H \subseteq S \ {t}
  BY <1>1, <1>2
<1>4. IsFiniteSet(Ids)
  BY FS_Interval DEF Penalties
<1>5. IsFiniteSet(S)
  BY <1>1, <1>4, FS_Subset
<1>6. IsFiniteSet(S \ {t}) /\ Cardinality(S \ {t}) = Cardinality(S) - 1
  BY <1>5, FS_RemoveElement
<1> HIDE DEF H
<1>7. IsFiniteSet(H) /\ Cardinality(H) <= Cardinality(S \ {t})
  BY <1>3, <1>6, FS_Subset
<1>8. /\ Cardinality(S) \in Nat /\ Cardinality(H) \in Nat
      /\ Cardinality(S \ {t}) \in Nat
  BY <1>5, <1>6, <1>7, FS_CardinalityType
<1>9. Cardinality(H) < TopK
  BY <1>1, <1>6, <1>7, <1>8
<1> QED BY <1>9 DEF H

LEMMA NucleusOfInvariant == SampleIInv => DrawnFromNucleus
<1> SUFFICES ASSUME SampleIInv, pick # NoToken PROVE DrawnFromNucleus
  BY DEF DrawnFromNucleus
<1> DEFINE higher == {t \in Ids : l[t] > l[pick]}
           likelier == {t \in Ids : Weight(t) > Weight(pick)}
<1>1. PICK n \in Nat \ {0} : Penalties(n)
  BY DEF SampleIInv
<1>2. \A t \in Ids : l[t] <= ask.logits[t] /\ l[t] \in Int
  BY <1>1 DEF Penalties
<1>3. CASE ask.greedy
  <2>1. pick = Greedy
    BY <1>3 DEF SampleIInv
  <2>2. l[pick] = Highest /\ pick \in Ids
    BY <1>1, <2>1, GreedyIsHighest
  <2>3. \A t \in Ids : l[t] <= l[pick]
    BY <1>1, <2>2, HighestIsMax
  <2>4. higher = {}
    BY <1>2, <2>2, <2>3
  <2> QED BY <1>2, <1>3, <2>4 DEF DrawnFromNucleus
<1>4. CASE ~ask.greedy
  <2>1. pick \in kept /\ Weight(pick) > 0
    BY <1>4 DEF SampleIInv
  <2>2. top \in Tops /\ kept \in IF ask.top_p < 100 THEN Nuclei(top) ELSE {top}
    BY <2>1 DEF SampleIInv
  <2>3. ask.top_p \in Nat
    BY <1>1, DrawAssumption DEF Penalties
  <2>4. kept \subseteq top
    BY <2>2 DEF Nuclei
  <2>5. Cardinality(higher) < TopK
    BY <1>1, <2>1, <2>2, <2>4, HigherInTop
  <2>6. likelier = {} \/ 100 * Mass(likelier) < ask.top_p * Mass(top)
    <3>1. CASE ask.top_p < 100
      BY <1>1, <2>1, <2>2, <3>1, HeavierInNucleus
    <3>2. CASE ~(ask.top_p < 100)
      <4>1. ask.top_p >= 100 /\ kept = top
        BY <2>2, <2>3, <3>2
      <4> QED BY <1>1, <2>1, <2>2, <4>1, HeavierInTop
    <3> QED BY <3>1, <3>2
  <2>7. ask.top_p < 100 => 100 * Mass(kept) >= ask.top_p * Mass(top)
    BY <2>2 DEF Nuclei, Reached
  <2> HIDE DEF higher, likelier
  <2>8. /\ Cardinality(higher) < TopK
        /\ likelier = {} \/ 100 * Mass(likelier) < ask.top_p * Mass(top)
        /\ ask.top_p < 100 => 100 * Mass(kept) >= ask.top_p * Mass(top)
    BY <2>5, <2>6, <2>7
  <2> QED BY <1>2, <1>4, <2>8 DEF DrawnFromNucleus, higher, likelier
<1> QED BY <1>3, <1>4

-----------------------------------------------------------------------------
LEMMA SampleStarts == SampleInit => SampleIInv
BY DEF SampleInit, SampleIInv

\* Penalized gives every token of the request a logit.
LEMMA AskPenalizes ==
    ASSUME SampleIInv, NEW d \in Draws, Ask(d)
    PROVE  d # NoAsk /\ \E n \in Nat \ {0} : Penalties(n)'
<1> DEFINE n == Cardinality(DOMAIN d.logits)
<1>1. /\ IsFiniteSet(DOMAIN d.logits) /\ DOMAIN d.logits # {}
      /\ DOMAIN d.logits = 0 .. n - 1
  BY DrawAssumption
<1>2. n \in Nat \ {0}
  BY <1>1, FS_CardinalityType, FS_EmptySet
<1>3. d # NoAsk
  BY <1>1 DEF NoAsk
<1>4. ask' = d /\ l' = [t \in DOMAIN d.logits |-> Penalized(d, t)]
  BY DEF Ask
<1>5. \A t \in DOMAIN d.logits :
         Penalized(d, t) \in Int /\ Penalized(d, t) <= d.logits[t]
  BY PenalizedBelow
<1>6. Ids' = 0 .. n - 1 /\ Cardinality(Ids)' = n
  BY <1>1, <1>4 DEF Ids
<1>7. \A t \in DOMAIN l' : l'[t] \in Int /\ l'[t] <= ask'.logits[t]
  BY <1>4, <1>5
<1> HIDE DEF n
<1>8. Penalties(n)'
  BY <1>4, <1>6, <1>7 DEF Penalties, Ids
<1> QED BY <1>2, <1>3, <1>8

\* What depends on the logits and the request stays as long as they do.
LEMMA SameLogits ==
    ASSUME UNCHANGED <<ask, l>>
    PROVE  /\ \A n : Penalties(n)' = Penalties(n)
           /\ Tops' = Tops /\ Greedy' = Greedy
           /\ \A S : Nuclei(S)' = Nuclei(S)
           /\ \A t : Weight(t)' = Weight(t)
BY DEF Penalties, Ids, Tops, TopK, Greedy, Highest, Nuclei, Reached, Mass, Weight

LEMMA SampleSteps == SampleIInv /\ [SampleNext]_sampleVars => SampleIInv'
<1> SUFFICES ASSUME SampleIInv, [SampleNext]_sampleVars PROVE SampleIInv'
  OBVIOUS
<1>1. ASSUME NEW d \in Draws, Ask(d) PROVE SampleIInv'
  <2>1. kept' = {} /\ pick' = NoToken
    BY <1>1 DEF Ask, SampleIInv
  <2>2. \E n \in Nat \ {0} : Penalties(n)'
    BY <1>1, AskPenalizes
  <2> QED BY <2>1, <2>2 DEF SampleIInv
<1>2. CASE TakeLikeliest
  <2>1. UNCHANGED <<ask, l, top, kept>> /\ ask # NoAsk /\ ask.greedy
    BY <1>2 DEF TakeLikeliest, Asked
  <2>2. pick' = Greedy'
    BY <1>2, <2>1, SameLogits DEF TakeLikeliest
  <2> QED BY <2>1, <2>2, SameLogits DEF SampleIInv
<1>3. CASE Keep
  <2>1. /\ UNCHANGED <<ask, l, pick>> /\ ask # NoAsk /\ ~ask.greedy
        /\ pick = NoToken
    BY <1>3 DEF Keep, Asked
  <2>2. /\ top' \in Tops
        /\ kept' \in IF ask.top_p < 100 THEN Nuclei(top') ELSE {top'}
    BY <1>3 DEF Keep
  <2> QED BY <2>1, <2>2, SameLogits DEF SampleIInv
<1>4. CASE Draw
  <2>1. UNCHANGED <<ask, l, top, kept>> /\ ask # NoAsk
    BY <1>4 DEF Draw, Asked
  <2>2. PICK t \in kept : Weight(t) > 0 /\ pick' = t
    BY <1>4 DEF Draw
  <2>3. ~ask.greedy
    BY <2>2 DEF SampleIInv
  <2> QED BY <2>1, <2>2, <2>3, SameLogits DEF SampleIInv
<1>5. CASE UNCHANGED sampleVars
  <2>1. UNCHANGED <<ask, l, top, kept, pick>>
    BY <1>5 DEF sampleVars
  <2> QED BY <2>1, SameLogits DEF SampleIInv
<1> QED BY <1>1, <1>2, <1>3, <1>4, <1>5 DEF SampleNext

\* Whatever is drawn comes from the nucleus that top_k and top_p describe, and
\* penalties raise no token, for all logits, histories and weights
\* (LlamaRuntime::sample).
THEOREM DrawsFromNucleus == SampleSpec => []DrawnFromNucleus
<1>1. SampleInit => SampleIInv
  BY SampleStarts
<1>2. SampleIInv /\ [SampleNext]_sampleVars => SampleIInv'
  BY SampleSteps
<1>3. SampleIInv => DrawnFromNucleus
  BY NucleusOfInvariant
<1> QED BY <1>1, <1>2, <1>3, PTL DEF SampleSpec
=============================================================================
