--------------------------- MODULE AttentionProofs ---------------------------
(***************************************************************************)
(* Proofs about the shape of the network, for all metadata: with whatever  *)
(* load accepts, the heads take the vectors apart without overlap or gap.  *)
(***************************************************************************)
EXTENDS Attention, TLAPS

Loaded == phase \in {"q", "k", "attend"}

\* What load has established about a shape: heads are equally large, and groups
\* equally many.
Regular(a) ==
    /\ a.hidden \in Nat /\ a.heads \in Nat /\ a.kv \in Nat /\ a.rope \in Nat
    /\ a.heads > 0 /\ a.kv > 0
    /\ HeadDim(a) \in Nat /\ HeadDim(a) > 0
    /\ a.hidden = a.heads * HeadDim(a)
    /\ a.heads \div a.kv \in Nat /\ a.heads \div a.kv > 0
    /\ a.heads = a.kv * (a.heads \div a.kv)
    /\ a.rope <= HeadDim(a) /\ a.rope % 2 = 0

\* rope has turned the elements of the heads before the next one, once.
TurnedOnce(vec, len, from) ==
    /\ DOMAIN vec = 0 .. len - 1
    /\ \A e \in DOMAIN vec : /\ vec[e] \in 0 .. 1
                             /\ e >= from => vec[e] = 0

Turning ==
    /\ phase = "q" =>
          /\ head \in 0 .. arch.heads - 1
          /\ TurnedOnce(qvec, arch.hidden, head * HeadDim(arch))
          /\ TurnedOnce(kvec, Stride(arch), 0)
    /\ phase = "k" =>
          /\ head \in 0 .. arch.kv - 1
          /\ TurnedOnce(qvec, arch.hidden, arch.hidden)
          /\ TurnedOnce(kvec, Stride(arch), head * HeadDim(arch))
    /\ phase = "attend" =>
          /\ TurnedOnce(qvec, arch.hidden, arch.hidden)
          /\ TurnedOnce(kvec, Stride(arch), Stride(arch))

\* What the heads that are done have written and read, and no more.
Attending ==
    /\ attended \subseteq 0 .. arch.heads - 1
    /\ phase # "attend" => attended = {}
    /\ DOMAIN attn = 0 .. arch.hidden - 1
    /\ \A e \in DOMAIN attn : attn[e] \in 0 .. 1
    /\ \A e \in DOMAIN attn :
          attn[e] = 1 <=> \E h \in attended : e \in Part(h)
    /\ seen = UNION {Part(KvHead(h)) : h \in attended}

\* The inductive invariant.
IInv == /\ phase \in {"new", "refused"} \/ Loaded
        /\ phase = "new" => head = 0 /\ attended = {} /\ seen = {}
        /\ Loaded => Regular(arch) /\ Turning /\ Attending
-----------------------------------------------------------------------------
(* Arithmetic *)

\* A product grows with its first factor, by at least the second.
LEMMA ProductStep ==
    ASSUME NEW a \in Nat, NEW b \in Nat, NEW d \in Nat, a < b
    PROVE  /\ a * d \in Nat /\ b * d \in Nat
           /\ a * d + d <= b * d
<1>1. PICK c \in Nat : b = a + 1 + c
  <2>1. b - a - 1 \in Nat /\ b = a + 1 + (b - a - 1)
    BY SMT
  <2> QED BY <2>1
<1>2. b * d = a * d + d + c * d /\ c * d >= 0
  BY <1>1, SMT
<1>3. a * d \in Nat /\ b * d \in Nat /\ c * d \in Nat
  BY SMT
<1> QED BY <1>2, <1>3, SMT

\* Division leaves a remainder below the divisor, ...
LEMMA Quotient ==
    ASSUME NEW a \in Nat, NEW d \in Nat, d > 0
    PROVE  /\ a \div d \in Nat
           /\ d * (a \div d) <= a
           /\ a < d * (a \div d) + d
  BY SMT

\* ... or none.
LEMMA Exact ==
    ASSUME NEW a \in Nat, NEW d \in Nat, d > 0, a % d = 0
    PROVE  a = d * (a \div d)
  BY SMT

\* A number below n * d lies in one of the n parts of length d.
LEMMA QuotientBelow ==
    ASSUME NEW e \in Nat, NEW n \in Nat, NEW d \in Nat, d > 0, e < n * d
    PROVE  /\ e \div d \in 0 .. n - 1
           /\ \E r \in 0 .. d - 1 : e = (e \div d) * d + r
<1> DEFINE q == e \div d
<1>1. q \in Nat /\ d * q <= e /\ e < d * q + d
  BY Quotient
<1> HIDE DEF q
<1>2. d * q = q * d /\ q * d \in Nat /\ n * d \in Nat
  BY <1>1, SMT
<1>3. ~(n < q)
  <2> SUFFICES ASSUME n < q PROVE FALSE
    OBVIOUS
  <2>1. n * d + d <= q * d
    BY <1>1, ProductStep
  <2> QED BY <2>1, <1>1, <1>2, SMT
<1>4. n # q
  <2> SUFFICES ASSUME n = q PROVE FALSE
    OBVIOUS
  <2>1. n * d = q * d
    OBVIOUS
  <2> QED BY <2>1, <1>1, <1>2, SMT
<1>5. q \in 0 .. n - 1
  BY <1>1, <1>3, <1>4, SMT
<1>6. e - q * d \in 0 .. d - 1 /\ e = q * d + (e - q * d)
  BY <1>1, <1>2, SMT
<1> QED BY <1>5, <1>6 DEF q
-----------------------------------------------------------------------------
(* The parts of the heads *)

\* A head's part begins where the one before it ends.
LEMMA PartBounds ==
    ASSUME Regular(arch), NEW h \in Nat, NEW e \in Part(h)
    PROVE  /\ e \in Nat /\ h * HeadDim(arch) \in Nat
           /\ h * HeadDim(arch) <= e
           /\ e < h * HeadDim(arch) + HeadDim(arch)
<1> DEFINE d == HeadDim(arch)
<1>1. d \in Nat
  BY DEF Regular
<1>2. PICK x \in 0 .. d - 1 : e = h * d + x
  BY DEF Part
<1> HIDE DEF d
<1>3. h * d \in Nat
  BY <1>1, SMT
<1>4. e \in Nat /\ h * d <= e /\ e < h * d + d
  BY <1>1, <1>2, <1>3, SMT
<1> QED BY <1>3, <1>4 DEF d

\* The parts of n heads lie in a vector of n heads, ...
LEMMA PartInside ==
    ASSUME Regular(arch), NEW n \in Nat, NEW h \in 0 .. n - 1
    PROVE  Part(h) \subseteq 0 .. n * HeadDim(arch) - 1
<1> SUFFICES ASSUME NEW e \in Part(h)
             PROVE  e \in 0 .. n * HeadDim(arch) - 1
  OBVIOUS
<1> DEFINE d == HeadDim(arch)
<1>1. h \in Nat /\ h < n
  BY SMT
<1>2. d \in Nat
  BY DEF Regular
<1>3. e \in Nat /\ e < h * d + d
  BY <1>1, PartBounds
<1> HIDE DEF d
<1>4. h * d \in Nat /\ n * d \in Nat /\ h * d + d <= n * d
  BY <1>1, <1>2, ProductStep
<1>5. e \in 0 .. n * d - 1
  BY <1>2, <1>3, <1>4, SMT
<1> QED BY <1>5 DEF d

\* ... have no element in common, ...
LEMMA PartIsOwn ==
    ASSUME Regular(arch), NEW g \in Nat, NEW h \in Nat, NEW e,
           e \in Part(g), e \in Part(h)
    PROVE  g = h
<1> DEFINE d == HeadDim(arch)
<1>1. d \in Nat
  BY DEF Regular
<1>2. /\ e \in Nat /\ g * d <= e /\ e < g * d + d
      /\ h * d <= e /\ e < h * d + d
  BY PartBounds
<1> HIDE DEF d
<1>3. ~(g < h)
  <2> SUFFICES ASSUME g < h PROVE FALSE
    OBVIOUS
  <2>1. g * d \in Nat /\ h * d \in Nat /\ g * d + d <= h * d
    BY <1>1, ProductStep
  <2> QED BY <2>1, <1>1, <1>2, SMT
<1>4. ~(h < g)
  <2> SUFFICES ASSUME h < g PROVE FALSE
    OBVIOUS
  <2>1. g * d \in Nat /\ h * d \in Nat /\ h * d + d <= g * d
    BY <1>1, ProductStep
  <2> QED BY <2>1, <1>1, <1>2, SMT
<1> QED BY <1>3, <1>4, SMT

\* ... and leave none out.
LEMMA PartOf ==
    ASSUME Regular(arch), NEW n \in Nat, NEW e \in 0 .. n * HeadDim(arch) - 1
    PROVE  \E h \in 0 .. n - 1 : e \in Part(h)
<1> DEFINE d == HeadDim(arch)
<1>1. d \in Nat /\ d > 0
  BY DEF Regular
<1>2. e \in 0 .. n * d - 1
  OBVIOUS
<1> HIDE DEF d
<1>3. e \in Nat /\ e < n * d
  <2>1. n * d \in Nat
    BY <1>1, SMT
  <2> QED BY <2>1, <1>2, SMT
<1>4. /\ e \div d \in 0 .. n - 1
      /\ \E r \in 0 .. d - 1 : e = (e \div d) * d + r
  BY <1>1, <1>3, QuotientBelow
<1>5. e \in Part(e \div d)
  BY <1>4 DEF Part, d
<1> QED BY <1>4, <1>5

\* rope stays in the part of its head: the last pair is whole.
LEMMA TurnedInPart ==
    ASSUME Regular(arch), NEW h \in Nat
    PROVE  Turned(h) \subseteq Part(h)
<1> SUFFICES ASSUME NEW e \in Turned(h) PROVE e \in Part(h)
  OBVIOUS
<1> DEFINE d == HeadDim(arch)
           b == h * d
<1>1. d \in Nat /\ arch.rope \in Nat /\ arch.rope <= d /\ arch.rope % 2 = 0
  BY DEF Regular
<1>2. PICK x \in 0 .. arch.rope - 1 :
         x % 2 = 0 /\ (e = b + x \/ e = b + x + 1)
  BY DEF Turned
<1> HIDE DEF d
<1>3. b \in Nat
  BY <1>1, SMT
<1> HIDE DEF b
<1>4. x + 1 < arch.rope
  BY <1>1, <1>2, SMT
<1>5. \E y \in 0 .. d - 1 : e = b + y
  <2>1. x \in 0 .. d - 1 /\ x + 1 \in 0 .. d - 1 /\ b + x + 1 = b + (x + 1)
    BY <1>1, <1>3, <1>4, SMT
  <2> QED BY <2>1, <1>2
<1> QED BY <1>5 DEF Part, b, d
-----------------------------------------------------------------------------
(* The groups *)

\* A head reads one of the keys, ...
LEMMA KvHeadInside ==
    ASSUME Regular(arch), NEW h \in 0 .. arch.heads - 1
    PROVE  KvHead(h) \in 0 .. arch.kv - 1
<1> DEFINE g == arch.heads \div arch.kv
<1>1. /\ g \in Nat /\ g > 0 /\ arch.kv \in Nat /\ arch.heads \in Nat
      /\ arch.heads = arch.kv * g
  BY DEF Regular
<1> HIDE DEF g
<1>2. h \in Nat /\ h < arch.kv * g
  BY <1>1, SMT
<1>3. h \div g \in 0 .. arch.kv - 1
  BY <1>1, <1>2, QuotientBelow
<1> QED BY <1>3 DEF KvHead, g

\* ... and every key is read by a head.
LEMMA KvHeadOnto ==
    ASSUME Regular(arch), NEW x \in 0 .. arch.kv - 1
    PROVE  \E h \in 0 .. arch.heads - 1 : KvHead(h) = x
<1> DEFINE g == arch.heads \div arch.kv
<1>1. /\ g \in Nat /\ g > 0 /\ arch.kv \in Nat /\ arch.heads \in Nat
      /\ arch.heads = arch.kv * g
  BY DEF Regular
<1> HIDE DEF g
<1>2. x \in Nat /\ x < arch.kv
  BY <1>1, SMT
<1>3. x * g \in Nat /\ arch.kv * g \in Nat /\ x * g + g <= arch.kv * g
  BY <1>1, <1>2, ProductStep
<1>4. x * g \in 0 .. arch.heads - 1
  BY <1>1, <1>3, SMT
<1> DEFINE a == x * g
           y == a \div g
<1>5. y \in Nat /\ g * y <= a /\ a < g * y + g
  BY <1>1, <1>3, Quotient
<1> HIDE DEF y
<1>6. g * y = y * g /\ y * g \in Nat
  BY <1>1, <1>5, SMT
<1>7. ~(y < x)
  <2> SUFFICES ASSUME y < x PROVE FALSE
    OBVIOUS
  <2>1. y * g + g <= x * g
    BY <1>1, <1>2, <1>5, ProductStep
  <2> QED BY <2>1, <1>1, <1>3, <1>5, <1>6, SMT
<1>8. ~(x < y)
  <2> SUFFICES ASSUME x < y PROVE FALSE
    OBVIOUS
  <2>1. x * g + g <= y * g
    BY <1>1, <1>2, <1>5, ProductStep
  <2> QED BY <2>1, <1>1, <1>3, <1>5, <1>6, SMT
<1>9. y = x
  BY <1>2, <1>5, <1>7, <1>8, SMT
<1> QED BY <1>4, <1>9 DEF KvHead, g, y
-----------------------------------------------------------------------------
(* The steps *)

\* load accepts regular shapes only.
LEMMA AcceptedIsRegular ==
    ASSUME NEW m \in Metas, Accepted(Arch(m))
    PROVE  Regular(Arch(m))
<1> DEFINE a == Arch(m)
<1>1. \A key \in Keys : \A fallback \in Nat : Get(m, key, fallback) \in Nat
  BY MetaAssumption DEF Get
<1>2. a.hidden \in Nat /\ a.heads \in Nat
  BY <1>1 DEF Arch, Keys
<1>3. a.kv \in Nat
  BY <1>1, <1>2 DEF Arch, Keys
<1>4. /\ a.heads # 0 /\ a.kv # 0 /\ a.hidden # 0
      /\ a.hidden % a.heads = 0 /\ a.heads % a.kv = 0
      /\ a.rope <= HeadDim(a) /\ a.rope % 2 = 0
  BY DEF Accepted, Divides
<1>5. a.rope \in Nat
  <2>1. Get(m, "embedding_length", 0) = a.hidden
        /\ Get(m, "head_count", 0) = a.heads
    BY DEF Arch
  <2>2. a.hidden \div a.heads \in Nat
    BY <1>2, <1>4, Quotient, SMT
  <2>3. a.rope = Get(m, "rope_dimension_count", a.hidden \div a.heads)
    BY <2>1, <1>4 DEF Arch
  <2> QED BY <1>1, <2>2, <2>3 DEF Keys
<1>h. a.heads > 0 /\ a.kv > 0 /\ a.hidden > 0
  BY <1>2, <1>3, <1>4, SMT
<1>6. /\ HeadDim(a) \in Nat /\ a.hidden = a.heads * HeadDim(a)
  BY <1>2, <1>4, <1>h, Quotient, Exact DEF HeadDim
<1>7. /\ a.heads \div a.kv \in Nat /\ a.heads = a.kv * (a.heads \div a.kv)
  BY <1>2, <1>3, <1>4, <1>h, Quotient, Exact
<1>8. HeadDim(a) > 0
  <2>1. HeadDim(a) # 0
    <3> SUFFICES ASSUME HeadDim(a) = 0 PROVE FALSE
      OBVIOUS
    <3>1. a.hidden = a.heads * 0
      BY <1>6
    <3> QED BY <3>1, <1>2, <1>h, SMT
  <2> QED BY <2>1, <1>6, SMT
<1>9. a.heads \div a.kv > 0
  <2>1. a.heads \div a.kv # 0
    <3> SUFFICES ASSUME a.heads \div a.kv = 0 PROVE FALSE
      OBVIOUS
    <3>1. a.heads = a.kv * 0
      BY <1>7
    <3> QED BY <3>1, <1>3, <1>h, SMT
  <2> QED BY <2>1, <1>7, SMT
<1> QED BY <1>2, <1>3, <1>4, <1>5, <1>h, <1>6, <1>7, <1>8, <1>9 DEF Regular

\* A loop that stays in its vector adds one to each element it changes.
LEMMA ChangedFacts ==
    ASSUME NEW len \in Nat, NEW vec, DOMAIN vec = 0 .. len - 1,
           NEW S \in SUBSET (0 .. len - 1)
    PROVE  /\ DOMAIN Changed(vec, S) = 0 .. len - 1
           /\ \A e \in 0 .. len - 1 : e \in S => Changed(vec, S)[e] = vec[e] + 1
           /\ \A e \in 0 .. len - 1 :
                 e \notin S => Changed(vec, S)[e] = vec[e] + 0
  BY DEF Changed

\* A head turns elements that are still as they were.
LEMMA TurnHead ==
    ASSUME Regular(arch), NEW n \in Nat, NEW h \in 0 .. n - 1, NEW vec,
           TurnedOnce(vec, n * HeadDim(arch), h * HeadDim(arch))
    PROVE  TurnedOnce(Changed(vec, Turned(h)), n * HeadDim(arch),
                      (h + 1) * HeadDim(arch))
<1> DEFINE d == HeadDim(arch)
           len == n * d
           new == Changed(vec, Turned(h))
<1>1. d \in Nat /\ h \in Nat /\ h < n
  BY SMT DEF Regular
<1>2. Turned(h) \subseteq Part(h) /\ Part(h) \subseteq 0 .. len - 1
  BY <1>1, TurnedInPart, PartInside
<1>3. \A e \in Turned(h) : h * d <= e /\ e < h * d + d
  BY <1>1, <1>2, PartBounds
<1>4. /\ DOMAIN vec = 0 .. len - 1
      /\ \A e \in 0 .. len - 1 : vec[e] \in 0 .. 1 /\ (e >= h * d => vec[e] = 0)
  BY DEF TurnedOnce
<1> HIDE DEF d
<1>5. len \in Nat /\ h * d \in Nat /\ (h + 1) * d = h * d + d
  BY <1>1, SMT
<1> HIDE DEF len
<1>6. /\ DOMAIN new = 0 .. len - 1
      /\ \A e \in 0 .. len - 1 : e \in Turned(h) => new[e] = vec[e] + 1
      /\ \A e \in 0 .. len - 1 : e \notin Turned(h) => new[e] = vec[e] + 0
  BY <1>2, <1>4, <1>5, ChangedFacts
<1> HIDE DEF new
<1>7. ASSUME NEW e \in 0 .. len - 1
      PROVE  new[e] \in 0 .. 1 /\ (e >= (h + 1) * d => new[e] = 0)
  <2>1. e \in Nat /\ vec[e] \in 0 .. 1
    BY <1>4, <1>5, SMT
  <2>2. CASE e \in Turned(h)
    <3>1. h * d <= e /\ e < h * d + d /\ vec[e] = 0 /\ new[e] = vec[e] + 1
      BY <2>2, <1>3, <1>4, <1>6, <2>1
    <3> QED BY <3>1, <2>1, <1>1, <1>5, SMT
  <2>3. CASE e \notin Turned(h)
    <3>1. new[e] = vec[e] + 0 /\ (e >= h * d => vec[e] = 0)
      BY <2>3, <1>4, <1>6
    <3> QED BY <3>1, <2>1, <1>1, <1>5, SMT
  <2> QED BY <2>2, <2>3
<1> QED BY <1>6, <1>7 DEF TurnedOnce, new, len, d

\* A vector of zeros has not been turned.
LEMMA Fresh ==
    ASSUME NEW len, NEW from
    PROVE  TurnedOnce(Zeros(len), len, from)
  BY DEF TurnedOnce, Zeros

\* A head that attends writes elements that nobody has written.
LEMMA AttendHead ==
    ASSUME Regular(arch), Attending, phase = "attend", NEW h \in 0 .. arch.heads - 1,
           Attend(h)
    PROVE  Attending'
<1> DEFINE len == arch.hidden
<1>1. /\ arch' = arch /\ phase' = phase /\ attended' = attended \cup {h}
      /\ attn' = Changed(attn, Part(h)) /\ seen' = seen \cup Part(KvHead(h))
      /\ h \notin attended
  BY DEF Attend
<1>2. \A g : Part(g)' = Part(g) /\ Part(KvHead(g))' = Part(KvHead(g))
  BY <1>1 DEF Part, KvHead, HeadDim
<1>3. len \in Nat /\ arch.heads \in Nat /\ len = arch.heads * HeadDim(arch)
  BY DEF Regular
<1>4. Part(h) \subseteq 0 .. len - 1
  BY <1>3, PartInside
<1>5. /\ DOMAIN attn' = 0 .. len - 1
      /\ \A e \in 0 .. len - 1 : e \in Part(h) => attn'[e] = attn[e] + 1
      /\ \A e \in 0 .. len - 1 : e \notin Part(h) => attn'[e] = attn[e] + 0
  BY <1>1, <1>3, <1>4, ChangedFacts DEF Attending
<1>6. ASSUME NEW e \in 0 .. len - 1
      PROVE  /\ attn'[e] \in 0 .. 1
             /\ attn'[e] = 1 <=> \E g \in attended \cup {h} : e \in Part(g)
  <2>1. /\ attn[e] \in 0 .. 1
        /\ attn[e] = 1 <=> \E g \in attended : e \in Part(g)
    BY DEF Attending
  <2>2. CASE e \in Part(h)
    <3>1. ~\E g \in attended : e \in Part(g)
      <4> SUFFICES ASSUME NEW g \in attended, e \in Part(g) PROVE FALSE
        OBVIOUS
      <4>1. g \in Nat /\ h \in Nat
        BY <1>3, SMT DEF Attending
      <4>2. g = h
        BY <4>1, <2>2, PartIsOwn
      <4> QED BY <4>2, <1>1
    <3>2. attn[e] = 0 /\ attn'[e] = attn[e] + 1
      BY <2>1, <2>2, <3>1, <1>5, SMT
    <3>3. attn'[e] = 1
      BY <3>2, SMT
    <3> QED BY <3>3, <2>2, SMT
  <2>3. CASE e \notin Part(h)
    <3>1. attn'[e] = attn[e]
      BY <2>1, <2>3, <1>5, SMT
    <3> QED BY <3>1, <2>1, <2>3
  <2> QED BY <2>2, <2>3
<1>7. seen' = UNION {Part(KvHead(g)) : g \in attended \cup {h}}
  BY <1>1 DEF Attending
<1>8. attended' \subseteq 0 .. arch.heads - 1
  BY <1>1 DEF Attending
<1>9. phase' = "attend"
  BY <1>1
<1>10. seen' = UNION {Part(KvHead(g))' : g \in attended'}
  BY <1>1, <1>2, <1>7
<1>11. \A e \in DOMAIN attn' :
          attn'[e] = 1 <=> \E g \in attended' : e \in Part(g)'
  BY <1>1, <1>2, <1>5, <1>6
<1> QED BY <1>1, <1>5, <1>6, <1>8, <1>9, <1>10, <1>11 DEF Attending

\* What rope does not change.
LEMMA AttendingKept ==
    ASSUME Attending, phase # "attend",
           UNCHANGED <<arch, attended, attn, seen>>
    PROVE  Attending'
<1>1. attended = {} /\ attended' = {}
  BY DEF Attending
<1> QED BY <1>1 DEF Attending

LEMMA Start == AttnInit => IInv
  BY DEF AttnInit, IInv, Loaded

LEMMA Step ==
    ASSUME IInv, [AttnNext]_attnVars
    PROVE  IInv'
<1>1. CASE \E m \in Metas : LoadArch(m)
  <2>1. PICK m \in Metas : LoadArch(m)
    BY <1>1
  <2> DEFINE a == Arch(m)
  <2>2. /\ phase = "new" /\ Accepted(a) /\ phase' = "q" /\ arch' = a
        /\ qvec' = Zeros(a.hidden) /\ kvec' = Zeros(Stride(a))
        /\ attn' = Zeros(a.hidden)
        /\ head' = 0 /\ attended' = {} /\ seen' = {}
    BY <2>1 DEF LoadArch, IInv
  <2>3. Regular(a)
    BY <2>2, AcceptedIsRegular
  <2> HIDE DEF a
  <2>4. 0 \in 0 .. a.heads - 1
    BY <2>3, SMT DEF Regular
  <2>5. /\ TurnedOnce(Zeros(a.hidden), a.hidden, 0 * HeadDim(a))
        /\ TurnedOnce(Zeros(Stride(a)), Stride(a), 0)
    BY Fresh
  <2>6. Turning'
    BY <2>2, <2>4, <2>5 DEF Turning
  <2>7. Attending'
    <3>1. DOMAIN attn' = 0 .. a.hidden - 1
          /\ \A e \in DOMAIN attn' : attn'[e] = 0
      BY <2>2 DEF Zeros
    <3> QED BY <2>2, <3>1 DEF Attending
  <2> QED BY <2>2, <2>3, <2>6, <2>7 DEF IInv, Loaded
<1>2. CASE \E m \in Metas : RefuseArch(m)
  BY <1>2 DEF RefuseArch, IInv, Loaded
<1>3. CASE RopeQ
  <2> DEFINE d == HeadDim(arch)
  <2>1. /\ Regular(arch) /\ Attending /\ head \in 0 .. arch.heads - 1
        /\ TurnedOnce(qvec, arch.hidden, head * d)
        /\ TurnedOnce(kvec, Stride(arch), 0)
    BY <1>3 DEF RopeQ, IInv, Loaded, Turning
  <2>2. arch.heads \in Nat /\ arch.kv \in Nat /\ arch.kv > 0
        /\ arch.hidden = arch.heads * d
    BY <2>1 DEF Regular
  <2>3. TurnedOnce(qvec', arch.hidden, (head + 1) * d)
    BY <1>3, <2>1, <2>2, TurnHead DEF RopeQ
  <2>4. arch' = arch /\ kvec' = kvec
    BY <1>3 DEF RopeQ
  <2>5. Attending'
    BY <1>3, <2>1, AttendingKept DEF RopeQ
  <2>6. CASE head + 1 = arch.heads
    <3>1. head' = 0 /\ phase' = "k"
      BY <1>3, <2>6 DEF RopeQ
    <3>2. TurnedOnce(qvec', arch.hidden, arch.hidden)
      BY <2>2, <2>3, <2>6
    <3>3. 0 \in 0 .. arch.kv - 1 /\ 0 * d = 0
      BY <2>1, <2>2, SMT DEF Regular
    <3>4. Turning'
      BY <2>1, <2>4, <3>1, <3>2, <3>3 DEF Turning
    <3> QED BY <2>1, <2>4, <2>5, <3>1, <3>4 DEF IInv, Loaded
  <2>7. CASE head + 1 # arch.heads
    <3>1. head' = head + 1 /\ phase' = "q"
      BY <1>3, <2>7 DEF RopeQ
    <3>2. head + 1 \in 0 .. arch.heads - 1
      BY <2>1, <2>2, <2>7, SMT
    <3>3. Turning'
      BY <2>1, <2>3, <2>4, <3>1, <3>2 DEF Turning
    <3> QED BY <2>1, <2>4, <2>5, <3>1, <3>3 DEF IInv, Loaded
  <2> QED BY <2>6, <2>7
<1>4. CASE RopeK
  <2> DEFINE d == HeadDim(arch)
  <2>1. /\ Regular(arch) /\ Attending /\ head \in 0 .. arch.kv - 1
        /\ TurnedOnce(qvec, arch.hidden, arch.hidden)
        /\ TurnedOnce(kvec, Stride(arch), head * d)
    BY <1>4 DEF RopeK, IInv, Loaded, Turning
  <2>2. arch.kv \in Nat /\ Stride(arch) = arch.kv * d
    BY <2>1 DEF Regular, Stride
  <2>3. TurnedOnce(kvec', Stride(arch), (head + 1) * d)
    BY <1>4, <2>1, <2>2, TurnHead DEF RopeK
  <2>4. arch' = arch /\ qvec' = qvec
    BY <1>4 DEF RopeK
  <2>5. Attending'
    BY <1>4, <2>1, AttendingKept DEF RopeK
  <2>6. CASE head + 1 = arch.kv
    <3>1. phase' = "attend"
      BY <1>4, <2>6 DEF RopeK
    <3>2. TurnedOnce(kvec', Stride(arch), Stride(arch))
      BY <2>2, <2>3, <2>6
    <3>3. Turning'
      BY <2>1, <2>4, <3>1, <3>2 DEF Turning
    <3> QED BY <2>1, <2>4, <2>5, <3>1, <3>3 DEF IInv, Loaded
  <2>7. CASE head + 1 # arch.kv
    <3>1. head' = head + 1 /\ phase' = "k"
      BY <1>4, <2>7 DEF RopeK
    <3>2. head + 1 \in 0 .. arch.kv - 1
      BY <2>1, <2>2, <2>7, SMT
    <3>3. Turning'
      BY <2>1, <2>3, <2>4, <3>1, <3>2 DEF Turning
    <3> QED BY <2>1, <2>4, <2>5, <3>1, <3>3 DEF IInv, Loaded
  <2> QED BY <2>6, <2>7
<1>5. CASE phase = "attend" /\ \E h \in 0 .. arch.heads - 1 : Attend(h)
  <2>1. PICK h \in 0 .. arch.heads - 1 : Attend(h)
    BY <1>5
  <2>2. Regular(arch) /\ Turning /\ Attending
    BY <1>5 DEF IInv, Loaded
  <2>3. Attending'
    BY <1>5, <2>1, <2>2, AttendHead
  <2>4. /\ arch' = arch /\ phase' = "attend" /\ qvec' = qvec /\ kvec' = kvec
    BY <1>5, <2>1 DEF Attend
  <2>5. Turning'
    BY <1>5, <2>2, <2>4 DEF Turning
  <2> QED BY <2>2, <2>3, <2>4, <2>5 DEF IInv, Loaded
<1>6. CASE UNCHANGED attnVars
  BY <1>6 DEF attnVars, IInv, Loaded, Turning, Attending, Part, KvHead
<1>7. (\E h \in (IF phase = "attend" THEN 0 .. arch.heads - 1 ELSE {}) : Attend(h))
      => phase = "attend" /\ \E h \in 0 .. arch.heads - 1 : Attend(h)
  OBVIOUS
<1> QED BY <1>1, <1>2, <1>3, <1>4, <1>5, <1>6, <1>7 DEF AttnNext

\* The heads take the vectors apart: no job writes what another writes or reads
\* past the keys, and together they leave nothing out, for every shape that load
\* accepts.
THEOREM HeadsAreApart == AttnSpec => []HeadsPartition
<1>1. IInv => HeadsPartition
  <2> SUFFICES ASSUME IInv, phase \notin {"new", "refused"}
               PROVE  HeadsPartition
    BY DEF HeadsPartition
  <2>1. Loaded /\ Regular(arch) /\ Turning /\ Attending
    BY DEF IInv
  <2>2. /\ DOMAIN qvec = 0 .. arch.hidden - 1
        /\ DOMAIN attn = 0 .. arch.hidden - 1
        /\ DOMAIN kvec = 0 .. Stride(arch) - 1
        /\ \A e \in DOMAIN qvec : qvec[e] \in 0 .. 1 /\ attn[e] \in 0 .. 1
        /\ \A e \in DOMAIN kvec : kvec[e] \in 0 .. 1
    BY <2>1 DEF Loaded, Turning, TurnedOnce, Attending
  <2>3. /\ \A e \in DOMAIN qvec : qvec[e] <= 1 /\ attn[e] <= 1
        /\ \A e \in DOMAIN kvec : kvec[e] <= 1
    BY <2>2, SMT
  <2>4. arch.heads \in Nat /\ arch.kv \in Nat
        /\ arch.hidden = arch.heads * HeadDim(arch)
        /\ Stride(arch) = arch.kv * HeadDim(arch)
    BY <2>1 DEF Regular, Stride
  <2>5. seen \subseteq DOMAIN kvec
    <3> SUFFICES ASSUME NEW h \in attended
                 PROVE  Part(KvHead(h)) \subseteq 0 .. Stride(arch) - 1
      BY <2>1, <2>2 DEF Attending
    <3>1. KvHead(h) \in 0 .. arch.kv - 1
      BY <2>1, KvHeadInside DEF Attending
    <3> QED BY <3>1, <2>1, <2>4, PartInside
  <2>6. ASSUME attended = 0 .. arch.heads - 1
        PROVE  seen = DOMAIN kvec /\ \A e \in DOMAIN attn : attn[e] = 1
    <3>1. ASSUME NEW e \in DOMAIN kvec PROVE e \in seen
      <4>1. PICK x \in 0 .. arch.kv - 1 : e \in Part(x)
        BY <2>1, <2>2, <2>4, PartOf
      <4>2. PICK h \in 0 .. arch.heads - 1 : KvHead(h) = x
        BY <2>1, KvHeadOnto
      <4> QED BY <4>1, <4>2, <2>1, <2>6 DEF Attending
    <3>2. ASSUME NEW e \in DOMAIN attn PROVE attn[e] = 1
      <4>1. \E h \in 0 .. arch.heads - 1 : e \in Part(h)
        BY <2>1, <2>2, <2>4, PartOf
      <4> QED BY <4>1, <2>1, <2>6 DEF Attending
    <3> QED BY <3>1, <3>2, <2>5
  <2> QED BY <2>2, <2>3, <2>5, <2>6 DEF HeadsPartition
<1> QED BY <1>1, Start, Step, PTL DEF AttnSpec
=============================================================================
