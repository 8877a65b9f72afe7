------------------------------- MODULE RowProofs -------------------------------
(***************************************************************************)
(* Proofs about the rows of the tensors: which bits of a quantized block   *)
(* its elements are made of, for all ten formats, every shape and every    *)
(* width of size_t; the sums over a row, for every length of the row, any  *)
(* size of the L1 cache and all the kernels; and half precision, for every *)
(* half and every float in its range.                                      *)
(***************************************************************************)
EXTENDS Dequant, DotKernels, Half, SequenceTheorems, TLAPS

-----------------------------------------------------------------------------
(* The blocks: the fields of a recipe as sets of bits *)

Bits == Nat \X (0 .. 7)

\* Read as a number, a field is an interval of the bits from its byte on.
Spans(f, byte, lo, bits) ==
    /\ f \in Seq(Bits)
    /\ SetOf(f) \subseteq Bits
    /\ \A y \in Nat, x \in 0 .. 7 :
          <<y, x>> \in SetOf(f) <=> 8 * (y - byte) + x \in lo .. lo + bits - 1

\* A field starts at its lowest bit and has as many as it is wide.
LEMMA FieldSpans ==
    ASSUME NEW byte \in Nat, NEW lo \in Nat, NEW bits \in Nat
    PROVE  Spans(Field(byte, lo, bits), byte, lo, bits)
<1> DEFINE f == Field(byte, lo, bits)
           at(k) == <<byte + (lo + k - 1) \div 8, (lo + k - 1) % 8>>
<1>1. \A k \in 1 .. bits : /\ byte + (lo + k - 1) \div 8 \in Nat
                           /\ (lo + k - 1) % 8 \in 0 .. 7
  OBVIOUS
<1>2. f \in [1 .. bits -> Bits] /\ DOMAIN f = 1 .. bits
      /\ \A k \in 1 .. bits : f[k] = at(k)
  BY <1>1 DEF Field, Bits
<1>3. f \in Seq(Bits)
  BY <1>2, SeqDef
<1>4. SetOf(f) \subseteq Bits
  BY <1>2 DEF SetOf
<1>5. ASSUME NEW y \in Nat, NEW x \in 0 .. 7, <<y, x>> \in SetOf(f)
      PROVE  8 * (y - byte) + x \in lo .. lo + bits - 1
  <2>1. PICK k \in 1 .. bits : <<y, x>> = at(k)
    BY <1>2, <1>5 DEF SetOf
  <2>2. y = byte + (lo + k - 1) \div 8 /\ x = (lo + k - 1) % 8
    BY <2>1
  <2>3. 8 * ((lo + k - 1) \div 8) + ((lo + k - 1) % 8) = lo + k - 1
    OBVIOUS
  <2> QED BY <2>2, <2>3
<1>6. ASSUME NEW y \in Nat, NEW x \in 0 .. 7,
             8 * (y - byte) + x \in lo .. lo + bits - 1
      PROVE  <<y, x>> \in SetOf(f)
  <2> DEFINE k == 8 * (y - byte) + x - lo + 1
  <2>1. k \in 1 .. bits /\ lo + k - 1 = 8 * (y - byte) + x
    BY <1>6
  <2>2. byte + (lo + k - 1) \div 8 = y /\ (lo + k - 1) % 8 = x
    BY <2>1
  <2>3. f[k] = <<y, x>>
    BY <1>2, <2>1, <2>2
  <2> QED BY <1>2, <2>1, <2>3 DEF SetOf
<1> QED BY <1>3, <1>4, <1>5, <1>6 DEF Spans

LEMMA NoBits == No \in Seq(Bits) /\ SetOf(No) = {}
  BY DEF No, SetOf

\* Of two fields in a row the bits are those of both.
LEMMA BothFields ==
    ASSUME NEW f \in Seq(Bits), NEW g \in Seq(Bits)
    PROVE  f \o g \in Seq(Bits) /\ SetOf(f \o g) = SetOf(f) \cup SetOf(g)
<1>1. f \o g \in Seq(Bits) /\ Range(f \o g) = Range(f) \cup Range(g)
  BY RangeConcatenation
<1> QED BY <1>1 DEF SetOf, Range

-----------------------------------------------------------------------------
\* The bytes of a block with the quants.
QuantBytes == [Q4_0 |-> 2 .. 17, Q4_1 |-> 4 .. 19, Q5_0 |-> 2 .. 21,
               Q5_1 |-> 4 .. 23, Q8_0 |-> 2 .. 33, Q2_K |-> 16 .. 79,
               Q3_K |-> 0 .. 95]

\* The element that a bit of them belongs to.
Owner(t, y, x) ==
    CASE t = "Q8_0" -> y - 2
      [] t = "Q4_0" -> 2 * (y - 2) + x \div 4
      [] t = "Q4_1" -> 2 * (y - 4) + x \div 4
      [] t = "Q5_0" -> IF y < 6 THEN 8 * (y - 2) + x ELSE 2 * (y - 6) + x \div 4
      [] t = "Q5_1" -> IF y < 8 THEN 8 * (y - 4) + x ELSE 2 * (y - 8) + x \div 4
      [] t = "Q2_K" -> 128 * ((y - 16) \div 32) + 32 * (x \div 2) + ((y - 16) % 32)
      [] t = "Q3_K" -> IF y < 32 THEN 128 * (x \div 4) + 32 * (x % 4) + y
                       ELSE 128 * (y \div 32 - 1) + 32 * (x \div 2) + (y % 32)

Owns(q, t, p) ==
    /\ SetOf(q) \subseteq Bits
    /\ \A y \in Nat, x \in 0 .. 7 :
          <<y, x>> \in SetOf(q) <=> y \in QuantBytes[t] /\ Owner(t, y, x) = p

\* An element owns the bits of a field, or of two, that the table gives it.
LEMMA OwnsField ==
    ASSUME NEW f, NEW byte, NEW lo, NEW bits, NEW t, NEW p,
           Spans(f, byte, lo, bits),
           \A y \in Nat, x \in 0 .. 7 :
              8 * (y - byte) + x \in lo .. lo + bits - 1
                <=> y \in QuantBytes[t] /\ Owner(t, y, x) = p
    PROVE  Owns(f, t, p)
  BY DEF Spans, Owns

LEMMA OwnsBoth ==
    ASSUME NEW f, NEW byte, NEW lo, NEW bits, NEW t, NEW p,
           NEW g, NEW byte2, NEW lo2, NEW bits2,
           Spans(f, byte, lo, bits), Spans(g, byte2, lo2, bits2),
           \A y \in Nat, x \in 0 .. 7 :
              \/ 8 * (y - byte) + x \in lo .. lo + bits - 1
              \/ 8 * (y - byte2) + x \in lo2 .. lo2 + bits2 - 1
              <=> y \in QuantBytes[t] /\ Owner(t, y, x) = p
    PROVE  Owns(f \o g, t, p)
<1>1. f \in Seq(Bits) /\ g \in Seq(Bits)
  BY DEF Spans
<1>2. SetOf(f \o g) = SetOf(f) \cup SetOf(g)
  BY <1>1, BothFields
<1>3. SetOf(f \o g) \subseteq Bits
  BY <1>2 DEF Spans
<1>4. ASSUME NEW y \in Nat, NEW x \in 0 .. 7
      PROVE  <<y, x>> \in SetOf(f \o g)
                <=> y \in QuantBytes[t] /\ Owner(t, y, x) = p
  <2>1. <<y, x>> \in SetOf(f) <=> 8 * (y - byte) + x \in lo .. lo + bits - 1
    BY DEF Spans
  <2>2. <<y, x>> \in SetOf(g) <=> 8 * (y - byte2) + x \in lo2 .. lo2 + bits2 - 1
    BY DEF Spans
  <2> QED BY <1>2, <2>1, <2>2
<1> QED BY <1>3, <1>4 DEF Owns

LEMMA NibbleSpans ==
    ASSUME NEW byte \in Nat, NEW k \in Nat
    PROVE  Spans(Nibble(byte, Odd(k)), byte, 4 * (k % 2), 4)
<1>1. CASE Odd(k)
  <2>1. Nibble(byte, Odd(k)) = Field(byte, 4, 4) /\ 4 * (k % 2) = 4
    BY <1>1 DEF Nibble, Odd
  <2> QED BY <2>1, FieldSpans
<1>2. CASE ~Odd(k)
  <2>1. Nibble(byte, Odd(k)) = Field(byte, 0, 4) /\ 4 * (k % 2) = 0
    BY <1>2 DEF Nibble, Odd
  <2> QED BY <2>1, FieldSpans
<1> QED BY <1>1, <1>2

\* In the small formats every quant bit has one owner ...
LEMMA SmallOwns ==
    ASSUME NEW t \in Small, NEW p \in 0 .. 31
    PROVE  Owns(SmallRecipe(t, p).quant, t, p)
<1> DEFINE half == p \div 2
           low == 4 * (p % 2)
<1>1. /\ half \in 0 .. 15 /\ low \in {0, 4} /\ HighNibble(p) = Odd(p)
      /\ p = 2 * half + low \div 4
  BY DEF HighNibble
<1>n. ASSUME NEW byte \in Nat
      PROVE  Spans(Nibble(byte, Odd(p)), byte, low, 4)
  BY NibbleSpans
<1>h. half = p \div 2
  OBVIOUS
<1> HIDE DEF half, low
<1>2. CASE t = "Q8_0"
  <2>1. SmallRecipe(t, p).quant = Field(2 + p, 0, 8)
    BY <1>2 DEF SmallRecipe, Recipe
  <2>2. QuantBytes[t] = 2 .. 33 /\ \A y, x : Owner(t, y, x) = y - 2
    BY <1>2 DEF QuantBytes, Owner
  <2> DEFINE byte == 2 + p
  <2>b. byte \in Nat /\ byte - 2 = p /\ byte \in 2 .. 33
    OBVIOUS
  <2> HIDE DEF byte
  <2>3. \A y \in Nat, x \in 0 .. 7 : 8 * (y - byte) + x \in 0 .. 0 + 8 - 1
          <=> y \in QuantBytes[t] /\ Owner(t, y, x) = p
    <3> TAKE y \in Nat, x \in 0 .. 7
    <3>1. 8 * (y - byte) + x \in 0 .. 0 + 8 - 1 <=> y = byte
      BY <2>b
    <3>2. Owner(t, y, x) = p <=> y = byte
      BY <2>b, <2>2
    <3> QED BY <2>b, <2>2, <3>1, <3>2
  <2>4. Spans(Field(byte, 0, 8), byte, 0, 8)
    BY <2>b, FieldSpans
  <2>5. Owns(Field(byte, 0, 8), t, p)
    BY <2>3, <2>4, OwnsField
  <2> QED BY <2>1, <2>5 DEF byte
<1>3. CASE t = "Q4_0"
  <2>1. SmallRecipe(t, p).quant = Nibble(2 + half, Odd(p))
    BY <1>1, <1>h, <1>3 DEF SmallRecipe, Recipe
  <2>2. QuantBytes[t] = 2 .. 17
        /\ \A y, x : Owner(t, y, x) = 2 * (y - 2) + x \div 4
    BY <1>3 DEF QuantBytes, Owner
  <2>3. \A y \in Nat, x \in 0 .. 7 :
          8 * (y - (2 + half)) + x \in low .. low + 4 - 1
          <=> y \in QuantBytes[t] /\ Owner(t, y, x) = p
    BY <1>1, <2>2
  <2>4. Spans(Nibble(2 + half, Odd(p)), 2 + half, low, 4)
    BY <1>1, <1>n
  <2>5. Owns(Nibble(2 + half, Odd(p)), t, p)
    BY <2>3, <2>4, OwnsField
  <2> QED BY <2>1, <2>5
<1>4. CASE t = "Q4_1"
  <2>1. SmallRecipe(t, p).quant = Nibble(4 + half, Odd(p))
    BY <1>1, <1>h, <1>4 DEF SmallRecipe, Recipe
  <2>2. QuantBytes[t] = 4 .. 19
        /\ \A y, x : Owner(t, y, x) = 2 * (y - 4) + x \div 4
    BY <1>4 DEF QuantBytes, Owner
  <2>3. \A y \in Nat, x \in 0 .. 7 :
          8 * (y - (4 + half)) + x \in low .. low + 4 - 1
          <=> y \in QuantBytes[t] /\ Owner(t, y, x) = p
    BY <1>1, <2>2
  <2>4. Spans(Nibble(4 + half, Odd(p)), 4 + half, low, 4)
    BY <1>1, <1>n
  <2>5. Owns(Nibble(4 + half, Odd(p)), t, p)
    BY <2>3, <2>4, OwnsField
  <2> QED BY <2>1, <2>5
<1>5. CASE t = "Q5_0"
  <2>1. SmallRecipe(t, p).quant = Nibble(6 + half, Odd(p)) \o Field(2, p, 1)
    BY <1>1, <1>h, <1>5 DEF SmallRecipe, Recipe
  <2>2. QuantBytes[t] = 2 .. 21
        /\ \A y, x : Owner(t, y, x) =
              IF y < 6 THEN 8 * (y - 2) + x ELSE 2 * (y - 6) + x \div 4
    BY <1>5 DEF QuantBytes, Owner
  <2>3. \A y \in Nat, x \in 0 .. 7 :
          \/ 8 * (y - (6 + half)) + x \in low .. low + 4 - 1
          \/ 8 * (y - 2) + x \in p .. p + 1 - 1
          <=> y \in QuantBytes[t] /\ Owner(t, y, x) = p
    <3> TAKE y \in Nat, x \in 0 .. 7
    <3>1. CASE y < 6
      <4>1. Owner(t, y, x) = 8 * (y - 2) + x
        BY <2>2, <3>1
      <4>2. ~(8 * (y - (6 + half)) + x \in low .. low + 4 - 1)
        BY <1>1, <3>1
      <4>3. 8 * (y - 2) + x \in p .. p + 1 - 1 <=> Owner(t, y, x) = p
        BY <4>1
      <4>4. Owner(t, y, x) = p => y \in QuantBytes[t]
        BY <2>2, <3>1, <4>1
      <4> QED BY <4>2, <4>3, <4>4
    <3>2. CASE y >= 6
      <4>1. Owner(t, y, x) = 2 * (y - 6) + x \div 4
        BY <2>2, <3>2
      <4>2. 8 * (y - (6 + half)) + x \in low .. low + 4 - 1
              <=> y - 6 = half /\ x \div 4 = low \div 4
        BY <1>1
      <4>3. ~(8 * (y - 2) + x \in p .. p + 1 - 1)
        BY <1>1, <3>2
      <4>4. 2 * (y - 6) + x \div 4 = p
              <=> y - 6 = half /\ x \div 4 = low \div 4
        BY <1>1, <3>2
      <4> QED BY <1>1, <2>2, <3>2, <4>1, <4>2, <4>3, <4>4
    <3> QED BY <3>1, <3>2
  <2>4. /\ Spans(Nibble(6 + half, Odd(p)), 6 + half, low, 4)
        /\ Spans(Field(2, p, 1), 2, p, 1)
    BY <1>1, <1>n, FieldSpans
  <2>5. Owns(Nibble(6 + half, Odd(p)) \o Field(2, p, 1), t, p)
    BY <2>3, <2>4, OwnsBoth
  <2> QED BY <2>1, <2>5
<1>6. CASE t = "Q5_1"
  <2>1. SmallRecipe(t, p).quant = Nibble(8 + half, Odd(p)) \o Field(4, p, 1)
    BY <1>1, <1>h, <1>6 DEF SmallRecipe, Recipe
  <2>2. QuantBytes[t] = 4 .. 23
        /\ \A y, x : Owner(t, y, x) =
              IF y < 8 THEN 8 * (y - 4) + x ELSE 2 * (y - 8) + x \div 4
    BY <1>6 DEF QuantBytes, Owner
  <2>3. \A y \in Nat, x \in 0 .. 7 :
          \/ 8 * (y - (8 + half)) + x \in low .. low + 4 - 1
          \/ 8 * (y - 4) + x \in p .. p + 1 - 1
          <=> y \in QuantBytes[t] /\ Owner(t, y, x) = p
    <3> TAKE y \in Nat, x \in 0 .. 7
    <3>1. CASE y < 8
      <4>1. Owner(t, y, x) = 8 * (y - 4) + x
        BY <2>2, <3>1
      <4>2. ~(8 * (y - (8 + half)) + x \in low .. low + 4 - 1)
        BY <1>1, <3>1
      <4>3. 8 * (y - 4) + x \in p .. p + 1 - 1 <=> Owner(t, y, x) = p
        BY <4>1
      <4>4. Owner(t, y, x) = p => y \in QuantBytes[t]
        BY <2>2, <3>1, <4>1
      <4> QED BY <4>2, <4>3, <4>4
    <3>2. CASE y >= 8
      <4>1. Owner(t, y, x) = 2 * (y - 8) + x \div 4
        BY <2>2, <3>2
      <4>2. 8 * (y - (8 + half)) + x \in low .. low + 4 - 1
              <=> y - 8 = half /\ x \div 4 = low \div 4
        BY <1>1
      <4>3. ~(8 * (y - 4) + x \in p .. p + 1 - 1)
        BY <1>1, <3>2
      <4>4. 2 * (y - 8) + x \div 4 = p
              <=> y - 8 = half /\ x \div 4 = low \div 4
        BY <1>1, <3>2
      <4> QED BY <1>1, <2>2, <3>2, <4>1, <4>2, <4>3, <4>4
    <3> QED BY <3>1, <3>2
  <2>4. /\ Spans(Nibble(8 + half, Odd(p)), 8 + half, low, 4)
        /\ Spans(Field(4, p, 1), 4, p, 1)
    BY <1>1, <1>n, FieldSpans
  <2>5. Owns(Nibble(8 + half, Odd(p)) \o Field(4, p, 1), t, p)
    BY <2>3, <2>4, OwnsBoth
  <2> QED BY <2>1, <2>5
<1> QED BY <1>2, <1>3, <1>4, <1>5, <1>6 DEF Small

\* ... and in the two consistent ones of the large.
LEMMA LargeOwns ==
    ASSUME NEW t \in {"Q2_K", "Q3_K"}, NEW p \in 0 .. 255
    PROVE  Owns(KRecipe(t, p).quant, t, p)
<1> DEFINE h == p \div 128
           l == p % 32
           j == (p % 128) \div 32
<1>1. h \in 0 .. 1 /\ l \in 0 .. 31 /\ j \in 0 .. 3 /\ p = 128 * h + 32 * j + l
  OBVIOUS
<1> HIDE DEF h, l, j
<1>2. CASE t = "Q2_K"
  <2>1. KRecipe(t, p).quant = Field(16 + 32 * h + l, 2 * j, 2)
    BY <1>2 DEF KRecipe, Recipe, h, l, j
  <2>2. QuantBytes[t] = 16 .. 79
        /\ \A y, x : Owner(t, y, x) =
              128 * ((y - 16) \div 32) + 32 * (x \div 2) + ((y - 16) % 32)
    BY <1>2 DEF QuantBytes, Owner
  <2>3. \A y \in Nat, x \in 0 .. 7 :
          8 * (y - (16 + 32 * h + l)) + x \in 2 * j .. 2 * j + 2 - 1
          <=> y \in QuantBytes[t] /\ Owner(t, y, x) = p
    <3> TAKE y \in Nat, x \in 0 .. 7
    <3>1. 8 * (y - (16 + 32 * h + l)) + x \in 2 * j .. 2 * j + 2 - 1
            <=> y = 16 + 32 * h + l /\ x \div 2 = j
      BY <1>1
    <3>2. CASE y < 16
      BY <1>1, <2>2, <3>1, <3>2
    <3>3. CASE y >= 16
      <4>1. /\ y - 16 = 32 * ((y - 16) \div 32) + ((y - 16) % 32)
            /\ (y - 16) \div 32 \in Nat /\ (y - 16) % 32 \in 0 .. 31
            /\ x \div 2 \in 0 .. 3
        BY <3>3
      <4>2. y = 16 + 32 * h + l <=> (y - 16) \div 32 = h /\ (y - 16) % 32 = l
        BY <1>1, <4>1
      <4>3. 128 * ((y - 16) \div 32) + 32 * (x \div 2) + ((y - 16) % 32) = p
              <=> (y - 16) \div 32 = h /\ x \div 2 = j /\ (y - 16) % 32 = l
        BY <1>1, <4>1
      <4>4. (y - 16) \div 32 = h => y \in 16 .. 79
        BY <1>1, <3>3, <4>1
      <4> QED BY <2>2, <3>1, <4>2, <4>3, <4>4
    <3> QED BY <3>2, <3>3
  <2>4. Spans(Field(16 + 32 * h + l, 2 * j, 2), 16 + 32 * h + l, 2 * j, 2)
    BY <1>1, FieldSpans
  <2>5. Owns(Field(16 + 32 * h + l, 2 * j, 2), t, p)
    BY <2>3, <2>4, OwnsField
  <2> QED BY <2>1, <2>5
<1>3. CASE t = "Q3_K"
  <2>1. KRecipe(t, p).quant =
          Field(32 + 32 * h + l, 2 * j, 2) \o Field(l, 4 * h + j, 1)
    BY <1>3 DEF KRecipe, Recipe, h, l, j
  <2>2. QuantBytes[t] = 0 .. 95
        /\ \A y, x : Owner(t, y, x) =
              IF y < 32 THEN 128 * (x \div 4) + 32 * (x % 4) + y
              ELSE 128 * (y \div 32 - 1) + 32 * (x \div 2) + (y % 32)
    BY <1>3 DEF QuantBytes, Owner
  <2>3. \A y \in Nat, x \in 0 .. 7 :
          \/ 8 * (y - (32 + 32 * h + l)) + x \in 2 * j .. 2 * j + 2 - 1
          \/ 8 * (y - l) + x \in 4 * h + j .. 4 * h + j + 1 - 1
          <=> y \in QuantBytes[t] /\ Owner(t, y, x) = p
    <3> SUFFICES ASSUME NEW y \in Nat, NEW x \in 0 .. 7
                 PROVE  \/ 8 * (y - (32 + 32 * h + l)) + x \in 2 * j .. 2 * j + 2 - 1
                        \/ 8 * (y - l) + x \in 4 * h + j .. 4 * h + j + 1 - 1
                        <=> y \in QuantBytes[t] /\ Owner(t, y, x) = p
      OBVIOUS
    <3>1. CASE y < 32
      <4>1. Owner(t, y, x) = 128 * (x \div 4) + 32 * (x % 4) + y
        BY <2>2, <3>1
      <4>2. /\ x = 4 * (x \div 4) + (x % 4) /\ x \div 4 \in 0 .. 1
            /\ x % 4 \in 0 .. 3
        OBVIOUS
      <4>3. ~(8 * (y - (32 + 32 * h + l)) + x \in 2 * j .. 2 * j + 2 - 1)
        BY <1>1, <3>1
      <4>4. 8 * (y - l) + x \in 4 * h + j .. 4 * h + j + 1 - 1
              <=> y = l /\ x = 4 * h + j
        BY <1>1, <3>1
      <4>5. x = 4 * h + j <=> x \div 4 = h /\ x % 4 = j
        BY <1>1, <4>2
      <4>6. 128 * (x \div 4) + 32 * (x % 4) + y = p
              <=> y = l /\ x \div 4 = h /\ x % 4 = j
        BY <1>1, <3>1, <4>2
      <4> QED BY <2>2, <3>1, <4>1, <4>3, <4>4, <4>5, <4>6
    <3>2. CASE y >= 32
      <4>1. Owner(t, y, x) = 128 * (y \div 32 - 1) + 32 * (x \div 2) + (y % 32)
        BY <2>2, <3>2
      <4>2. /\ y = 32 * (y \div 32) + (y % 32) /\ y \div 32 \in Nat \ {0}
            /\ y % 32 \in 0 .. 31 /\ x \div 2 \in 0 .. 3
        BY <3>2
      <4>3. ~(8 * (y - l) + x \in 4 * h + j .. 4 * h + j + 1 - 1)
        BY <1>1, <3>2
      <4>4. 8 * (y - (32 + 32 * h + l)) + x \in 2 * j .. 2 * j + 2 - 1
              <=> y = 32 + 32 * h + l /\ x \div 2 = j
        BY <1>1, <3>2
      <4>5. y = 32 + 32 * h + l <=> y \div 32 - 1 = h /\ y % 32 = l
        BY <1>1, <4>2
      <4>6. 128 * (y \div 32 - 1) + 32 * (x \div 2) + (y % 32) = p
              <=> y \div 32 - 1 = h /\ x \div 2 = j /\ y % 32 = l
        BY <1>1, <4>2
      <4>7. y \div 32 - 1 = h => y \in 0 .. 95
        BY <1>1, <4>2
      <4> QED BY <2>2, <4>1, <4>3, <4>4, <4>5, <4>6, <4>7
    <3> QED BY <3>1, <3>2
  <2>4. /\ Spans(Field(32 + 32 * h + l, 2 * j, 2), 32 + 32 * h + l, 2 * j, 2)
        /\ Spans(Field(l, 4 * h + j, 1), l, 4 * h + j, 1)
    BY <1>1, FieldSpans
  <2>5. Owns(Field(32 + 32 * h + l, 2 * j, 2) \o Field(l, 4 * h + j, 1), t, p)
    BY <2>3, <2>4, OwnsBoth
  <2> QED BY <2>1, <2>5
<1> QED BY <1>2, <1>3

-----------------------------------------------------------------------------
\* A field lies in the first bytes of a block.
FitsIn(f, size) == /\ f \in Seq(Bits)
                   /\ \A b \in SetOf(f) : b \in Bits /\ b[1] < size

LEMMA FieldFits ==
    ASSUME NEW byte \in Nat, NEW lo \in Nat, NEW bits \in Nat, NEW size \in Nat,
           8 * byte + lo + bits <= 8 * size
    PROVE  FitsIn(Field(byte, lo, bits), size)
<1>1. Spans(Field(byte, lo, bits), byte, lo, bits)
  BY FieldSpans
<1>2. ASSUME NEW b \in SetOf(Field(byte, lo, bits))
      PROVE  b \in Bits /\ b[1] < size
  <2>1. b \in Bits
    BY <1>1 DEF Spans
  <2>2. PICK y \in Nat, x \in 0 .. 7 : b = <<y, x>>
    BY <2>1 DEF Bits
  <2>3. 8 * (y - byte) + x \in lo .. lo + bits - 1
    BY <1>1, <2>2 DEF Spans
  <2>4. y < size
    BY <2>3
  <2> QED BY <2>1, <2>2, <2>4
<1> QED BY <1>1, <1>2 DEF FitsIn, Spans

LEMMA BothFit ==
    ASSUME NEW f, NEW g, NEW size, FitsIn(f, size), FitsIn(g, size)
    PROVE  FitsIn(f \o g, size)
<1>1. f \in Seq(Bits) /\ g \in Seq(Bits)
  BY DEF FitsIn
<1>2. f \o g \in Seq(Bits) /\ SetOf(f \o g) = SetOf(f) \cup SetOf(g)
  BY <1>1, BothFields
<1> QED BY <1>2 DEF FitsIn

LEMMA NibbleFits ==
    ASSUME NEW byte \in Nat, NEW high \in BOOLEAN, NEW size \in Nat, byte < size
    PROVE  FitsIn(Nibble(byte, high), size)
<1>1. FitsIn(Field(byte, 0, 4), size) /\ FitsIn(Field(byte, 4, 4), size)
  BY FieldFits
<1> QED BY <1>1 DEF Nibble

LEMMA NoFits == ASSUME NEW size PROVE FitsIn(No, size)
  BY NoBits DEF FitsIn

LEMMA F16Fits == ASSUME NEW byte \in Nat, NEW size \in Nat, byte + 2 <= size
                 PROVE  FitsIn(F16At(byte), size)
  BY FieldFits DEF F16At

\* An element is made of bits of its block.
InBlock(r, t) == /\ FitsIn(r.quant, BlockSize[t])
                 /\ FitsIn(r.scale, BlockSize[t]) /\ FitsIn(r.min, BlockSize[t])
                 /\ FitsIn(r.d, BlockSize[t]) /\ FitsIn(r.m, BlockSize[t])

LEMMA RecipeInBlock ==
    ASSUME NEW t, NEW quant, NEW bias, NEW scale, NEW min, NEW d, NEW m,
           FitsIn(quant, BlockSize[t]), FitsIn(scale, BlockSize[t]),
           FitsIn(min, BlockSize[t]), FitsIn(d, BlockSize[t]), FitsIn(m, BlockSize[t])
    PROVE  InBlock(Recipe(quant, bias, scale, min, d, m), t)
  BY DEF InBlock, Recipe

LEMMA ScalesFit ==
    ASSUME NEW s \in 0 .. 7, NEW size \in Nat, 16 <= size
    PROVE  /\ FitsIn(Sm4Scale(s), size) /\ FitsIn(Sm4Min(s), size)
           /\ FitsIn(IF s < 4 THEN Field(8 + s, 0, 6)
                    ELSE Field(8 + s, 4, 4) \o Field(s, 6, 2), size)
<1>1. CASE s < 4
  <2>1. FitsIn(Field(4 + s, 0, 6), size) /\ FitsIn(Field(8 + s, 0, 6), size)
    BY FieldFits, <1>1
  <2> QED BY <1>1, <2>1 DEF Sm4Scale, Sm4Min
<1>2. CASE ~(s < 4)
  <2>1. /\ FitsIn(Field(8 + s, 0, 4), size) /\ FitsIn(Field(s, 6, 2), size)
        /\ FitsIn(Field(8 + s, 4, 4), size) /\ FitsIn(Field(4 + s, 6, 2), size)
    BY FieldFits
  <2>2. /\ FitsIn(Field(8 + s, 0, 4) \o Field(s, 6, 2), size)
        /\ FitsIn(Field(8 + s, 4, 4) \o Field(4 + s, 6, 2), size)
        /\ FitsIn(Field(8 + s, 4, 4) \o Field(s, 6, 2), size)
    BY <2>1, BothFit
  <2> QED BY <1>2, <2>2 DEF Sm4Scale, Sm4Min
<1> QED BY <1>1, <1>2

LEMMA Q3ScaleFits ==
    ASSUME NEW is \in 0 .. 15, NEW size \in Nat, 108 <= size
    PROVE  FitsIn(Q3Scale(is), size)
<1>1. CASE is < 4
  <2>1. /\ FitsIn(Field(96 + is, 0, 4), size)
        /\ FitsIn(Field(104 + is, 0, 2), size)
    BY <1>1, FieldFits
  <2> QED BY <1>1, <2>1, BothFit DEF Q3Scale
<1>2. CASE is >= 4 /\ is < 8
  <2>1. /\ FitsIn(Field(96 + is, 0, 4), size)
        /\ FitsIn(Field(100 + is, 2, 2), size)
    BY <1>2, FieldFits
  <2> QED BY <1>2, <2>1, BothFit DEF Q3Scale
<1>3. CASE is >= 8 /\ is < 12
  <2>1. FitsIn(Field(88 + is, 4, 4), size) /\ FitsIn(Field(96 + is, 4, 2), size)
    BY <1>3, FieldFits
  <2> QED BY <1>3, <2>1, BothFit DEF Q3Scale
<1>4. CASE is >= 12
  <2>1. FitsIn(Field(88 + is, 4, 4), size) /\ FitsIn(Field(92 + is, 6, 2), size)
    BY <1>4, FieldFits
  <2> QED BY <1>4, <2>1, BothFit DEF Q3Scale
<1> QED BY <1>1, <1>2, <1>3, <1>4

\* quant_v2::value reads in its block.
LEMMA SmallInBlock ==
    ASSUME NEW t \in Small, NEW p \in 0 .. 31
    PROVE  InBlock(SmallRecipe(t, p), t)
<1> DEFINE half == p \div 2
<1>1. half \in 0 .. 15 /\ HighNibble(p) \in BOOLEAN
  BY DEF HighNibble, Odd
<1>h. half = p \div 2
  OBVIOUS
<1> HIDE DEF half
<1>2. CASE t = "Q8_0"
  <2>1. BlockSize[t] = 34
    BY <1>2 DEF BlockSize
  <2>2. FitsIn(Field(2 + p, 0, 8), 34) /\ FitsIn(F16At(0), 34) /\ FitsIn(No, 34)
    BY FieldFits, F16Fits, NoFits
  <2>3. SmallRecipe(t, p) = Recipe(Field(2 + p, 0, 8), 0, No, No, F16At(0), No)
    BY <1>2 DEF SmallRecipe
  <2> QED BY <2>1, <2>2, <2>3, RecipeInBlock
<1>3. CASE t = "Q4_0"
  <2>1. BlockSize[t] = 18
    BY <1>3 DEF BlockSize
  <2>2. /\ FitsIn(Nibble(2 + half, HighNibble(p)), 18)
        /\ FitsIn(F16At(0), 18) /\ FitsIn(No, 18)
    BY <1>1, NibbleFits, F16Fits, NoFits
  <2>3. SmallRecipe(t, p) = Recipe(Nibble(2 + half, HighNibble(p)), 8, No, No,
                                   F16At(0), No)
    BY <1>h, <1>3 DEF SmallRecipe
  <2> QED BY <2>1, <2>2, <2>3, RecipeInBlock
<1>4. CASE t = "Q4_1"
  <2>1. BlockSize[t] = 20
    BY <1>4 DEF BlockSize
  <2>2. /\ FitsIn(Nibble(4 + half, HighNibble(p)), 20)
        /\ FitsIn(F16At(0), 20) /\ FitsIn(F16At(2), 20) /\ FitsIn(No, 20)
    BY <1>1, NibbleFits, F16Fits, NoFits
  <2>3. SmallRecipe(t, p) = Recipe(Nibble(4 + half, HighNibble(p)), 0, No, No,
                                   F16At(0), F16At(2))
    BY <1>h, <1>4 DEF SmallRecipe
  <2> QED BY <2>1, <2>2, <2>3, RecipeInBlock
<1>5. CASE t = "Q5_0"
  <2>1. BlockSize[t] = 22
    BY <1>5 DEF BlockSize
  <2>2. /\ /\ FitsIn(Nibble(6 + half, HighNibble(p)), 22)
        /\ FitsIn(Field(2, p, 1), 22)
        /\ FitsIn(F16At(0), 22) /\ FitsIn(No, 22)
    BY <1>1, NibbleFits, FieldFits, F16Fits, NoFits
  <2>3. FitsIn(Nibble(6 + half, HighNibble(p)) \o Field(2, p, 1), 22)
    BY <2>2, BothFit
  <2>4. SmallRecipe(t, p) =
          Recipe(Nibble(6 + half, HighNibble(p)) \o Field(2, p, 1),
                                   16, No, No, F16At(0), No)
    BY <1>h, <1>5 DEF SmallRecipe
  <2> QED BY <2>1, <2>2, <2>3, <2>4, RecipeInBlock
<1>6. CASE t = "Q5_1"
  <2>1. BlockSize[t] = 24
    BY <1>6 DEF BlockSize
  <2>2. /\ /\ FitsIn(Nibble(8 + half, HighNibble(p)), 24)
        /\ FitsIn(Field(4, p, 1), 24)
        /\ FitsIn(F16At(0), 24) /\ FitsIn(F16At(2), 24) /\ FitsIn(No, 24)
    BY <1>1, NibbleFits, FieldFits, F16Fits, NoFits
  <2>3. FitsIn(Nibble(8 + half, HighNibble(p)) \o Field(4, p, 1), 24)
    BY <2>2, BothFit
  <2>4. SmallRecipe(t, p) =
          Recipe(Nibble(8 + half, HighNibble(p)) \o Field(4, p, 1),
                                   0, No, No, F16At(0), F16At(2))
    BY <1>h, <1>6 DEF SmallRecipe
  <2> QED BY <2>1, <2>2, <2>3, <2>4, RecipeInBlock
<1> QED BY <1>2, <1>3, <1>4, <1>5, <1>6 DEF Small

\* So it does in the formats of 256 elements.
LEMMA LargeInBlock ==
    ASSUME NEW t \in KTypes, NEW p \in 0 .. 255
    PROVE  InBlock(KRecipe(t, p), t)
<1> DEFINE h == p \div 128
           l == p % 32
           j == (p % 128) \div 32
           g == p \div 64
           s == p \div 32
           up == (p % 64) \div 32 = 1
<1>1. /\ h \in 0 .. 1 /\ l \in 0 .. 31 /\ j \in 0 .. 3 /\ g \in 0 .. 3
      /\ s \in 0 .. 7 /\ up \in BOOLEAN /\ (j >= 2) \in BOOLEAN
      /\ l \div 16 \in 0 .. 1 /\ l \div 2 \in 0 .. 15
      /\ (j \div 2) \in 0 .. 1 /\ (j % 2) \in 0 .. 1
  OBVIOUS
<1> HIDE DEF h, l, j, g, s, up
<1>2. CASE t = "Q2_K"
  <2> DEFINE q == Field(16 + 32 * h + l, 2 * j, 2)
             at == Q2Scale(h, j, l)
  <2>1. BlockSize[t] = 84
    BY <1>2 DEF BlockSize
  <2>2. at \in 0 .. 15
    BY <1>1 DEF Q2Scale
  <2>3. FitsIn(q, 84)
    BY <1>1, FieldFits
  <2>4. KRecipe(t, p) =
          Recipe(q, 0, Field(at, 0, 4), Field(at, 4, 4), F16At(80),
                               F16At(82))
    BY <1>2 DEF KRecipe, h, l, j
  <2> HIDE DEF q, at
  <2>5. /\ FitsIn(Field(at, 0, 4), 84) /\ FitsIn(Field(at, 4, 4), 84)
        /\ FitsIn(F16At(80), 84) /\ FitsIn(F16At(82), 84)
    BY <2>2, FieldFits, F16Fits
  <2> QED BY <2>1, <2>3, <2>4, <2>5, RecipeInBlock
<1>3. CASE t = "Q3_K"
  <2> DEFINE q == Field(32 + 32 * h + l, 2 * j, 2)
             r == Field(l, 4 * h + j, 1)
             is == 8 * h + 2 * j + l \div 16
  <2>1. BlockSize[t] = 110
    BY <1>3 DEF BlockSize
  <2>2. is \in 0 .. 15
    BY <1>1
  <2>3. FitsIn(q, 110) /\ FitsIn(r, 110)
    BY <1>1, FieldFits
  <2>4. KRecipe(t, p) = Recipe(q \o r, 4, Q3Scale(is), No, F16At(108), No)
    BY <1>3 DEF KRecipe, h, l, j
  <2> HIDE DEF q, r, is
  <2>5. /\ FitsIn(q \o r, 110) /\ FitsIn(Q3Scale(is), 110)
        /\ FitsIn(F16At(108), 110) /\ FitsIn(No, 110)
    BY <2>2, <2>3, BothFit, Q3ScaleFits, F16Fits, NoFits
  <2> QED BY <2>1, <2>4, <2>5, RecipeInBlock
<1>4. CASE t = "Q4_K"
  <2>1. BlockSize[t] = 144
    BY <1>4 DEF BlockSize
  <2>2. /\ FitsIn(Nibble(16 + l, up), 144) /\ FitsIn(Sm4Scale(s), 144)
        /\ FitsIn(Sm4Min(s), 144) /\ FitsIn(F16At(0), 144)
        /\ FitsIn(F16At(2), 144)
    BY <1>1, NibbleFits, ScalesFit, F16Fits
  <2>3. KRecipe(t, p) = Recipe(Nibble(16 + l, up), 0, Sm4Scale(s), Sm4Min(s),
                               F16At(0), F16At(2))
    BY <1>4 DEF KRecipe, l, s, up
  <2> QED BY <2>1, <2>2, <2>3, RecipeInBlock
<1>5. CASE t = "Q5_K"
  <2> DEFINE q == Nibble(16 + 32 * g + l \div 2, up)
             r == Field(144 + l \div 2, s, 1)
  <2>1. BlockSize[t] = 176
    BY <1>5 DEF BlockSize
  <2>2. FitsIn(q, 176) /\ FitsIn(r, 176)
    BY <1>1, NibbleFits, FieldFits
  <2>3. KRecipe(t, p) =
          Recipe(q \o r, 0, Sm4Scale(s), Sm4Min(s), F16At(0), F16At(2))
    BY <1>5 DEF KRecipe, l, g, s, up
  <2> HIDE DEF q, r
  <2>4. /\ /\ FitsIn(q \o r, 176) /\ FitsIn(Sm4Scale(s), 176)
        /\ FitsIn(Sm4Min(s), 176)
        /\ FitsIn(F16At(0), 176) /\ FitsIn(F16At(2), 176)
    BY <1>1, <2>2, BothFit, ScalesFit, F16Fits
  <2> QED BY <2>1, <2>3, <2>4, RecipeInBlock
<1>6. CASE t = "Q6_K"
  <2> DEFINE q == Nibble(2 + 64 * h + (IF Odd(j) THEN 32 ELSE 0) + l, j >= 2)
             r == Field(130 + 32 * h + l, 2 * j, 2)
             c == Field(194 + 8 * h + (j \div 2) * 4 + 2 * (j % 2), 0, 8)
  <2>1. BlockSize[t] = 210
    BY <1>6 DEF BlockSize
  <2>2. FitsIn(q, 210)
    <3> DEFINE byte == 2 + 64 * h + (IF Odd(j) THEN 32 ELSE 0) + l
    <3>1. byte \in Nat /\ byte < 210
      BY <1>1
    <3> HIDE DEF byte
    <3>2. FitsIn(Nibble(byte, j >= 2), 210)
      BY <1>1, <3>1, NibbleFits
    <3> QED BY <3>2 DEF byte
  <2>3. FitsIn(r, 210)
    BY <1>1, FieldFits
  <2>4. FitsIn(c, 210)
    BY <1>1, FieldFits
  <2>5. KRecipe(t, p) = Recipe(q \o r, 32, c, No, F16At(208), No)
    BY <1>6 DEF KRecipe, h, l, j
  <2> HIDE DEF q, r, c
  <2>6. FitsIn(q \o r, 210) /\ FitsIn(F16At(208), 210) /\ FitsIn(No, 210)
    BY <2>2, <2>3, BothFit, F16Fits, NoFits
  <2> QED BY <2>1, <2>4, <2>5, <2>6, RecipeInBlock
<1> QED BY <1>2, <1>3, <1>4, <1>5, <1>6 DEF KTypes

\* The two decoders read the same elsewhere: in the formats of a small block
\* but Q4_0 word by word, in Q3_K after its scales are unpacked.
LEMMA SmallAgree ==
    ASSUME NEW t \in Small \ {"Q4_0"}, NEW p \in 0 .. 31
    PROVE  TensorValue(t, p) = SmallRecipe(t, p)
<1>1. HighNibble(p) = Odd(p)
  BY DEF HighNibble
<1> QED BY <1>1 DEF TensorValue, SmallRecipe, Small

LEMMA Q3Agree ==
    ASSUME NEW p \in 0 .. 255
    PROVE  TensorValue("Q3_K", p) = KRecipe("Q3_K", p)
<1> DEFINE h == p \div 128
           l == p % 32
           j == (p % 128) \div 32
           is == 8 * h + 2 * j + l \div 16
           w == is \div 4
           scale == Field(96 + 4 * (w % 2) + (is % 4), 4 * (w \div 2), 4)
                    \o Field(104 + (is % 4), 2 * w, 2)
<1>1. is \in 0 .. 15
  OBVIOUS
<1>2. TensorValue("Q3_K", p) =
        Recipe(Field(32 + 32 * h + l, 2 * j, 2) \o Field(l, 4 * h + j, 1), 4,
               scale, No, F16At(108), No)
  BY DEF TensorValue
<1>3. KRecipe("Q3_K", p) =
        Recipe(Field(32 + 32 * h + l, 2 * j, 2) \o Field(l, 4 * h + j, 1), 4,
               Q3Scale(is), No, F16At(108), No)
  BY DEF KRecipe
<1>w. w = is \div 4
  OBVIOUS
<1> HIDE DEF is, w
<1>4. scale = Q3Scale(is)
  <2>1. CASE is < 4
    <3>1. w = 0 /\ is % 4 = is
      BY <1>1, <1>w, <2>1
    <3>2. /\ 96 + 4 * (w % 2) + (is % 4) = 96 + is /\ 4 * (w \div 2) = 0
          /\ 104 + (is % 4) = 104 + is /\ 2 * w = 0
      BY <1>1, <3>1
    <3> QED BY <1>1, <2>1, <3>2 DEF Q3Scale
  <2>2. CASE is >= 4 /\ is < 8
    <3>1. w = 1 /\ is % 4 = is - 4
      BY <1>1, <1>w, <2>2
    <3>2. /\ 96 + 4 * (w % 2) + (is % 4) = 96 + is /\ 4 * (w \div 2) = 0
          /\ 104 + (is % 4) = 100 + is /\ 2 * w = 2
      BY <1>1, <3>1
    <3> QED BY <1>1, <2>2, <3>2 DEF Q3Scale
  <2>3. CASE is >= 8 /\ is < 12
    <3>1. w = 2 /\ is % 4 = is - 8
      BY <1>1, <1>w, <2>3
    <3>2. /\ 96 + 4 * (w % 2) + (is % 4) = 88 + is /\ 4 * (w \div 2) = 4
          /\ 104 + (is % 4) = 96 + is /\ 2 * w = 4
      BY <1>1, <3>1
    <3> QED BY <1>1, <2>3, <3>2 DEF Q3Scale
  <2>4. CASE is >= 12
    <3>1. w = 3 /\ is % 4 = is - 12
      BY <1>1, <1>w, <2>4
    <3>2. /\ 96 + 4 * (w % 2) + (is % 4) = 88 + is /\ 4 * (w \div 2) = 4
          /\ 104 + (is % 4) = 92 + is /\ 2 * w = 6
      BY <1>1, <3>1
    <3> QED BY <1>1, <2>4, <3>2 DEF Q3Scale
  <2> QED BY <1>1, <2>1, <2>2, <2>3, <2>4
<1> QED BY <1>2, <1>3, <1>4

\* GgufTensor::value reads in its block.
LEMMA TensorInBlock ==
    ASSUME NEW t \in Small \cup KTypes, NEW p \in 0 .. Span(t) - 1
    PROVE  InBlock(TensorValue(t, p), t)
<1> DEFINE half == p \div 2
           h == p \div 128
           l == p % 32
           j == (p % 128) \div 32
           s == p \div 32
           up == (p % 64) \div 32 = 1
           min == IF s < 4 THEN Field(8 + s, 0, 6)
                  ELSE Field(8 + s, 4, 4) \o Field(s, 6, 2)
<1>0. p \in 0 .. 255 /\ (t \in Small => p \in 0 .. 31 /\ half \in 0 .. 15)
  BY DEF Span
<1>1. /\ h \in 0 .. 1 /\ l \in 0 .. 31 /\ j \in 0 .. 3 /\ s \in 0 .. 7
      /\ up \in BOOLEAN /\ Odd(j) \in BOOLEAN /\ Odd(p) \in BOOLEAN
      /\ l \div 16 \in 0 .. 1
  BY <1>0 DEF Odd
<1>h. half = p \div 2
  OBVIOUS
<1> HIDE DEF half, h, l, j, s, up
<1>2. CASE t \in Small \ {"Q4_0"}
  BY <1>0, <1>2, SmallAgree, SmallInBlock
<1>3. CASE t = "Q4_0"
  <2>1. BlockSize[t] = 18 /\ half \in 0 .. 15
    BY <1>0, <1>3 DEF BlockSize, Small
  <2>2. /\ FitsIn(Nibble(2 + half, Odd(p)), 18)
        /\ FitsIn(F16At(0), 18) /\ FitsIn(No, 18)
    BY <1>1, <2>1, NibbleFits, F16Fits, NoFits
  <2>3. TensorValue(t, p) = Recipe(Nibble(2 + half, Odd(p)),
                                   IF Odd(p) THEN 0 ELSE 8, No, No, F16At(0), No)
    BY <1>h, <1>3 DEF TensorValue
  <2> QED BY <2>1, <2>2, <2>3, RecipeInBlock
<1>4. CASE t = "Q2_K"
  <2> DEFINE q == Field(16 + 32 * h + l, 2 * j, 2)
             at == j + 8 * h
  <2>1. BlockSize[t] = 84
    BY <1>4 DEF BlockSize
  <2>2. at \in 0 .. 15
    BY <1>1
  <2>3. FitsIn(q, 84)
    BY <1>1, FieldFits
  <2>4. TensorValue(t, p) = Recipe(q, 0, Field(at, 0, 4), Field(at, 4, 4),
                                   F16At(80), F16At(82))
    BY <1>4 DEF TensorValue, h, l, j
  <2> HIDE DEF q, at
  <2>5. /\ FitsIn(Field(at, 0, 4), 84) /\ FitsIn(Field(at, 4, 4), 84)
        /\ FitsIn(F16At(80), 84) /\ FitsIn(F16At(82), 84)
    BY <2>2, FieldFits, F16Fits
  <2> QED BY <2>1, <2>3, <2>4, <2>5, RecipeInBlock
<1>5. CASE t = "Q3_K"
  <2>1. TensorValue(t, p) = KRecipe(t, p) /\ t \in KTypes
    BY <1>0, <1>5, Q3Agree DEF KTypes
  <2> QED BY <1>0, <2>1, LargeInBlock
<1>6. CASE t = "Q4_K"
  <2>1. BlockSize[t] = 144
    BY <1>6 DEF BlockSize
  <2>2. /\ FitsIn(Nibble(16 + l, up), 144) /\ FitsIn(Sm4Scale(s), 144)
        /\ FitsIn(min, 144) /\ FitsIn(F16At(0), 144) /\ FitsIn(F16At(2), 144)
    BY <1>1, NibbleFits, ScalesFit, F16Fits
  <2>3. TensorValue(t, p) = Recipe(Nibble(16 + l, up), 0, Sm4Scale(s), min,
                                   F16At(0), F16At(2))
    BY <1>6 DEF TensorValue, l, s, up
  <2> HIDE DEF min
  <2> QED BY <2>1, <2>2, <2>3, RecipeInBlock
<1>7. CASE t = "Q5_K"
  <2> DEFINE q == Nibble(16 + l, up)
             r == Field(48 + l, s, 1)
  <2>1. BlockSize[t] = 176
    BY <1>7 DEF BlockSize
  <2>2. FitsIn(q, 176) /\ FitsIn(r, 176)
    BY <1>1, NibbleFits, FieldFits
  <2>3. TensorValue(t, p) =
          Recipe(q \o r, 0, Sm4Scale(s), min, F16At(0), F16At(2))
    BY <1>7 DEF TensorValue, l, s, up
  <2>4. /\ FitsIn(Sm4Scale(s), 176) /\ FitsIn(min, 176)
        /\ FitsIn(F16At(0), 176) /\ FitsIn(F16At(2), 176)
    BY <1>1, ScalesFit, F16Fits
  <2> HIDE DEF q, r, min
  <2>5. FitsIn(q \o r, 176)
    BY <2>2, BothFit
  <2> QED BY <2>1, <2>3, <2>4, <2>5, RecipeInBlock
<1>8. CASE t = "Q6_K"
  <2> DEFINE byte == IF Odd(j) THEN 32 + l ELSE l
             q == Nibble(byte, Odd(j))
             r == Field(128 + l, 2 * j, 2)
             c == Field(192 + 8 * h + 2 * j + l \div 16, 0, 8)
  <2>1. BlockSize[t] = 210
    BY <1>8 DEF BlockSize
  <2>2. byte \in 0 .. 63
    BY <1>1
  <2>3. FitsIn(r, 210) /\ FitsIn(c, 210)
    BY <1>1, FieldFits
  <2>4. TensorValue(t, p) = Recipe(q \o r, 32, c, No, F16At(208), No)
    BY <1>8 DEF TensorValue, h, l, j
  <2> HIDE DEF byte
  <2>5. FitsIn(q, 210)
    BY <1>1, <2>2, NibbleFits
  <2> HIDE DEF q, r, c
  <2>6. FitsIn(q \o r, 210) /\ FitsIn(F16At(208), 210) /\ FitsIn(No, 210)
    BY <2>3, <2>5, BothFit, F16Fits, NoFits
  <2> QED BY <2>1, <2>3, <2>4, <2>6, RecipeInBlock
<1> QED BY <1>2, <1>3, <1>4, <1>5, <1>6, <1>7, <1>8 DEF KTypes

LEMMA DotInBlock ==
    ASSUME NEW t \in Small \cup KTypes, NEW p \in 0 .. Span(t) - 1
    PROVE  InBlock(DotValue(t, p), t)
<1>1. CASE t \in Small
  BY <1>1, SmallInBlock DEF DotValue, Span
<1>2. CASE t \notin Small
  BY <1>2, LargeInBlock DEF DotValue, Span
<1> QED BY <1>1, <1>2

-----------------------------------------------------------------------------
LEMMA F16Spans ==
    ASSUME NEW byte \in Nat
    PROVE  \A y \in Nat, x \in 0 .. 7 :
              <<y, x>> \in SetOf(F16At(byte)) <=> y = byte \/ y = byte + 1
<1>1. Spans(F16At(byte), byte, 0, 16)
  BY FieldSpans DEF F16At
<1> TAKE y \in Nat, x \in 0 .. 7
<1>2. <<y, x>> \in SetOf(F16At(byte)) <=> 8 * (y - byte) + x \in 0 .. 0 + 16 - 1
  BY <1>1 DEF Spans
<1> QED BY <1>2

\* The other bits of a small block are the halves d and m, in every element.
LEMMA SmallMetas ==
    ASSUME NEW t \in Small, NEW p, NEW y \in Nat, NEW x \in 0 .. 7
    PROVE  <<y, x>> \in MetaOf(SmallRecipe(t, p))
              <=> y \in (0 .. BlockSize[t] - 1) \ QuantBytes[t]
<1>0. <<y, x>> \in SetOf(F16At(0)) <=> y = 0 \/ y = 0 + 1
  BY F16Spans
<1>00. <<y, x>> \in SetOf(F16At(2)) <=> y = 2 \/ y = 2 + 1
  BY F16Spans
<1>1. /\ <<y, x>> \in SetOf(F16At(0)) <=> y \in {0, 1}
      /\ <<y, x>> \in SetOf(F16At(2)) <=> y \in {2, 3}
      /\ SetOf(No) = {}
  BY <1>0, <1>00, NoBits
<1>2. CASE t \in {"Q8_0", "Q4_0", "Q5_0"}
  <2>1. MetaOf(SmallRecipe(t, p)) = SetOf(F16At(0)) \cup SetOf(No)
    BY <1>2 DEF MetaOf, SmallRecipe, Recipe
  <2>2. \/ BlockSize[t] = 34 /\ QuantBytes[t] = 2 .. 33
        \/ BlockSize[t] = 18 /\ QuantBytes[t] = 2 .. 17
        \/ BlockSize[t] = 22 /\ QuantBytes[t] = 2 .. 21
    BY <1>2 DEF BlockSize, QuantBytes
  <2> QED BY <1>1, <2>1, <2>2
<1>3. CASE t \in {"Q4_1", "Q5_1"}
  <2>1. MetaOf(SmallRecipe(t, p)) =
          SetOf(F16At(0)) \cup SetOf(F16At(2)) \cup SetOf(No)
    BY <1>3 DEF MetaOf, SmallRecipe, Recipe
  <2>2. \/ BlockSize[t] = 20 /\ QuantBytes[t] = 4 .. 19
        \/ BlockSize[t] = 24 /\ QuantBytes[t] = 4 .. 23
    BY <1>3 DEF BlockSize, QuantBytes
  <2> QED BY <1>1, <2>1, <2>2
<1> QED BY <1>2, <1>3 DEF Small

\* Those of Q2_K are d, m and a byte with the element's scale and min.
LEMMA Q2Metas ==
    ASSUME NEW p \in 0 .. 255, NEW y \in Nat, NEW x \in 0 .. 7
    PROVE  <<y, x>> \in MetaOf(KRecipe("Q2_K", p)) <=>
              \/ y \in 80 .. 83
              \/ y = Q2Scale(p \div 128, (p % 128) \div 32, p % 32)
<1> DEFINE at == Q2Scale(p \div 128, (p % 128) \div 32, p % 32)
<1>1. at \in 0 .. 15
  BY DEF Q2Scale
<1>2. MetaOf(KRecipe("Q2_K", p)) =
        SetOf(Field(at, 0, 4)) \cup SetOf(Field(at, 4, 4))
        \cup SetOf(F16At(80)) \cup SetOf(F16At(82))
  BY DEF MetaOf, KRecipe, Recipe
<1> HIDE DEF at
<1>d. <<y, x>> \in SetOf(F16At(80)) <=> y = 80 \/ y = 80 + 1
  BY F16Spans
<1>m. <<y, x>> \in SetOf(F16At(82)) <=> y = 82 \/ y = 82 + 1
  BY F16Spans
<1>3. /\ <<y, x>> \in SetOf(F16At(80)) <=> y \in {80, 81}
      /\ <<y, x>> \in SetOf(F16At(82)) <=> y \in {82, 83}
  BY <1>d, <1>m
<1>s. Spans(Field(at, 0, 4), at, 0, 4) /\ Spans(Field(at, 4, 4), at, 4, 4)
  BY <1>1, FieldSpans
<1>4. /\ <<y, x>> \in SetOf(Field(at, 0, 4))
        <=> 8 * (y - at) + x \in 0 .. 0 + 4 - 1
      /\ <<y, x>> \in SetOf(Field(at, 4, 4)) <=> 8 * (y - at) + x \in 4 .. 4 + 4 - 1
  BY <1>s DEF Spans
<1>5. 8 * (y - at) + x \in 0 .. 0 + 4 - 1 \/ 8 * (y - at) + x \in 4 .. 4 + 4 - 1
        <=> y = at
  BY <1>1
<1>6. <<y, x>> \in MetaOf(KRecipe("Q2_K", p)) <=> y \in 80 .. 83 \/ y = at
  BY <1>2, <1>3, <1>4, <1>5
<1> QED BY <1>6 DEF at

\* Those of Q3_K are d and two fields of twelve bytes.
LEMMA Q3Metas ==
    ASSUME NEW p \in 0 .. 255, NEW y \in Nat, NEW x \in 0 .. 7
    PROVE  <<y, x>> \in MetaOf(KRecipe("Q3_K", p)) <=>
              \/ y \in 108 .. 109
              \/ <<y, x>> \in SetOf(Q3Scale(8 * (p \div 128)
                                   + 2 * ((p % 128) \div 32) + (p % 32) \div 16))
<1>1. MetaOf(KRecipe("Q3_K", p)) =
        SetOf(Q3Scale(8 * (p \div 128) + 2 * ((p % 128) \div 32) + (p % 32) \div 16))
        \cup SetOf(F16At(108)) \cup SetOf(No)
  BY DEF MetaOf, KRecipe, Recipe
<1>d. <<y, x>> \in SetOf(F16At(108)) <=> y = 108 \/ y = 108 + 1
  BY F16Spans
<1>2. <<y, x>> \in SetOf(F16At(108)) <=> y \in {108, 109}
  BY <1>d
<1> QED BY <1>1, <1>2, NoBits

\* A number is put together from two fields.
SpansBoth(h, a, lo, bits, c, lo2, bits2) ==
    \A y \in Nat, x \in 0 .. 7 : <<y, x>> \in SetOf(h) <=>
        \/ 8 * (y - a) + x \in lo .. lo + bits - 1
        \/ 8 * (y - c) + x \in lo2 .. lo2 + bits2 - 1

LEMMA BothBits ==
    ASSUME NEW f, NEW a, NEW lo, NEW bits, Spans(f, a, lo, bits),
           NEW g, NEW c, NEW lo2, NEW bits2, Spans(g, c, lo2, bits2)
    PROVE  SpansBoth(f \o g, a, lo, bits, c, lo2, bits2)
<1>1. SetOf(f \o g) = SetOf(f) \cup SetOf(g)
  BY BothFields DEF Spans
<1> USE DEF SpansBoth
<1> TAKE y \in Nat, x \in 0 .. 7
<1>2. /\ <<y, x>> \in SetOf(f) <=> 8 * (y - a) + x \in lo .. lo + bits - 1
      /\ <<y, x>> \in SetOf(g) <=> 8 * (y - c) + x \in lo2 .. lo2 + bits2 - 1
  BY DEF Spans
<1> QED BY <1>1, <1>2

\* The sixteen scales of Q3_K share the twelve bytes.
Q3Sixteenth(y, x) ==
    IF y < 104 THEN (IF x < 4 THEN y - 96 ELSE y - 88)
    ELSE y - 104 + 4 * (x \div 2)

\* Each bit of them belongs to one.
LEMMA Q3ScaleBits ==
    ASSUME NEW is \in 0 .. 15, NEW y \in Nat, NEW x \in 0 .. 7
    PROVE  <<y, x>> \in SetOf(Q3Scale(is))
              <=> y \in 96 .. 107 /\ Q3Sixteenth(y, x) = is
<1>1. CASE is < 4
  <2>1. Q3Scale(is) = Field(96 + is, 0, 4) \o Field(104 + is, 0, 2)
    BY <1>1 DEF Q3Scale
  <2>2. /\ Spans(Field(96 + is, 0, 4), 96 + is, 0, 4)
        /\ Spans(Field(104 + is, 0, 2), 104 + is, 0, 2)
    BY <1>1, FieldSpans
  <2>4. SpansBoth(Field(96 + is, 0, 4) \o Field(104 + is, 0, 2),
                  96 + is, 0, 4, 104 + is, 0, 2)
    BY <2>2, BothBits
  <2>3. <<y, x>> \in SetOf(Q3Scale(is)) <=>
          \/ 8 * (y - (96 + is)) + x \in 0 .. 0 + 4 - 1
          \/ 8 * (y - (104 + is)) + x \in 0 .. 0 + 2 - 1
    BY <2>1, <2>4 DEF SpansBoth
  <2> QED BY <1>1, <2>3 DEF Q3Sixteenth
<1>2. CASE is >= 4 /\ is < 8
  <2>1. Q3Scale(is) = Field(96 + is, 0, 4) \o Field(100 + is, 2, 2)
    BY <1>2 DEF Q3Scale
  <2>2. /\ Spans(Field(96 + is, 0, 4), 96 + is, 0, 4)
        /\ Spans(Field(100 + is, 2, 2), 100 + is, 2, 2)
    BY <1>2, FieldSpans
  <2>4. SpansBoth(Field(96 + is, 0, 4) \o Field(100 + is, 2, 2),
                  96 + is, 0, 4, 100 + is, 2, 2)
    BY <2>2, BothBits
  <2>3. <<y, x>> \in SetOf(Q3Scale(is)) <=>
          \/ 8 * (y - (96 + is)) + x \in 0 .. 0 + 4 - 1
          \/ 8 * (y - (100 + is)) + x \in 2 .. 2 + 2 - 1
    BY <2>1, <2>4 DEF SpansBoth
  <2> QED BY <1>2, <2>3 DEF Q3Sixteenth
<1>3. CASE is >= 8 /\ is < 12
  <2>1. Q3Scale(is) = Field(88 + is, 4, 4) \o Field(96 + is, 4, 2)
    BY <1>3 DEF Q3Scale
  <2>2. /\ Spans(Field(88 + is, 4, 4), 88 + is, 4, 4)
        /\ Spans(Field(96 + is, 4, 2), 96 + is, 4, 2)
    BY <1>3, FieldSpans
  <2>4. SpansBoth(Field(88 + is, 4, 4) \o Field(96 + is, 4, 2),
                  88 + is, 4, 4, 96 + is, 4, 2)
    BY <2>2, BothBits
  <2>3. <<y, x>> \in SetOf(Q3Scale(is)) <=>
          \/ 8 * (y - (88 + is)) + x \in 4 .. 4 + 4 - 1
          \/ 8 * (y - (96 + is)) + x \in 4 .. 4 + 2 - 1
    BY <2>1, <2>4 DEF SpansBoth
  <2> QED BY <1>3, <2>3 DEF Q3Sixteenth
<1>4. CASE is >= 12
  <2>1. Q3Scale(is) = Field(88 + is, 4, 4) \o Field(92 + is, 6, 2)
    BY <1>4 DEF Q3Scale
  <2>2. /\ Spans(Field(88 + is, 4, 4), 88 + is, 4, 4)
        /\ Spans(Field(92 + is, 6, 2), 92 + is, 6, 2)
    BY <1>4, FieldSpans
  <2>4. SpansBoth(Field(88 + is, 4, 4) \o Field(92 + is, 6, 2),
                  88 + is, 4, 4, 92 + is, 6, 2)
    BY <2>2, BothBits
  <2>3. <<y, x>> \in SetOf(Q3Scale(is)) <=>
          \/ 8 * (y - (88 + is)) + x \in 4 .. 4 + 4 - 1
          \/ 8 * (y - (92 + is)) + x \in 6 .. 6 + 2 - 1
    BY <2>1, <2>4 DEF SpansBoth
  <2> QED BY <1>4, <2>3 DEF Q3Sixteenth
<1> QED BY <1>1, <1>2, <1>3, <1>4

-----------------------------------------------------------------------------
\* A bit of the quants belongs to one element of the block, whose quant it is in.
LEMMA QuantsOwned ==
    ASSUME NEW t \in Consistent, NEW p \in 0 .. Span(t) - 1
    PROVE  Owns(DotValue(t, p).quant, t, p)
<1>1. CASE t \in Small
  <2>1. DotValue(t, p) = SmallRecipe(t, p) /\ p \in 0 .. 31
    BY <1>1 DEF DotValue, Span
  <2>2. Owns(SmallRecipe(t, p).quant, t, p)
    BY <1>1, <2>1, SmallOwns
  <2> QED BY <2>1, <2>2
<1>2. CASE t \notin Small
  <2>1. /\ DotValue(t, p) = KRecipe(t, p) /\ p \in 0 .. 255
        /\ t \in {"Q2_K", "Q3_K"}
    BY <1>2 DEF DotValue, Span, Consistent
  <2>2. Owns(KRecipe(t, p).quant, t, p)
    BY <2>1, LargeOwns
  <2> QED BY <2>1, <2>2
<1> QED BY <1>1, <1>2

LEMMA OwnerInBlock ==
    ASSUME NEW t \in Consistent, NEW y \in Nat, NEW x \in 0 .. 7,
           y \in QuantBytes[t]
    PROVE  y < BlockSize[t] /\ Owner(t, y, x) \in 0 .. Span(t) - 1
<1>1. CASE t = "Q8_0"
  BY <1>1 DEF QuantBytes, BlockSize, Owner, Span, Small
<1>2. CASE t = "Q4_0"
  BY <1>2 DEF QuantBytes, BlockSize, Owner, Span, Small
<1>3. CASE t = "Q4_1"
  BY <1>3 DEF QuantBytes, BlockSize, Owner, Span, Small
<1>4. CASE t = "Q5_0"
  BY <1>4 DEF QuantBytes, BlockSize, Owner, Span, Small
<1>5. CASE t = "Q5_1"
  BY <1>5 DEF QuantBytes, BlockSize, Owner, Span, Small
<1>6. CASE t = "Q2_K"
  <2>1. /\ BlockSize[t] = 84 /\ Span(t) = 256 /\ y \in 16 .. 79
        /\ Owner(t, y, x) =
              128 * ((y - 16) \div 32) + 32 * (x \div 2) + ((y - 16) % 32)
    BY <1>6 DEF QuantBytes, BlockSize, Owner, Span, Small
  <2>2. /\ (y - 16) \div 32 \in 0 .. 1 /\ x \div 2 \in 0 .. 3
        /\ (y - 16) % 32 \in 0 .. 31
    BY <2>1
  <2> QED BY <2>1, <2>2
<1>7. CASE t = "Q3_K"
  <2>1. /\ BlockSize[t] = 110 /\ Span(t) = 256 /\ y \in 0 .. 95
        /\ Owner(t, y, x) = IF y < 32 THEN 128 * (x \div 4) + 32 * (x % 4) + y
              ELSE 128 * (y \div 32 - 1) + 32 * (x \div 2) + (y % 32)
    BY <1>7 DEF QuantBytes, BlockSize, Owner, Span, Small
  <2>2. /\ x \div 2 \in 0 .. 3 /\ x \div 4 \in 0 .. 1 /\ x % 4 \in 0 .. 3
        /\ y % 32 \in 0 .. 31 /\ y >= 32 => y \div 32 \in 1 .. 2
    BY <2>1
  <2> QED BY <2>1, <2>2
<1> QED BY <1>1, <1>2, <1>3, <1>4, <1>5, <1>6, <1>7 DEF Consistent, Small

\* The other bits belong to no quant, and every one of them to some element.
LEMMA MetasElsewhere ==
    ASSUME NEW t \in Consistent, NEW p \in 0 .. Span(t) - 1,
           NEW y \in Nat, NEW x \in 0 .. 7, <<y, x>> \in MetaOf(DotValue(t, p))
    PROVE  y \notin QuantBytes[t]
<1>1. CASE t \in Small
  BY <1>1, SmallMetas DEF DotValue
<1>2. CASE t = "Q2_K"
  <2>1. DotValue(t, p) = KRecipe("Q2_K", p) /\ p \in 0 .. 255
    BY <1>2 DEF DotValue, Small, Span
  <2> DEFINE at == Q2Scale(p \div 128, (p % 128) \div 32, p % 32)
  <2>3. at \in 0 .. 15
    BY <2>1 DEF Q2Scale
  <2>4. y \in 80 .. 83 \/ y = at
    BY <2>1, Q2Metas
  <2> HIDE DEF at
  <2>2. y \in 80 .. 83 \/ y \in 0 .. 15
    BY <2>3, <2>4
  <2> QED BY <1>2, <2>2 DEF QuantBytes
<1>3. CASE t = "Q3_K"
  <2>1. DotValue(t, p) = KRecipe("Q3_K", p) /\ p \in 0 .. 255
    BY <1>3 DEF DotValue, Small, Span
  <2> DEFINE is == 8 * (p \div 128) + 2 * ((p % 128) \div 32) + (p % 32) \div 16
  <2>2. is \in 0 .. 15
    BY <2>1
  <2>3. y \in 108 .. 109 \/ <<y, x>> \in SetOf(Q3Scale(is))
    BY <2>1, Q3Metas
  <2> HIDE DEF is
  <2>4. y \in 108 .. 109 \/ y \in 96 .. 107
    BY <2>2, <2>3, Q3ScaleBits
  <2> QED BY <1>3, <2>4 DEF QuantBytes
<1> QED BY <1>1, <1>2, <1>3 DEF Consistent

\* None of them is left unused.
LEMMA MetasCover ==
    ASSUME NEW t \in Consistent, NEW y \in Nat, NEW x \in 0 .. 7,
           y \in (0 .. BlockSize[t] - 1) \ QuantBytes[t]
    PROVE  \E p \in 0 .. Span(t) - 1 : <<y, x>> \in MetaOf(DotValue(t, p))
<1>1. CASE t \in Small
  <2>1. DotValue(t, 0) = SmallRecipe(t, 0) /\ 0 \in 0 .. Span(t) - 1
    BY <1>1 DEF DotValue, Span
  <2>2. <<y, x>> \in MetaOf(SmallRecipe(t, 0))
    BY <1>1, SmallMetas
  <2> QED BY <2>1, <2>2
<1>2. CASE t = "Q2_K"
  <2> DEFINE s == y % 16
             p == 128 * (s \div 8) + 32 * ((s % 8) \div 2) + 16 * (s % 2)
  <2>1. p \in 0 .. 255 /\ Span(t) = 256 /\ DotValue(t, p) = KRecipe("Q2_K", p)
    BY <1>2 DEF DotValue, Span, Small
  <2>2. y \in 80 .. 83 \/ y \in 0 .. 15
    BY <1>2 DEF BlockSize, QuantBytes
  <2>3. y \in 0 .. 15 => y = Q2Scale(p \div 128, (p % 128) \div 32, p % 32)
    <3> SUFFICES ASSUME y \in 0 .. 15
                 PROVE  y = Q2Scale(p \div 128, (p % 128) \div 32, p % 32)
      OBVIOUS
    <3>1. s = y
      OBVIOUS
    <3>2. /\ /\ s \div 8 \in 0 .. 1 /\ (s % 8) \div 2 \in 0 .. 3
          /\ s % 2 \in 0 .. 1
          /\ s = 8 * (s \div 8) + 2 * ((s % 8) \div 2) + (s % 2)
      BY <3>1
    <3>3. /\ p \div 128 = s \div 8 /\ (p % 128) \div 32 = (s % 8) \div 2
          /\ (p % 32) \div 16 = s % 2
      BY <3>2
    <3> QED BY <3>1, <3>2, <3>3 DEF Q2Scale
  <2> HIDE DEF s, p
  <2>5. p \in 0 .. 255
    BY <2>1
  <2>6. <<y, x>> \in MetaOf(KRecipe("Q2_K", p)) <=>
          y \in 80 .. 83 \/ y = Q2Scale(p \div 128, (p % 128) \div 32, p % 32)
    BY <2>5, Q2Metas
  <2>4. <<y, x>> \in MetaOf(KRecipe("Q2_K", p))
    BY <2>2, <2>3, <2>6
  <2> QED BY <2>1, <2>4
<1>3. CASE t = "Q3_K"
  <2> DEFINE s == Q3Sixteenth(y, x)
             p == 128 * (s \div 8) + 32 * ((s % 8) \div 2) + 16 * (s % 2)
             is == 8 * (p \div 128) + 2 * ((p % 128) \div 32) + (p % 32) \div 16
  <2>1. y \in 96 .. 107 \/ y \in 108 .. 109
    BY <1>3 DEF BlockSize, QuantBytes
  <2>2. CASE y \in 108 .. 109
    <3> DEFINE first == 0
    <3>1. /\ Span(t) = 256 /\ DotValue(t, first) = KRecipe("Q3_K", first)
          /\ first \in 0 .. 255
      BY <1>3 DEF DotValue, Span, Small
    <3> HIDE DEF first
    <3>2. <<y, x>> \in MetaOf(KRecipe("Q3_K", first))
      BY <2>2, <3>1, Q3Metas
    <3> QED BY <3>1, <3>2
  <2>3. CASE y \in 96 .. 107
    <3>1. s \in 0 .. 15
      BY <2>3 DEF Q3Sixteenth
    <3> HIDE DEF s
    <3>2. /\ /\ s \div 8 \in 0 .. 1 /\ (s % 8) \div 2 \in 0 .. 3
          /\ s % 2 \in 0 .. 1
          /\ s = 8 * (s \div 8) + 2 * ((s % 8) \div 2) + (s % 2)
      BY <3>1
    <3>3. p \in 0 .. 255 /\ is = s
      BY <3>2
    <3>4. Span(t) = 256 /\ DotValue(t, p) = KRecipe("Q3_K", p)
      BY <1>3 DEF DotValue, Span, Small
    <3>5. <<y, x>> \in SetOf(Q3Scale(s))
      BY <2>3, <3>1, Q3ScaleBits DEF s
    <3>6. <<y, x>> \in SetOf(Q3Scale(is))
      BY <3>3, <3>5
    <3> HIDE DEF p
    <3>7. <<y, x>> \in MetaOf(KRecipe("Q3_K", p))
      BY <3>3, <3>6, Q3Metas
    <3>8. p \in 0 .. Span(t) - 1 /\ <<y, x>> \in MetaOf(DotValue(t, p))
      BY <3>3, <3>4, <3>7
    <3> HIDE DEF s
    <3> QED BY <3>8
  <2> QED BY <2>1, <2>2, <2>3
<1> QED BY <1>1, <1>2, <1>3 DEF Consistent

-----------------------------------------------------------------------------
(* The walk of quant_dot over a row *)

\* The walk is at an element of the tensor, and the bits noted are those of the
\* elements of the block before it.
RowTyped == /\ type \in Types /\ shape \in Shapes
            /\ Cells \in Nat /\ i \in 0 .. Cells - 1
QuantsBefore == quants =
                  UNION {SetOf(DotValue(type, q).quant) : q \in 0 .. Position - 1}
MetasBefore == metas =
                 UNION {MetaOf(DotValue(type, q)) : q \in 0 .. Position - 1}

\* The inductive invariant.
BlockIInv == RowTyped /\ QuantsBefore /\ MetasBefore

LEMMA SpanValues == ASSUME NEW t PROVE Span(t) \in {32, 256}
  BY DEF Span

LEMMA PositionType ==
    ASSUME RowTyped
    PROVE  i \in Nat /\ Position \in 0 .. Span(type) - 1
<1>1. i \in Nat
  BY DEF RowTyped
<1> QED BY <1>1, SpanValues DEF Position

LEMMA NextPosition ==
    ASSUME NEW k \in Nat, NEW span \in {32, 256}
    PROVE  /\ (k + 1) % span # 0 => (k + 1) % span = (k % span) + 1
           /\ k % span \in Nat
<1>1. CASE span = 32
  BY <1>1
<1>2. CASE span = 256
  BY <1>2
<1> QED BY <1>1, <1>2

LEMMA ShapeType ==
    ASSUME NEW s \in Shapes
    PROVE  s[1] \in 0 .. SizeMax /\ s[2] \in 0 .. SizeMax
  BY DequantAssumption

LEMMA InitBlock == Init => BlockIInv
<1> SUFFICES ASSUME Init PROVE BlockIInv
  OBVIOUS
<1>1. RowTyped
  <2>1. shape[1] \in Nat /\ shape[2] \in Nat
    BY ShapeType DEF Init
  <2>2. Cells \in Nat
    BY <2>1 DEF Cells
  <2> QED BY <2>2 DEF Init, RowTyped
<1>2. Position = 0
  BY SpanValues DEF Init, Position
<1>3. 0 .. Position - 1 = {}
  BY <1>2
<1> QED BY <1>1, <1>3 DEF Init, BlockIInv, QuantsBefore, MetasBefore

LEMMA ElementBlock == BlockIInv /\ Element => BlockIInv'
<1> SUFFICES ASSUME BlockIInv, Element PROVE BlockIInv'
  OBVIOUS
<1>1. i \in Nat /\ Cells \in Nat /\ RowTyped
  BY PositionType DEF BlockIInv, RowTyped
<1>2. /\ type' = type /\ shape' = shape /\ i' = i + 1
      /\ i + 1 < Cells /\ Cells' = Cells
  BY DEF Element, Cells
<1>3. RowTyped'
  <2>1. i' \in 0 .. Cells' - 1
    BY <1>1, <1>2
  <2> QED BY <1>1, <1>2, <2>1 DEF RowTyped
<1>4. Position' = (i + 1) % Span(type)
  BY <1>2 DEF Position
<1>5. CASE (i + 1) % Span(type) = 0
  <2>1. quants' = {} /\ metas' = {}
    BY <1>5 DEF Element
  <2>2. (0 .. Position - 1)' = {}
    BY <1>4, <1>5
  <2> QED BY <1>3, <2>1, <2>2 DEF BlockIInv, QuantsBefore, MetasBefore
<1>6. CASE (i + 1) % Span(type) # 0
  <2>1. /\ quants' = quants \cup SetOf(DotValue(type, Position).quant)
        /\ metas' = metas \cup MetaOf(DotValue(type, Position))
    BY <1>6 DEF Element, Now
  <2>2. Position' = Position + 1 /\ Position \in Nat
    <3>1. Span(type) \in {32, 256}
      BY SpanValues
    <3>2. (i + 1) % Span(type) = (i % Span(type)) + 1 /\ i % Span(type) \in Nat
      BY <1>1, <1>6, <3>1, NextPosition
    <3> QED BY <1>4, <3>2 DEF Position
  <2>3. 0 .. Position' - 1 = (0 .. Position - 1) \cup {Position}
    BY <2>2
  <2>4. QuantsBefore'
    BY <1>2, <2>1, <2>3 DEF BlockIInv, QuantsBefore
  <2>5. MetasBefore'
    BY <1>2, <2>1, <2>3 DEF BlockIInv, MetasBefore
  <2> QED BY <1>3, <2>4, <2>5 DEF BlockIInv
<1> QED BY <1>5, <1>6

LEMMA StutterBlock == BlockIInv /\ UNCHANGED vars => BlockIInv'
<1> SUFFICES ASSUME BlockIInv, UNCHANGED vars PROVE BlockIInv'
  OBVIOUS
<1>1. /\ type' = type /\ shape' = shape /\ i' = i
      /\ quants' = quants /\ metas' = metas
      /\ Position' = Position /\ Cells' = Cells
  BY DEF vars, Position, Cells
<1> QED BY <1>1 DEF BlockIInv, RowTyped, QuantsBefore, MetasBefore

\* The history variables are what their names say, in every state of a walk.
THEOREM BlockInvariant == Spec => []BlockIInv
<1>1. BlockIInv /\ [Element]_vars => BlockIInv'
  BY ElementBlock, StutterBlock
<1> QED BY InitBlock, <1>1, PTL DEF Spec
-----------------------------------------------------------------------------
\* The loader checks whole blocks: an element's block is one of them.
LEMMA BlockInFile ==
    ASSUME NEW e \in Nat, NEW k \in 0 .. e - 1, NEW span \in {32, 256},
           NEW size \in Nat, NEW y \in Nat, y < size
    PROVE  (k \div span) * size + y < ((e + 31) \div 32) * size
<1> DEFINE a == k \div span
           c == (e + 31) \div 32
<1>1. a \in Nat /\ c \in Nat /\ a + 1 <= c
  <2>1. k < e /\ k \in Nat
    OBVIOUS
  <2>2. a <= k \div 32 /\ a \in Nat
    BY <2>1
  <2>3. k \div 32 < c /\ c \in Nat
    BY <2>1
  <2> QED BY <2>2, <2>3
<1> HIDE DEF a, c
<1>2. (a + 1) * size <= c * size
  BY <1>1
<1>3. (a + 1) * size = a * size + size
  BY <1>1
<1> QED BY <1>1, <1>2, <1>3 DEF a, c

LEMMA BlockSizeType ==
    ASSUME NEW t \in Small \cup KTypes
    PROVE  BlockSize[t] \in Nat
  BY DEF Small, KTypes, BlockSize

LEMMA InBlockBytes ==
    ASSUME NEW r, NEW t, InBlock(r, t), NEW b \in SetOf(r.quant) \cup MetaOf(r)
    PROVE  b \in Bits /\ b[1] < BlockSize[t]
  BY DEF InBlock, FitsIn, MetaOf

\* One turn of elements() finds out exactly whether the product is a size_t.
LEMMA TimesExact ==
    ASSUME NEW e \in 0 .. SizeMax, NEW dim \in 0 .. SizeMax
    PROVE  Times(e, dim) = IF e * dim <= SizeMax THEN e * dim ELSE 0
<1>1. SizeMax \in Nat /\ e \in Nat /\ dim \in Nat
  BY DequantAssumption
<1>2. CASE e = 0
  BY <1>1, <1>2 DEF Times
<1>3. CASE e # 0
  <2> DEFINE q == SizeMax \div e
  <2>1. q \in Nat /\ e * q <= SizeMax /\ SizeMax < e * q + e
    BY <1>1, <1>3
  <2> HIDE DEF q
  <2>2. ASSUME dim <= q PROVE e * dim <= SizeMax
    <3>1. e * dim <= e * q
      BY <1>1, <2>1, <2>2
    <3> QED BY <1>1, <2>1, <3>1
  <2>3. ASSUME dim > q PROVE e * dim > SizeMax
    <3>1. e * (q + 1) <= e * dim
      BY <1>1, <2>1, <2>3
    <3>2. e * (q + 1) = e * q + e
      BY <1>1, <2>1
    <3> QED BY <1>1, <2>1, <3>1, <3>2
  <2>4. Times(e, dim) = IF dim > q THEN 0 ELSE e * dim
    BY <1>3 DEF Times, q
  <2> QED BY <1>1, <2>1, <2>2, <2>3, <2>4
<1> QED BY <1>2, <1>3

\* elements() is the product of the shape, or 0 where that is no size_t.
LEMMA ElementsExact ==
    ASSUME NEW s \in Shapes
    PROVE  Elements(s) = IF s[1] * s[2] <= SizeMax THEN s[1] * s[2] ELSE 0
<1>1. s[1] \in 0 .. SizeMax /\ s[2] \in 0 .. SizeMax /\ SizeMax \in Nat
  BY ShapeType, DequantAssumption
<1>2. CASE SizeMax = 0
  <2>1. s[1] = 0 /\ s[2] = 0
    BY <1>1, <1>2
  <2>2. SizeMax \div 1 = 0
    BY <1>2
  <2> QED BY <1>2, <2>1, <2>2 DEF Elements, Times
<1>3. CASE SizeMax # 0
  <2>1. 1 \in 0 .. SizeMax /\ 1 * s[1] = s[1]
    BY <1>1, <1>3
  <2>2. Times(1, s[1]) = s[1]
    BY <1>1, <2>1, TimesExact
  <2> QED BY <1>1, <2>2, TimesExact DEF Elements
<1> QED BY <1>2, <1>3

\* Where nothing wraps, bytes() is a whole number of blocks that hold the
\* elements.
LEMMA BytesAreBlocks ==
    ASSUME type \in Types, shape \in Shapes, BytesExact
    PROVE  /\ Elements(shape) \in Nat
           /\ Bytes(type, shape)
                 = ((Elements(shape) + 31) \div 32) * BlockSize[type]
<1> DEFINE e == Elements(shape)
           blocks == (e + 31) \div 32
<1>1. SizeMax \in Nat /\ e \in Nat /\ BlockSize[type] \in Nat
  <2>1. shape[1] \in 0 .. SizeMax /\ shape[2] \in 0 .. SizeMax /\ SizeMax \in Nat
    BY ShapeType, DequantAssumption
  <2>2. shape[1] * shape[2] \in Nat
    BY <2>1
  <2> QED BY <2>1, <2>2, ElementsExact, BlockSizeType, DequantAssumption
<1>2. e + 31 <= SizeMax /\ blocks * BlockSize[type] <= SizeMax
  BY DEF BytesExact
<1>3. blocks \in Nat
  BY <1>1
<1>4. \A x \in Nat : x <= SizeMax => Wrap(x) = x
  BY <1>1 DEF Wrap
<1>5. Bytes(type, shape) = Wrap((Wrap(e + 31) \div 32) * BlockSize[type])
  BY DEF Bytes
<1> HIDE DEF e
<1>6. Wrap(e + 31) = e + 31
  BY <1>1, <1>2, <1>4
<1>7. Wrap(blocks * BlockSize[type]) = blocks * BlockSize[type]
  <2>1. blocks * BlockSize[type] \in Nat
    BY <1>1, <1>3
  <2> QED BY <1>2, <1>4, <2>1
<1> QED BY <1>1, <1>5, <1>6, <1>7 DEF e

\* In every format and shape and for every width of size_t: elements() is exact
\* or 0, and of the elements below it both decoders stay inside the bytes that
\* the loader has checked against the file (src/gguf.cpp:18), unless bytes()
\* wraps.
THEOREM ReadsStayInTensor == Spec => []ReadsInTensor
<1>1. BlockIInv => ReadsInTensor
  <2> SUFFICES ASSUME BlockIInv PROVE ReadsInTensor
    OBVIOUS
  <2>1. RowTyped /\ type \in Small \cup KTypes /\ i \in Nat
    BY PositionType, DequantAssumption DEF BlockIInv, RowTyped
  <2>2. Elements(shape) = IF Cells <= SizeMax THEN Cells ELSE 0
    BY <2>1, ElementsExact DEF RowTyped, Cells
  <2>3. ASSUME BytesExact, i < Elements(shape),
               NEW r \in {Now, TensorValue(type, Position)}
        PROVE  InTensor(r)
    <3> SUFFICES ASSUME NEW b \in SetOf(r.quant) \cup MetaOf(r)
                 PROVE  (i \div Span(type)) * BlockSize[type] + b[1]
                            < Bytes(type, shape)
      BY DEF InTensor
    <3>1. Position \in 0 .. Span(type) - 1
      BY <2>1, PositionType
    <3>2. InBlock(r, type)
      BY <2>1, <3>1, DotInBlock, TensorInBlock DEF Now
    <3>3. b[1] \in Nat /\ b[1] < BlockSize[type]
      BY <3>2, InBlockBytes DEF Bits
    <3>4. /\ Elements(shape) \in Nat
          /\ Bytes(type, shape)
                = ((Elements(shape) + 31) \div 32) * BlockSize[type]
      BY <2>1, <2>3, BytesAreBlocks DEF RowTyped
    <3>5. i \in 0 .. Elements(shape) - 1
      BY <2>1, <2>3, <3>4
    <3> QED BY <2>1, <3>3, <3>4, <3>5, BlockSizeType, SpanValues, BlockInFile
  <2> QED BY <2>2, <2>3 DEF ReadsInTensor
<1> QED BY <1>1, BlockInvariant, PTL

\* The limit of that promise: the size of a shape that has more elements than a
\* size_t counts is 0, which no file is too short for (src/gguf.cpp:15,16,18).
THEOREM OverflowIsUnchecked ==
    ASSUME NEW t \in Types, NEW s \in Shapes, s[1] * s[2] > SizeMax, SizeMax >= 31
    PROVE  Bytes(t, s) = 0
<1>1. SizeMax \in Nat /\ s[1] \in Nat /\ s[2] \in Nat
  BY ShapeType, DequantAssumption
<1>2. Elements(s) = 0
  <2>1. s[1] * s[2] \in Nat
    BY <1>1
  <2> QED BY <1>1, <2>1, ElementsExact
<1>3. Wrap(0 + 31) = 31 /\ Wrap(0) = 0
  BY <1>1 DEF Wrap
<1>4. (31 \div 32) * BlockSize[t] = 0
  <2>1. BlockSize[t] \in Nat /\ 31 \div 32 = 0
    BY BlockSizeType, DequantAssumption
  <2> QED BY <2>1
<1> QED BY <1>2, <1>3, <1>4 DEF Bytes

\* The bits that the block's elements so far have used are the ones they own.
LEMMA UsedQuants ==
    ASSUME BlockIInv, type \in Consistent, NEW y \in Nat, NEW x \in 0 .. 7
    PROVE  <<y, x>> \in quants
              <=> y \in QuantBytes[type] /\ Owner(type, y, x) \in 0 .. Position - 1
<1>1. Position \in 0 .. Span(type) - 1 /\ Span(type) \in Nat
  BY PositionType, SpanValues DEF BlockIInv
<1>2. \A q \in 0 .. Position - 1 : Owns(DotValue(type, q).quant, type, q)
  <2> TAKE q \in 0 .. Position - 1
  <2>1. q \in 0 .. Span(type) - 1
    BY <1>1
  <2> QED BY <2>1, QuantsOwned
<1>3. <<y, x>> \in quants <=> \E q \in 0 .. Position - 1 :
                                 <<y, x>> \in SetOf(DotValue(type, q).quant)
  BY DEF BlockIInv, QuantsBefore
<1>4. \A q \in 0 .. Position - 1 : <<y, x>> \in SetOf(DotValue(type, q).quant)
          <=> y \in QuantBytes[type] /\ Owner(type, y, x) = q
  BY <1>2 DEF Owns
<1> QED BY <1>3, <1>4

\* quant_v2::value takes the blocks of seven formats apart: the quants of two
\* elements share no bit, none is read as a scale, and no bit is left over.
THEOREM BlocksArePartitioned == Spec => []BlockPartitioned
<1>1. BlockIInv => BlockPartitioned
  <2> SUFFICES ASSUME BlockIInv, type \in Consistent
               PROVE  /\ SetOf(Now.quant) \cap quants = {}
                      /\ SetOf(Now.quant) \cap (metas \cup MetaOf(Now)) = {}
                      /\ MetaOf(Now) \cap quants = {}
                      /\ Position = Span(type) - 1 =>
                            quants \cup SetOf(Now.quant) \cup metas \cup MetaOf(Now)
                                = (0 .. BlockSize[type] - 1) \X (0 .. 7)
    BY DEF BlockPartitioned
  <2> DEFINE mine == SetOf(Now.quant)
             other == metas \cup MetaOf(Now)
  <2>1. /\ Position \in 0 .. Span(type) - 1 /\ Span(type) \in Nat
        /\ Now = DotValue(type, Position) /\ type \in Small \cup KTypes
    BY PositionType, SpanValues DEF BlockIInv, Now, Consistent, KTypes
  <2>2. \A q \in 0 .. Position : /\ InBlock(DotValue(type, q), type)
                                 /\ q \in 0 .. Span(type) - 1
    <3> TAKE q \in 0 .. Position
    <3>1. q \in 0 .. Span(type) - 1
      BY <2>1
    <3> QED BY <2>1, <3>1, DotInBlock
  <2>3. \A b \in mine : b \in Bits /\ b[1] < BlockSize[type]
    BY <2>1, <2>2, InBlockBytes
  <2>4. \A b \in other : \E q \in 0 .. Position : b \in MetaOf(DotValue(type, q))
    BY <2>1 DEF BlockIInv, MetasBefore
  <2>5. \A b \in quants : \E q \in 0 .. Position : b \in SetOf(DotValue(type, q).quant)
    BY <2>1 DEF BlockIInv, QuantsBefore
  <2>6. \A b \in other \cup quants : b \in Bits /\ b[1] < BlockSize[type]
    BY <2>2, <2>4, <2>5, InBlockBytes
  <2>7. ASSUME NEW y \in Nat, NEW x \in 0 .. 7
        PROVE  /\ <<y, x>> \in mine <=> y \in QuantBytes[type]
                                        /\ Owner(type, y, x) = Position
               /\ <<y, x>> \in other => y \notin QuantBytes[type]
    <3>1. Owns(Now.quant, type, Position)
      BY <2>1, QuantsOwned
    <3>2. <<y, x>> \in other => y \notin QuantBytes[type]
      BY <2>2, <2>4, MetasElsewhere
    <3> QED BY <3>1, <3>2 DEF Owns
  <2> HIDE DEF mine, other
  <2>8. mine \cap quants = {} /\ mine \cap other = {} /\ other \cap quants = {}
    <3> SUFFICES ASSUME NEW b \in Bits
                 PROVE  /\ ~(b \in mine /\ b \in quants)
                        /\ ~(b \in mine /\ b \in other)
                        /\ ~(b \in other /\ b \in quants)
      BY <2>3, <2>6
    <3>1. PICK y \in Nat, x \in 0 .. 7 : b = <<y, x>>
      BY DEF Bits
    <3>2. b \in quants => y \in QuantBytes[type] /\ Owner(type, y, x) # Position
      <4>1. <<y, x>> \in quants
              <=> y \in QuantBytes[type] /\ Owner(type, y, x) \in 0 .. Position - 1
        BY UsedQuants
      <4>2. Position \notin 0 .. Position - 1
        BY <2>1
      <4> QED BY <3>1, <4>1, <4>2
    <3> QED BY <2>7, <3>1, <3>2
  <2>9. ASSUME Position = Span(type) - 1
        PROVE  quants \cup mine \cup other =
                 (0 .. BlockSize[type] - 1) \X (0 .. 7)
    <3>1. BlockSize[type] \in Nat
      BY <2>1, BlockSizeType
    <3>2. ASSUME NEW b \in quants \cup mine \cup other
          PROVE  b \in (0 .. BlockSize[type] - 1) \X (0 .. 7)
      <4>1. b \in Bits /\ b[1] < BlockSize[type]
        BY <2>3, <2>6
      <4>2. PICK y \in Nat, x \in 0 .. 7 : b = <<y, x>>
        BY <4>1 DEF Bits
      <4> QED BY <3>1, <4>1, <4>2
    <3>3. ASSUME NEW y \in 0 .. BlockSize[type] - 1, NEW x \in 0 .. 7
          PROVE  <<y, x>> \in quants \cup mine \cup other
      <4>1. y \in Nat
        BY <3>1
      <4>2. CASE y \in QuantBytes[type]
        <5>1. Owner(type, y, x) \in 0 .. Position
          BY <2>1, <2>9, <4>1, <4>2, OwnerInBlock
        <5>2. Owner(type, y, x) =
                Position \/ Owner(type, y, x) \in 0 .. Position - 1
          BY <2>1, <5>1
        <5> QED BY <2>7, <4>1, <4>2, <5>2, UsedQuants
      <4>3. CASE y \notin QuantBytes[type]
        <5>1. \E q \in 0 .. Span(type) - 1 : <<y, x>> \in MetaOf(DotValue(type, q))
          BY <4>1, <4>3, MetasCover
        <5>2. \E q \in 0 .. Position : <<y, x>> \in MetaOf(DotValue(type, q))
          BY <2>9, <5>1
        <5>3. <<y, x>> \in other
          <6>1. PICK q \in 0 .. Position : <<y, x>> \in MetaOf(DotValue(type, q))
            BY <5>2
          <6>2. q = Position \/ q \in 0 .. Position - 1
            BY <2>1
          <6> QED BY <2>1, <6>1, <6>2 DEF other, BlockIInv, MetasBefore
        <5> QED BY <5>3
      <4> QED BY <4>2, <4>3
    <3>4. quants \cup mine \cup other \subseteq (0 .. BlockSize[type] - 1) \X (0 .. 7)
      BY <3>2
    <3>5. (0 .. BlockSize[type] - 1) \X (0 .. 7) \subseteq quants \cup mine \cup other
      <4> SUFFICES ASSUME NEW b \in (0 .. BlockSize[type] - 1) \X (0 .. 7)
                   PROVE  b \in quants \cup mine \cup other
        OBVIOUS
      <4>1. PICK y \in 0 .. BlockSize[type] - 1, x \in 0 .. 7 : b = <<y, x>>
        OBVIOUS
      <4> QED BY <3>3, <4>1
    <3> QED BY <3>4, <3>5
  <2> QED BY <2>8, <2>9 DEF mine, other
<1> QED BY <1>1, BlockInvariant, PTL

\* The two decoders read the same element in five formats, also where one of
\* them unpacks the scales of Q3_K word by word.
THEOREM DecodersAgreeWhereConsistent == Spec => []DecodersAgreeElsewhere
<1>1. BlockIInv => DecodersAgreeElsewhere
  <2> SUFFICES ASSUME BlockIInv, type \in (Small \ {"Q4_0"}) \cup {"Q3_K"}
               PROVE  DotValue(type, Position) = TensorValue(type, Position)
    BY DEF DecodersAgreeElsewhere, DecodersAgree, Now
  <2>1. Position \in 0 .. Span(type) - 1
    BY PositionType DEF BlockIInv
  <2>2. CASE type \in Small \ {"Q4_0"}
    BY <2>1, <2>2, SmallAgree DEF DotValue, Span
  <2>3. CASE type = "Q3_K"
    <3>1. /\ Position \in 0 .. 255
          /\ DotValue(type, Position) = KRecipe("Q3_K", Position)
      BY <2>1, <2>3 DEF DotValue, Span, Small
    <3> QED BY <2>3, <3>1, Q3Agree
  <2> QED BY <2>2, <2>3
<1> QED BY <1>1, BlockInvariant, PTL
-----------------------------------------------------------------------------
(* The sums over a row *)

\* A call's variables have their types, and it has not left its tile.
Typed == /\ row \in Nat /\ tile \in Nat /\ start \in Nat /\ lane \in Nat
         /\ \A l \in DOMAIN widths : widths[l] \in Nat
         /\ start <= row /\ lane <= TileEnd

\* What is left of the next element has been used once, the others not yet.
UsedSoFar == used = [e \in 0 .. row - 1 |-> IF e < start + lane THEN 1 ELSE 0]

\* The inductive invariant.
DotIInv == kernel \in Kernels => Typed /\ UsedSoFar
-----------------------------------------------------------------------------
\* The tile of a call is a number, also where the budget says nothing.
LEMMA TileType ==
    ASSUME NEW k \in Kernels, NEW count \in Nat, NEW b \in Nat
    PROVE  TileLength(k, count, b) \in Nat
  BY DEF TileLength, ScalarBytes

\* The lanes of the loops are numbers.
LEMMA WidthsType ==
    ASSUME NEW k \in Kernels, NEW simd \in BOOLEAN
    PROVE  \A l \in DOMAIN Widths(k, simd) : Widths(k, simd)[l] \in Nat
<1>1. <<1>>[1] \in Nat /\ DOMAIN <<1>> = {1}
  OBVIOUS
<1>2. \A l \in DOMAIN VectorWidths[k] : VectorWidths[k][l] \in Nat
  BY DEF VectorWidths, Kernels
<1> QED BY <1>1, <1>2 DEF Widths

\* A call begins with nothing used.
LEMMA CallDot ==
    ASSUME NEW k \in Kernels, NEW simd \in BOOLEAN, NEW count \in Rows,
           NEW b \in Budgets, DotCall(k, simd, count, b)
    PROVE  DotIInv'
<1>1. count \in Nat /\ b \in Nat
  BY DotAssumption
<1>2. /\ row' = count /\ start' = 0 /\ lane' = 0
      /\ tile' = TileLength(k, count, b) /\ widths' = Widths(k, simd)
      /\ used' = [e \in 0 .. count - 1 |-> 0]
  BY DEF DotCall
<1>3. Typed'
  BY <1>1, <1>2, TileType, WidthsType DEF Typed, TileEnd
<1>4. UsedSoFar'
  BY <1>1, <1>2 DEF UsedSoFar
<1> QED BY <1>3, <1>4 DEF DotIInv

\* A loop adds its lanes to the right of what is used, and stays in the tile.
LEMMA LoopDot == ASSUME DotIInv, Loop PROVE DotIInv'
<1>1. kernel \in Kernels /\ Typed /\ UsedSoFar
  BY DEF Loop, DotIInv
<1>2. PICK l \in DOMAIN widths : Lanes(widths[l])
  BY DEF Loop
<1> DEFINE w == widths[l]
           next == start + lane
<1>3. w \in Nat /\ lane + w <= TileEnd
  BY <1>1, <1>2 DEF Typed, Lanes, Fits
<1>4. lane' = lane + w /\ UNCHANGED <<kernel, widths, row, tile, start>>
  BY <1>2 DEF Lanes
<1>5. TileEnd \in Int /\ TileEnd <= row - start
  BY <1>1 DEF TileEnd, Typed
<1>6. Typed'
  BY <1>1, <1>3, <1>4 DEF Typed, TileEnd
<1>7. UsedSoFar'
  <2> HIDE DEF w
  <2>1. DOMAIN used = 0 .. row - 1
    BY <1>1 DEF UsedSoFar
  <2>2. 0 .. row - 1 = DOMAIN used \cup (next .. next + w - 1)
    <3>1. next \in Nat /\ next + w <= row
      BY <1>1, <1>3, <1>5 DEF Typed
    <3> HIDE DEF next
    <3>2. next .. next + w - 1 \subseteq 0 .. row - 1
      BY <1>1, <1>3, <3>1 DEF Typed
    <3> QED BY <2>1, <3>2
  <2>3. used' = [e \in DOMAIN used \cup (next .. next + w - 1) |->
                   (IF e \in DOMAIN used THEN used[e] ELSE 0) +
                   (IF e - start \in lane .. lane + w - 1 THEN 1 ELSE 0)]
    BY <1>2 DEF Lanes, w
  <2>4. \A e \in 0 .. row - 1 :
          (IF e \in DOMAIN used THEN used[e] ELSE 0) +
          (IF e - start \in lane .. lane + w - 1 THEN 1 ELSE 0)
          = IF e < start + lane + w THEN 1 ELSE 0
    <3> SUFFICES ASSUME NEW e \in 0 .. row - 1
                 PROVE  used[e] +
                        (IF e - start \in lane .. lane + w - 1 THEN 1 ELSE 0)
                        = IF e < start + lane + w THEN 1 ELSE 0
      BY <2>1
    <3>1. used[e] = IF e < start + lane THEN 1 ELSE 0
      BY <1>1 DEF UsedSoFar
    <3>2. e - start \in lane .. lane + w - 1
            <=> e >= start + lane /\ e < start + lane + w
      BY <1>1, <1>3 DEF Typed
    <3> QED BY <3>1, <3>2, <1>1, <1>3 DEF Typed
  <2>5. used' = [e \in 0 .. row - 1 |->
                   IF e < start + lane + w THEN 1 ELSE 0]
    BY <2>2, <2>3, <2>4
  <2>6. start' + lane' = start + lane + w /\ row' = row
    BY <1>1, <1>3, <1>4 DEF Typed
  <2> QED BY <2>5, <2>6 DEF UsedSoFar
<1> QED BY <1>6, <1>7 DEF DotIInv

\* The next tile begins where the last one ends.
LEMMA TileDot == ASSUME DotIInv, NextDotTile PROVE DotIInv'
<1>1. kernel \in Kernels /\ Typed /\ UsedSoFar
  BY DEF NextDotTile, TileDone, DotIInv
<1>2. /\ lane >= TileEnd /\ start + tile < row
      /\ start' = start + tile /\ lane' = 0
      /\ UNCHANGED <<kernel, widths, row, tile, used>>
  BY DEF NextDotTile, TileDone
<1>3. lane = tile
  BY <1>1, <1>2 DEF Typed, TileEnd
<1>4. Typed'
  BY <1>1, <1>2 DEF Typed, TileEnd
<1>5. start' + lane' = start + lane
  BY <1>1, <1>2, <1>3 DEF Typed
<1> QED BY <1>1, <1>2, <1>4, <1>5 DEF DotIInv, UsedSoFar

\* Every step keeps the invariant.
LEMMA DotStep == DotIInv /\ [DotNext]_dotVars => DotIInv'
<1> SUFFICES ASSUME DotIInv, [DotNext]_dotVars PROVE DotIInv'
  OBVIOUS
<1>1. CASE \E k \in Kernels, simd \in BOOLEAN, count \in Rows, b \in Budgets :
             DotCall(k, simd, count, b)
  BY <1>1, CallDot
<1>2. CASE Loop
  BY <1>2, LoopDot
<1>3. CASE NextDotTile
  BY <1>3, TileDot
<1>4. CASE DotStopped
  BY <1>4 DEF DotStopped, DotIInv, Kernels, VectorWidths
<1>5. CASE UNCHANGED dotVars
  BY <1>5 DEF dotVars, DotIInv, Typed, TileEnd, UsedSoFar
<1> QED BY <1>1, <1>2, <1>3, <1>4, <1>5 DEF DotNext

\* The invariant holds in every state of a sum.
LEMMA DotInvariance == DotSpec => []DotIInv
<1>1. DotInit => DotIInv
  BY DEF DotInit, DotIInv, Kernels, VectorWidths
<1> QED BY <1>1, DotStep, PTL DEF DotSpec

\* dot_f16, dot_f32, axpy_f32, quant_dot and the avx row use every element of
\* the row once and read nothing beyond it, for all lengths and caches.
THEOREM EveryProductOnce == DotSpec => []ProductsOnce
<1>1. DotIInv => ProductsOnce
  <2> SUFFICES ASSUME DotIInv, kernel \in Kernels
               PROVE  /\ DOMAIN used = 0 .. row - 1
                      /\ \A e \in DOMAIN used : used[e] <= 1
                      /\ RowDone => \A e \in DOMAIN used : used[e] = 1
    BY DEF ProductsOnce
  <2>1. Typed /\ UsedSoFar
    BY DEF DotIInv
  <2>2. DOMAIN used = 0 .. row - 1
    BY <2>1 DEF UsedSoFar
  <2>3. \A e \in 0 .. row - 1 :
          used[e] = IF e < start + lane THEN 1 ELSE 0
    BY <2>1 DEF UsedSoFar
  <2>4. RowDone => start + lane >= row
    BY <2>1 DEF RowDone, TileDone, TileEnd, Typed
  <2>5. RowDone => \A e \in 0 .. row - 1 : e < start + lane
    BY <2>1, <2>4 DEF Typed
  <2> QED BY <2>2, <2>3, <2>5
<1> QED BY <1>1, DotInvariance, PTL
-----------------------------------------------------------------------------
(* The halves: division by powers of two *)

LEMMA TimesMono ==
    ASSUME NEW m \in Nat, NEW a \in Nat, NEW b \in Nat, a <= b
    PROVE  m * a <= m * b /\ m * a \in Nat /\ m * b \in Nat
<1>1. PICK d \in Nat : b = a + d
  BY SMT
<1>2. m * b = m * a + m * d /\ m * d >= 0 /\ m * a \in Nat /\ m * d \in Nat
  BY <1>1, SMT
<1> QED BY <1>2, SMT

LEMMA QuotientIs ==
    ASSUME NEW x \in Nat, NEW d \in Nat, d > 0, NEW k \in Nat,
           d * k <= x, x < d * k + d
    PROVE  x \div d = k /\ x % d = x - d * k
<1> DEFINE q == x \div d
           r == x % d
<1>1. q \in Nat /\ r \in Nat /\ r < d /\ x = d * q + r
  BY SMT
<1> HIDE DEF q, r
<1>2. d * (q + 1) = d * q + d /\ d * (k + 1) = d * k + d
      /\ d * q \in Nat /\ d * k \in Nat
  BY <1>1, SMT
<1>3. ~(q < k)
  <2>1. q + 1 <= k => d * (q + 1) <= d * k
    BY <1>1, TimesMono
  <2> QED BY <1>1, <1>2, <2>1, SMT
<1>4. ~(k < q)
  <2>1. k + 1 <= q => d * (k + 1) <= d * q
    BY <1>1, TimesMono
  <2> QED BY <1>1, <1>2, <2>1, SMT
<1>5. q = k
  BY <1>1, <1>3, <1>4, SMT
<1>6. r = x - d * k
  BY <1>1, <1>2, <1>5, SMT
<1> QED BY <1>5, <1>6 DEF q, r

\* The low bits are rounded off to the nearer multiple, and up from the middle.
LEMMA RoundedIs ==
    ASSUME NEW x \in Nat, NEW bits \in Nat, NEW c \in Nat, c > 0,
           Pow2(bits - 1) = c, Pow2(bits) = 2 * c, NEW k \in Nat,
           2 * c * k <= x, x < 2 * c * k + 2 * c
    PROVE  Rounded(x, bits) = IF x < 2 * c * k + c THEN k ELSE k + 1
<1> DEFINE d == 2 * c
           a == d * k
<1>0. d \in Nat /\ d > 0 /\ a \in Nat /\ d = 2 * c
      /\ c * (2 * k) = a /\ c * (2 * k + 1) = a + c
      /\ a <= x /\ x < a + d
  BY SMT
<1>1. x \div d = k
  <2> HIDE DEF d
  <2> QED BY <1>0, QuotientIs
<1> HIDE DEF a
<1>2. CASE x < a + c
  <2>1. x \div c = 2 * k
    <3>1. 2 * k \in Nat /\ c * (2 * k) <= x /\ x < c * (2 * k) + c
      BY <1>0, <1>2, SMT
    <3> QED BY <3>1, QuotientIs
  <2>2. (2 * k) % 2 = 0
    BY SMT
  <2>3. Rounded(x, bits) = k + 0
    BY <1>1, <2>1, <2>2 DEF Rounded
  <2>4. k + 0 = k
    BY SMT
  <2> QED BY <1>2, <2>3, <2>4 DEF a
<1>3. CASE ~(x < a + c)
  <2>1. x \div c = 2 * k + 1
    <3>1. 2 * k + 1 \in Nat /\ c * (2 * k + 1) <= x /\ x < c * (2 * k + 1) + c
      BY <1>0, <1>3, SMT
    <3> QED BY <3>1, QuotientIs
  <2>2. (2 * k + 1) % 2 = 1
    BY SMT
  <2>3. Rounded(x, bits) = k + 1
    BY <1>1, <2>1, <2>2 DEF Rounded
  <2> QED BY <1>3, <2>3 DEF a
<1> QED BY <1>2, <1>3

LEMMA PowersOfTwo ==
    ASSUME NEW p \in 0 .. 9
    PROVE  /\ Pow2(p) \in Nat /\ Pow2(22 - p) \in Nat /\ Pow2(22 - p) >= 2
           /\ Pow2(p) >= 1 /\ Pow2(p) <= 512
           /\ Pow2(p + 1) = 2 * Pow2(p) /\ Pow2(23 - p) = 2 * Pow2(22 - p)
           /\ Pow2(p) * Pow2(23 - p) = 2^23 /\ Pow2(10 - p) \in Nat
           /\ Pow2(p) * Pow2(10 - p) = 1024
           /\ Pow2(10 - p) * 2^13 = Pow2(23 - p)
<1>0. CASE p = 0
  BY <1>0, SMT DEF Pow2
<1>1. CASE p = 1
  BY <1>1, SMT DEF Pow2
<1>2. CASE p = 2
  BY <1>2, SMT DEF Pow2
<1>3. CASE p = 3
  BY <1>3, SMT DEF Pow2
<1>4. CASE p = 4
  BY <1>4, SMT DEF Pow2
<1>5. CASE p = 5
  BY <1>5, SMT DEF Pow2
<1>6. CASE p = 6
  BY <1>6, SMT DEF Pow2
<1>7. CASE p = 7
  BY <1>7, SMT DEF Pow2
<1>8. CASE p = 8
  BY <1>8, SMT DEF Pow2
<1>9. CASE p = 9
  BY <1>9, SMT DEF Pow2
<1> QED BY <1>0, <1>1, <1>2, <1>3, <1>4, <1>5, <1>6, <1>7, <1>8, <1>9, SMT

\* The highest bit of w is bit p.
Leads(p, w) == Pow2(p) <= w /\ w < Pow2(p + 1)

LEMMA LeadingBit ==
    ASSUME NEW w \in Nat, 1 <= w, w < 1024
    PROVE  \E p \in 0 .. 9 : Leads(p, w)
<1>0. CASE w < 2
  <2>1. Leads(0, w)
    BY <1>0, SMT DEF Leads, Pow2
  <2> QED BY <2>1, SMT
<1>1. CASE 2 <= w /\ w < 4
  <2>1. Leads(1, w)
    BY <1>1, SMT DEF Leads, Pow2
  <2> QED BY <2>1, SMT
<1>2. CASE 4 <= w /\ w < 8
  <2>1. Leads(2, w)
    BY <1>2, SMT DEF Leads, Pow2
  <2> QED BY <2>1, SMT
<1>3. CASE 8 <= w /\ w < 16
  <2>1. Leads(3, w)
    BY <1>3, SMT DEF Leads, Pow2
  <2> QED BY <2>1, SMT
<1>4. CASE 16 <= w /\ w < 32
  <2>1. Leads(4, w)
    BY <1>4, SMT DEF Leads, Pow2
  <2> QED BY <2>1, SMT
<1>5. CASE 32 <= w /\ w < 64
  <2>1. Leads(5, w)
    BY <1>5, SMT DEF Leads, Pow2
  <2> QED BY <2>1, SMT
<1>6. CASE 64 <= w /\ w < 128
  <2>1. Leads(6, w)
    BY <1>6, SMT DEF Leads, Pow2
  <2> QED BY <2>1, SMT
<1>7. CASE 128 <= w /\ w < 256
  <2>1. Leads(7, w)
    BY <1>7, SMT DEF Leads, Pow2
  <2> QED BY <2>1, SMT
<1>8. CASE 256 <= w /\ w < 512
  <2>1. Leads(8, w)
    BY <1>8, SMT DEF Leads, Pow2
  <2> QED BY <2>1, SMT
<1>9. CASE 512 <= w
  <2>1. Leads(9, w)
    BY <1>9, SMT DEF Leads, Pow2
  <2> QED BY <2>1, SMT
<1> QED BY <1>0, <1>1, <1>2, <1>3, <1>4, <1>5, <1>6, <1>7, <1>8, <1>9, SMT

\* A greater power is at least twice a lesser one.
LEMMA PowersGrow ==
    ASSUME NEW p \in 0 .. 10, NEW q \in 0 .. 10, p < q
    PROVE  Pow2(p) \in Nat /\ Pow2(q) \in Nat /\ 2 * Pow2(p) <= Pow2(q)
<1> DEFINE Value(m) ==
             /\ m = 0 => Pow2(m) = 1
             /\ m = 1 => Pow2(m) = 2
             /\ m = 2 => Pow2(m) = 4
             /\ m = 3 => Pow2(m) = 8
             /\ m = 4 => Pow2(m) = 16
             /\ m = 5 => Pow2(m) = 32
             /\ m = 6 => Pow2(m) = 64
             /\ m = 7 => Pow2(m) = 128
             /\ m = 8 => Pow2(m) = 256
             /\ m = 9 => Pow2(m) = 512
             /\ m = 10 => Pow2(m) = 1024
<1>1. ASSUME NEW m \in 0 .. 10 PROVE Value(m)
  <2>0. CASE m = 0
    BY <2>0, SMT DEF Pow2
  <2>1. CASE m = 1
    BY <2>1, SMT DEF Pow2
  <2>2. CASE m = 2
    BY <2>2, SMT DEF Pow2
  <2>3. CASE m = 3
    BY <2>3, SMT DEF Pow2
  <2>4. CASE m = 4
    BY <2>4, SMT DEF Pow2
  <2>5. CASE m = 5
    BY <2>5, SMT DEF Pow2
  <2>6. CASE m = 6
    BY <2>6, SMT DEF Pow2
  <2>7. CASE m = 7
    BY <2>7, SMT DEF Pow2
  <2>8. CASE m = 8
    BY <2>8, SMT DEF Pow2
  <2>9. CASE m = 9
    BY <2>9, SMT DEF Pow2
  <2>10. CASE m = 10
    BY <2>10, SMT DEF Pow2
  <2> QED BY <2>0, <2>1, <2>2, <2>3, <2>4, <2>5, <2>6, <2>7, <2>8, <2>9, <2>10,
             SMT
<1>2. Value(p) /\ Value(q)
  <2> HIDE DEF Value
  <2> QED BY <1>1
<1> QED BY <1>2, SMT
-----------------------------------------------------------------------------
(* Decoding *)

\* A number of shifts that brings the leading bit to bit 10 is the only one.
LEMMA ShiftIsOwn ==
    ASSUME NEW w \in Nat, NEW s \in 0 .. 10, NEW t \in 0 .. 10,
           w * Pow2(s) >= 1024, w * Pow2(s) <= 2047,
           w * Pow2(t) >= 1024, w * Pow2(t) <= 2047
    PROVE  s = t
<1>1. ASSUME NEW x \in 0 .. 10, NEW y \in 0 .. 10, x < y,
             w * Pow2(x) >= 1024, w * Pow2(y) <= 2047
      PROVE  FALSE
  <2>1. Pow2(x) \in Nat /\ Pow2(y) \in Nat /\ 2 * Pow2(x) <= Pow2(y)
    BY <1>1, PowersGrow
  <2>2. 2 * Pow2(x) \in Nat
    BY <2>1, SMT
  <2>3. w * (2 * Pow2(x)) <= w * Pow2(y)
    BY <2>1, <2>2, TimesMono
  <2>4. /\ w * (2 * Pow2(x)) = 2 * (w * Pow2(x))
        /\ w * Pow2(x) \in Nat /\ w * Pow2(y) \in Nat
    BY <2>1, SMT
  <2> QED BY <1>1, <2>3, <2>4, SMT
<1>2. ~(s < t)
  BY <1>1
<1>3. ~(t < s)
  BY <1>1
<1> QED BY <1>2, <1>3, SMT

\* Nor is another bit the leading one.
LEMMA LeadIsOwn ==
    ASSUME NEW w \in Nat, NEW p \in 0 .. 9, NEW q \in 0 .. 9,
           Leads(p, w), Leads(q, w)
    PROVE  p = q
<1>1. ASSUME NEW x \in 0 .. 9, NEW y \in 0 .. 9, x < y,
             w < Pow2(x + 1), Pow2(y) <= w
      PROVE  FALSE
  <2>1. x \in 0 .. 10 /\ y \in 0 .. 10
    BY SMT
  <2>2. Pow2(x) \in Nat /\ Pow2(y) \in Nat /\ 2 * Pow2(x) <= Pow2(y)
    BY <1>1, <2>1, PowersGrow
  <2>3. Pow2(x + 1) = 2 * Pow2(x)
    BY PowersOfTwo
  <2> QED BY <1>1, <2>2, <2>3, SMT
<1>2. ~(p < q) /\ ~(q < p)
  BY <1>1 DEF Leads
<1> QED BY <1>2, SMT

\* A half below 2^10 is subnormal: its leading bit tells the exponent.
LEMMA SubnormalFloat ==
    ASSUME NEW p \in 0 .. 9, NEW w \in Nat, Leads(p, w)
    PROVE  /\ w < 1024
           /\ ToFloat(w) = (p + 102) * 2^23 + w * Pow2(23 - p)
           /\ DotWeight(w) = (p + 102) * 2^23 + w * Pow2(23 - p)
<1> DEFINE a == Pow2(p)
           c == Pow2(10 - p)
           d == Pow2(23 - p)
<1>1. /\ a \in Nat /\ a >= 1 /\ a <= 512 /\ c \in Nat /\ d \in Nat
      /\ a * d = 2^23 /\ a * c = 1024 /\ c * 2^13 = d
      /\ a <= w /\ w < 2 * a
  <2>1. Pow2(p) <= w /\ w < Pow2(p + 1)
    BY DEF Leads
  <2>2. /\ a \in Nat /\ a >= 1 /\ a <= 512 /\ c \in Nat /\ Pow2(p + 1) = 2 * a
        /\ Pow2(22 - p) \in Nat /\ d = 2 * Pow2(22 - p)
        /\ a * d = 2^23 /\ a * c = 1024 /\ c * 2^13 = d
    BY PowersOfTwo
  <2>3. d \in Nat
    BY <2>2, SMT
  <2> QED BY <2>1, <2>2, <2>3
<1> HIDE DEF a, c, d
<1>2. w < 1024 /\ w >= 1
  BY <1>1, SMT
<1>3. w \div 1024 = 0 /\ w % 1024 = w
  BY <1>2, SMT
<1>4. w * c >= 1024 /\ w * c <= 2047 /\ w * c \in Nat
  <2>1. c * a <= c * w /\ c * (w + 1) <= c * (2 * a)
    BY <1>1, TimesMono, SMT
  <2>2. c * a = a * c /\ c * w = w * c /\ c * (w + 1) = w * c + c
        /\ c * (2 * a) = 2 * (a * c) /\ w * c \in Nat
    BY <1>1, SMT
  <2>3. c >= 1
    BY <1>1, SMT
  <2> QED BY <1>1, <2>1, <2>2, <2>3, SMT
<1>5. Shifts(w) = 10 - p
  <2> DEFINE t == 10 - p
  <2>1. t \in 1 .. 10 /\ t \in 0 .. 10
    BY SMT
  <2>2. w * Pow2(t) >= 1024 /\ w * Pow2(t) <= 2047 /\ w * Pow2(t) \in Nat
    BY <1>4, SMT DEF c
  <2> HIDE DEF t
  <2>3. ASSUME NEW s \in 1 .. 10, w * Pow2(s) \in 1024 .. 2047
        PROVE  s = t
    <3>1. s \in 0 .. 10
      BY SMT
    <3>2. w * Pow2(s) >= 1024 /\ w * Pow2(s) <= 2047
      BY <2>3, SMT
    <3> QED BY <2>1, <2>2, <3>1, <3>2, ShiftIsOwn, SMT
  <2>4. w * Pow2(t) \in 1024 .. 2047
    BY <2>2, SMT
  <2> QED BY <2>1, <2>3, <2>4, SMT DEF Shifts, t
<1>6. (w * Pow2(Shifts(w))) % 1024 = w * c - 1024
  <2>1. w * Pow2(Shifts(w)) = w * c
    BY <1>5 DEF c
  <2> DEFINE y == w * c
  <2>2. y \in Nat /\ y >= 1024 /\ y <= 2047
    BY <1>4
  <2> HIDE DEF y
  <2>3. y % 1024 = y - 1024
    BY <2>2, SMT
  <2> QED BY <2>1, <2>3 DEF y
<1>7. ToFloat(w) = (p + 102) * 2^23 + w * d
  <2>1. SubnormalExp(w) + 112 = p + 103
    BY <1>5, SMT DEF SubnormalExp
  <2>2. ToFloat(w) = (p + 103) * 2^23 + (w * c - 1024) * 2^13
    <3>1. ToFloat(w) = (SubnormalExp(w) + 112) * 2^23
                       + ((w * Pow2(Shifts(w))) % 1024) * 2^13
      <4>1. w # 0
        BY <1>2, SMT
      <4> QED BY <1>3, <4>1 DEF ToFloat
    <3> QED BY <1>6, <2>1, <3>1
  <2>3. (w * c) * 2^13 = w * d
    BY <1>1, SMT
  <2> QED BY <1>4, <2>2, <2>3, SMT
<1>8. DotWeight(w) = (p + 102) * 2^23 + w * d
  <2> DEFINE L(b) == w \in Pow2(b) .. Pow2(b + 1) - 1
             b == CHOOSE b \in 0 .. 9 : L(b)
  <2>1. \A q \in 0 .. 9 : L(q) <=> Leads(q, w)
    <3> TAKE q \in 0 .. 9
    <3>1. Pow2(q) \in Nat /\ Pow2(q + 1) = 2 * Pow2(q)
      BY PowersOfTwo
    <3> DEFINE lower == Pow2(q)
               upper == Pow2(q + 1)
    <3>2. lower \in Nat /\ upper \in Nat
      BY <3>1, SMT
    <3> HIDE DEF lower, upper
    <3>3. w \in lower .. upper - 1 <=> lower <= w /\ w < upper
      BY <3>2, SMT
    <3> QED BY <3>3 DEF Leads, lower, upper
  <2>2. b = p
    <3>1. L(p) /\ \A q \in 0 .. 9 : L(q) => q = p
      BY <2>1, LeadIsOwn
    <3> HIDE DEF L
    <3> QED BY <3>1
  <2>3. Ldexp(w, -24) = (p + -24 + 127) * 2^23 + (w - a) * d
    BY <2>2 DEF Ldexp, a, d
  <2>4. DotWeight(w) = Ldexp(w, -24)
    <3>1. w # 0
      BY <1>2, SMT
    <3> QED BY <1>3, <3>1 DEF DotWeight
  <2>5. (w - a) * d = w * d - a * d /\ p + -24 + 127 = p + 103
        /\ w * d \in Nat
    BY <1>1, SMT
  <2> HIDE DEF b, L
  <2> QED BY <1>1, <2>3, <2>4, <2>5, SMT
<1> QED BY <1>2, <1>7, <1>8 DEF d

\* The half with exponent e, not 0, and mantissa m.
Normal(e, m) == 1024 * e + m

\* The others keep their exponent, which is moved.
LEMMA NormalFloat ==
    ASSUME NEW e \in 1 .. 30, NEW m \in Nat, m < 1024
    PROVE  /\ ToFloat(Normal(e, m)) = (e + 112) * 2^23 + m * 2^13
           /\ DotWeight(Normal(e, m)) = (e + 112) * 2^23 + m * 2^13
<1> DEFINE w == Normal(e, m)
<1>1. w \in Nat /\ w \div 1024 = e /\ w % 1024 = m /\ e # 0 /\ e # 31
  BY SMT DEF Normal
<1> HIDE DEF w
<1> QED BY <1>1 DEF ToFloat, DotWeight, w
-----------------------------------------------------------------------------
(* Encoding *)

\* From a subnormal half to the next one, floats are rounded to the nearer.
LEMMA SubnormalRounds ==
    ASSUME NEW p \in 0 .. 9, NEW w \in Nat, Leads(p, w), NEW f \in Nat,
           ToFloat(w) <= f, f < ToFloat(w) + 2 * Pow2(22 - p)
    PROVE  ToHalf(f) = IF f < ToFloat(w) + Pow2(22 - p) THEN w ELSE w + 1
<1> DEFINE a == Pow2(p)
           c == Pow2(22 - p)
           g == (p + 102) * 2^23
           x == f - g
<1>1. /\ a \in Nat /\ c \in Nat /\ c > 0 /\ a * (2 * c) = 2^23
      /\ Pow2(23 - p) = 2 * c /\ a <= w /\ w < 2 * a
  <2>1. /\ a \in Nat /\ c \in Nat /\ c >= 2 /\ Pow2(23 - p) = 2 * c
        /\ a * Pow2(23 - p) = 2^23 /\ Pow2(p + 1) = 2 * a
    BY PowersOfTwo
  <2>2. a <= w /\ w < Pow2(p + 1)
    BY DEF Leads
  <2> QED BY <2>1, <2>2, SMT
<1>2. ToFloat(w) = g + w * (2 * c)
  <2>1. ToFloat(w) = g + w * Pow2(23 - p)
    BY SubnormalFloat, SMT
  <2> HIDE DEF g, c
  <2> QED BY <1>1, <2>1, SMT
<1>3. f < ToFloat(w) + 2 * c
  OBVIOUS
<1> HIDE DEF a, c
<1>4. g \in Nat
  BY SMT
<1>5. /\ 2^23 <= w * (2 * c) /\ w * (2 * c) + 2 * c <= 2 * 2^23
      /\ w * (2 * c) \in Nat
  <2>1. (2 * c) * a <= (2 * c) * w /\ (2 * c) * (w + 1) <= (2 * c) * (2 * a)
    <3>1. 2 * c \in Nat /\ w + 1 \in Nat /\ 2 * a \in Nat /\ w + 1 <= 2 * a
      BY <1>1, SMT
    <3> QED BY <1>1, <3>1, TimesMono, SMT
  <2>2. /\ (2 * c) * a = a * (2 * c) /\ (2 * c) * w = w * (2 * c)
        /\ (2 * c) * (w + 1) = w * (2 * c) + 2 * c
        /\ (2 * c) * (2 * a) = 2 * (a * (2 * c)) /\ w * (2 * c) \in Nat
    BY <1>1, SMT
  <2> QED BY <1>1, <2>1, <2>2, SMT
<1>6. /\ x \in Nat /\ f = g + x /\ w * (2 * c) <= x
      /\ x < w * (2 * c) + 2 * c
      /\ 2^23 <= x /\ x < 2 * 2^23
  <2> HIDE DEF g
  <2>1. g + w * (2 * c) <= f /\ f < g + w * (2 * c) + 2 * c
    BY <1>2, <1>3, SMT
  <2> QED BY <1>1, <1>4, <1>5, <2>1, SMT
<1>7. f \div 2^23 = p + 103 /\ f % 2^23 = x - 2^23
  <2>1. /\ 2^23 \in Nat /\ 2^23 > 0 /\ p + 103 \in Nat
        /\ 2^23 * (p + 103) = g + 2^23
    BY SMT
  <2> HIDE DEF x, g
  <2>2. /\ 2^23 * (p + 103) <= f /\ f < 2^23 * (p + 103) + 2^23
        /\ f - 2^23 * (p + 103) = x - 2^23
    BY <1>4, <1>6, <2>1, SMT
  <2> QED BY <2>1, <2>2, QuotientIs, SMT
<1> HIDE DEF x, g
<1>8. ToHalf(f) = Rounded(x, 23 - p)
  <2>1. /\ (p + 103) - 127 = p - 24 /\ ~(p - 24 > 15) /\ ~(p - 24 < -24)
        /\ p - 24 \in -24 .. -15 /\ (x - 2^23) + 2^23 = x
        /\ -(p - 24) - 14 + 13 = 23 - p
    BY <1>6, SMT
  <2> QED BY <1>7, <2>1, SMT DEF ToHalf
<1>9. Rounded(x, 23 - p) = IF x < 2 * c * w + c THEN w ELSE w + 1
  <2>1. /\ 23 - p \in Nat /\ (23 - p) - 1 = 22 - p
        /\ 2 * c * w = w * (2 * c)
    BY <1>1, SMT
  <2>2. Pow2((23 - p) - 1) = c /\ Pow2(23 - p) = 2 * c
    BY <1>1, <2>1 DEF c
  <2> QED BY <1>1, <1>6, <2>1, <2>2, RoundedIs, SMT
<1>10. x < 2 * c * w + c <=> f < ToFloat(w) + c
  <2>1. 2 * c * w = w * (2 * c)
    BY <1>1, SMT
  <2> QED BY <1>1, <1>2, <1>4, <1>5, <1>6, <2>1, SMT
<1> QED BY <1>8, <1>9, <1>10 DEF c

\* The same between two others, also where the mantissa overflows.
LEMMA NormalRounds ==
    ASSUME NEW e \in 1 .. 30, NEW m \in Nat, m < 1024, NEW f \in Nat,
           NEW c \in Nat, c = 2^12,
           ToFloat(Normal(e, m)) <= f, f < ToFloat(Normal(e, m)) + 2 * c
    PROVE  ToHalf(f) = IF f < ToFloat(Normal(e, m)) + c
                       THEN Normal(e, m) ELSE Normal(e, m) + 1
<1> DEFINE g == (e + 112) * 2^23
           x == f - g
           lo == ToFloat(Normal(e, m))
<1>1. lo = g + m * 2^13
  BY NormalFloat, SMT
<1>2. lo <= f /\ f < lo + 2 * 2^12
  OBVIOUS
<1> HIDE DEF lo
<1>3. /\ g \in Nat /\ x \in Nat /\ f = g + x
      /\ 2 * 2^12 * m <= x /\ x < 2 * 2^12 * m + 2 * 2^12 /\ x < 2^23
      /\ (x < 2 * 2^12 * m + 2^12 <=> f < lo + 2^12)
  BY <1>1, <1>2, SMT
<1>4. f \div 2^23 = e + 112 /\ f % 2^23 = x
  <2>1. /\ 2^23 \in Nat /\ 2^23 > 0 /\ e + 112 \in Nat
        /\ 2^23 * (e + 112) = g
    BY SMT
  <2> HIDE DEF x, g
  <2>2. /\ 2^23 * (e + 112) <= f /\ f < 2^23 * (e + 112) + 2^23
        /\ f - 2^23 * (e + 112) = x
    BY <1>3, <2>1, SMT
  <2> QED BY <2>1, <2>2, QuotientIs, SMT
<1> HIDE DEF x, g
<1>5. ToHalf(f) = Packed(e, Rounded(x, 13))
  <2>1. /\ (e + 112) - 127 = e - 15 /\ ~(e - 15 > 15) /\ ~(e - 15 < -24)
        /\ ~(e - 15 \in -24 .. -15) /\ (e - 15) + 15 = e
    BY SMT
  <2> QED BY <1>4, <2>1, SMT DEF ToHalf
<1>6. Rounded(x, 13) = IF x < 2 * 2^12 * m + 2^12 THEN m ELSE m + 1
  <2>1. 13 \in Nat /\ 2^12 \in Nat /\ 2^12 > 0
    BY SMT
  <2>2. Pow2(13 - 1) = 2^12 /\ Pow2(13) = 2 * 2^12
    BY SMT DEF Pow2
  <2> QED BY <1>3, <2>1, <2>2, RoundedIs, SMT
<1>7. \A h \in Nat : h <= 1024 => Packed(e, h) = Normal(e, h)
  BY SMT DEF Packed, Normal
<1>8. m <= 1024 /\ m + 1 <= 1024 /\ m + 1 \in Nat
      /\ Normal(e, m + 1) = Normal(e, m) + 1
  BY SMT DEF Normal
<1> QED BY <1>3, <1>5, <1>6, <1>7, <1>8, SMT DEF lo

\* From the last float of a binade on, the next begins.
LEMMA SubnormalStep ==
    ASSUME NEW p \in 0 .. 9, NEW w \in Nat, Leads(p, w)
    PROVE  /\ ToFloat(w) \in Nat
           /\ FloatAfter(w) = ToFloat(w) + 2 * Pow2(22 - p)
<1> DEFINE a == Pow2(p)
           d == Pow2(23 - p)
           c == Pow2(22 - p)
<1>1. /\ a \in Nat /\ c \in Nat /\ d = 2 * c /\ a * d = 2^23
      /\ Pow2(p + 1) = 2 * a /\ a <= w /\ w < 2 * a
  <2>1. Pow2(p) <= w /\ w < Pow2(p + 1)
    BY DEF Leads
  <2> QED BY <2>1, PowersOfTwo
<1>2. w < 1024 /\ ToFloat(w) = (p + 102) * 2^23 + w * d
  BY SubnormalFloat
<1> HIDE DEF a, c, d
<1>3. w * d \in Nat /\ (w + 1) * d = w * d + d /\ d \in Nat /\ d = 2 * c
  BY <1>1, SMT
<1>4. ToFloat(w) \in Nat
  BY <1>2, <1>3, SMT
<1>5. FloatAfter(w) = ToFloat(w + 1)
  BY <1>2, SMT DEF FloatAfter, HalfInf
<1>6. CASE w + 1 < 2 * a
  <2>1. Leads(p, w + 1) /\ w + 1 \in Nat
    BY <1>1, <1>6, SMT DEF Leads, a
  <2>2. ToFloat(w + 1) = (p + 102) * 2^23 + (w + 1) * d
    BY <2>1, SubnormalFloat DEF d
  <2> QED BY <1>2, <1>3, <1>4, <1>5, <2>2, SMT DEF c
<1>7. CASE ~(w + 1 < 2 * a)
  <2>1. w + 1 = 2 * a
    BY <1>1, <1>7, SMT
  <2>2. (w + 1) * d = 2 * 2^23
    <3>1. (2 * a) * d = 2 * (a * d)
      BY <1>1, SMT
    <3> QED BY <1>1, <2>1, <3>1
  <2>3. ToFloat(w + 1) = (p + 104) * 2^23
    <3>1. CASE p = 9
      <4>1. Pow2(p + 1) = 1024
        BY <3>1, SMT DEF Pow2
      <4>2. w + 1 = Normal(1, 0)
        BY <1>1, <2>1, <4>1, SMT DEF Normal
      <4>3. ToFloat(Normal(1, 0)) = (1 + 112) * 2^23 + 0 * 2^13
        BY NormalFloat, SMT
      <4> QED BY <3>1, <4>2, <4>3, SMT
    <3>2. CASE p # 9
      <4> DEFINE q == p + 1
                 b == Pow2(q)
                 g == Pow2(23 - q)
      <4>1. q \in 0 .. 9 /\ w + 1 \in Nat
        BY <3>2, SMT
      <4>2. Pow2(q) = w + 1 /\ q = p + 1
        BY <1>1, <2>1
      <4> HIDE DEF q
      <4>3. Pow2(q) >= 1 /\ Pow2(q + 1) = 2 * Pow2(q) /\ b * g = 2^23
        BY <4>1, PowersOfTwo
      <4>4. Leads(q, w + 1)
        BY <4>1, <4>2, <4>3, SMT DEF Leads
      <4>5. ToFloat(w + 1) = (q + 102) * 2^23 + (w + 1) * Pow2(23 - q)
        BY <4>1, <4>4, SubnormalFloat
      <4>6. (w + 1) * Pow2(23 - q) = 2^23
        BY <4>2, <4>3
      <4> QED BY <4>2, <4>5, <4>6, SMT
    <3> QED BY <3>1, <3>2
  <2> QED BY <1>2, <1>3, <1>4, <1>5, <2>2, <2>3, SMT DEF c
<1> QED BY <1>4, <1>6, <1>7

LEMMA NormalStep ==
    ASSUME NEW e \in 1 .. 30, NEW m \in Nat, m < 1024
    PROVE  /\ ToFloat(Normal(e, m)) \in Nat
           /\ FloatAfter(Normal(e, m)) = ToFloat(Normal(e, m)) + 2 * 2^12
<1> DEFINE w == Normal(e, m)
<1>1. w \in Nat /\ w = Normal(e, m) /\ w = 1024 * e + m
  BY SMT DEF Normal
<1>2. ToFloat(w) = (e + 112) * 2^23 + m * 2^13
  BY NormalFloat
<1> HIDE DEF w
<1>3. ToFloat(w) \in Nat
  BY <1>2, SMT
<1>4. CASE m + 1 < 1024
  <2>1. FloatAfter(w) = ToFloat(w + 1)
    BY <1>1, <1>4, SMT DEF FloatAfter, HalfInf
  <2>2. w + 1 = Normal(e, m + 1) /\ m + 1 \in Nat
    BY <1>1, SMT DEF Normal
  <2>3. ToFloat(w + 1) = (e + 112) * 2^23 + (m + 1) * 2^13
    BY <1>4, <2>2, NormalFloat
  <2> QED BY <1>2, <1>3, <2>1, <2>3, SMT DEF w
<1>5. CASE ~(m + 1 < 1024)
  <2>1. m = 1023
    BY <1>5, SMT
  <2>2. FloatAfter(w) = (e + 113) * 2^23
    <3>1. CASE e = 30
      <4>1. w = HalfInf - 1
        BY <1>1, <2>1, <3>1, SMT DEF HalfInf
      <4> QED BY <3>1, <4>1, SMT DEF FloatAfter
    <3>2. CASE e # 30
      <4>1. FloatAfter(w) = ToFloat(w + 1)
        BY <1>1, <2>1, <3>2, SMT DEF FloatAfter, HalfInf
      <4>2. w + 1 = Normal(e + 1, 0) /\ e + 1 \in 1 .. 30 /\ 0 < 1024
        BY <1>1, <2>1, <3>2, SMT DEF Normal
      <4>3. ToFloat(Normal(e + 1, 0)) = ((e + 1) + 112) * 2^23 + 0 * 2^13
        <5> DEFINE k == e + 1
        <5>1. k \in 1 .. 30
          BY <4>2
        <5> HIDE DEF k
        <5>2. ToFloat(Normal(k, 0)) = (k + 112) * 2^23 + 0 * 2^13
          BY <5>1, NormalFloat, SMT
        <5> QED BY <5>2 DEF k
      <4> QED BY <4>1, <4>2, <4>3, SMT
    <3> QED BY <3>1, <3>2
  <2> QED BY <1>2, <1>3, <2>1, <2>2, SMT DEF w
<1> QED BY <1>3, <1>4, <1>5 DEF w

\* Of the floats from one half to the next, those in the lower part, below the
\* middle, go to the one, and the others to the other.
RoundsAt(w, c) ==
    /\ c \in Nat /\ c >= 2
    /\ ToFloat(w) \in Nat
    /\ FloatAfter(w) = ToFloat(w) + 2 * c
    /\ \A f \in Nat :
          ToFloat(w) <= f /\ f < FloatAfter(w) =>
             ToHalf(f) = IF f < ToFloat(w) + c THEN w ELSE w + 1

LEMMA RoundsSomewhere ==
    ASSUME NEW w \in Nat, 1 <= w, w < HalfInf
    PROVE  \E c \in Nat : RoundsAt(w, c)
<1>1. CASE w < 1024
  <2>1. PICK p \in 0 .. 9 : Leads(p, w)
    BY <1>1, LeadingBit
  <2> DEFINE c == Pow2(22 - p)
  <2>2. c \in Nat /\ c >= 2
    BY PowersOfTwo
  <2>3. ToFloat(w) \in Nat /\ FloatAfter(w) = ToFloat(w) + 2 * c
    BY <2>1, SubnormalStep
  <2>4. ASSUME NEW f \in Nat, ToFloat(w) <= f, f < FloatAfter(w)
        PROVE  ToHalf(f) = IF f < ToFloat(w) + c THEN w ELSE w + 1
    BY <2>1, <2>3, <2>4, SubnormalRounds
  <2> HIDE DEF c
  <2>5. RoundsAt(w, c)
    BY <2>2, <2>3, <2>4 DEF RoundsAt
  <2> QED BY <2>2, <2>5
<1>2. CASE ~(w < 1024)
  <2> DEFINE e == w \div 1024
             m == w % 1024
             c == 2^12
  <2>1. e \in 1 .. 30 /\ m \in Nat /\ m < 1024 /\ w = Normal(e, m)
    BY <1>2, SMT DEF HalfInf, Normal
  <2>2. c \in Nat /\ c >= 2
    BY SMT
  <2> HIDE DEF e, m
  <2>3. ToFloat(w) \in Nat /\ FloatAfter(w) = ToFloat(w) + 2 * c
    BY <2>1, NormalStep
  <2>4. ASSUME NEW f \in Nat, ToFloat(w) <= f, f < FloatAfter(w)
        PROVE  ToHalf(f) = IF f < ToFloat(w) + c THEN w ELSE w + 1
    <3> DEFINE lo == ToFloat(w)
               hi == FloatAfter(w)
    <3>1. f < lo + 2 * c
      <4>1. f < hi /\ hi = lo + 2 * c
        BY <2>3, <2>4
      <4> HIDE DEF lo, hi
      <4> QED BY <4>1
    <3>2. c = 2^12
      BY DEF c
    <3> HIDE DEF c
    <3>3. ToFloat(Normal(e, m)) <= f /\ f < ToFloat(Normal(e, m)) + 2 * c
      BY <2>1, <2>4, <3>1
    <3>4. ToHalf(f) = IF f < ToFloat(Normal(e, m)) + c
                      THEN Normal(e, m) ELSE Normal(e, m) + 1
      BY <2>1, <2>2, <2>4, <3>2, <3>3, NormalRounds, SMTT(20)
    <3> QED BY <2>1, <3>4
  <2> HIDE DEF c
  <2>5. RoundsAt(w, c)
    BY <2>2, <2>3, <2>4 DEF RoundsAt
  <2> QED BY <2>2, <2>5
<1> QED BY <1>1, <1>2

\* Every float has its half (float_to_half, with half_to_float for the values).
\* Between two halves it is the nearer one, and the larger one from the middle
\* on; below the least half it is zero; from where the half after the largest
\* would be, it is the infinity, also for what is not a number.
THEOREM EveryFloatIsRounded ==
    /\ \A w \in Nat : 1 <= w /\ w < HalfInf => \E c \in Nat : RoundsAt(w, c)
    /\ \A f \in Nat : f < ToFloat(1) => ToHalf(f) = 0
    /\ \A f \in Nat : FloatAfter(HalfInf - 1) <= f => ToHalf(f) = HalfInf
<1>1. ASSUME NEW w \in Nat, 1 <= w, w < HalfInf
      PROVE  \E c \in Nat : RoundsAt(w, c)
  BY <1>1, RoundsSomewhere
<1>2. ASSUME NEW f \in Nat, f < ToFloat(1)
      PROVE  ToHalf(f) = 0
  <2>1. Pow2(0) = 1 /\ Pow2(1) = 2 /\ 0 + 1 = 1 /\ 0 \in 0 .. 9
    BY SMT DEF Pow2
  <2>2. Leads(0, 1)
    BY <2>1, SMT DEF Leads
  <2>3. Pow2(0) * Pow2(23 - 0) = 2^23
    BY <2>1, PowersOfTwo
  <2>4. Pow2(22 - 0) \in Nat /\ Pow2(23 - 0) = 2 * Pow2(22 - 0)
    BY <2>1, PowersOfTwo
  <2>5. ToFloat(1) = (0 + 102) * 2^23 + 1 * Pow2(23 - 0)
    BY <2>1, <2>2, SubnormalFloat, SMT
  <2>6. ToFloat(1) = 103 * 2^23
    BY <2>1, <2>3, <2>4, <2>5, SMT
  <2>7. f \div 2^23 - 127 < -24 /\ ~(f \div 2^23 - 127 > 15)
    BY <1>2, <2>6, SMT
  <2> QED BY <2>7, SMT DEF ToHalf
<1>3. ASSUME NEW f \in Nat, FloatAfter(HalfInf - 1) <= f
      PROVE  ToHalf(f) = HalfInf
  <2>1. FloatAfter(HalfInf - 1) = 143 * 2^23
    BY SMT DEF FloatAfter
  <2>2. f \div 2^23 - 127 > 15
    BY <1>3, <2>1, SMT
  <2> QED BY <2>2, SMT DEF ToHalf
<1> QED BY <1>1, <1>2, <1>3

\* What a half weighs comes back as the same half, from both decoders.
LEMMA HalfComesBack ==
    ASSUME NEW w \in Nat, w < 2^15
    PROVE  /\ w <= HalfInf => ToHalf(ToFloat(w)) = w
           /\ DotWeight(w) = ToFloat(w)
<1>1. CASE w = 0
  <2>1. w \div 1024 = 0 /\ w % 1024 = 0
    BY <1>1, SMT
  <2>2. ToFloat(w) = 0 /\ DotWeight(w) = 0
    BY <2>1, <1>1, SMT DEF ToFloat, DotWeight
  <2>3. ToHalf(0) = 0
    BY SMT DEF ToHalf
  <2> QED BY <1>1, <2>2, <2>3
<1>2. CASE 1 <= w /\ w < HalfInf
  <2>1. PICK c \in Nat : RoundsAt(w, c)
    BY <1>2, RoundsSomewhere
  <2>2. ToHalf(ToFloat(w)) = w
    <3> DEFINE f == ToFloat(w)
    <3>1. /\ f \in Nat /\ ToFloat(w) <= f
          /\ f < FloatAfter(w) /\ f < ToFloat(w) + c
      BY <2>1, SMT DEF RoundsAt
    <3> QED BY <2>1, <3>1 DEF RoundsAt
  <2>3. DotWeight(w) = ToFloat(w)
    <3>1. CASE w < 1024
      <4>1. PICK p \in 0 .. 9 : Leads(p, w)
        BY <1>2, <3>1, LeadingBit
      <4> QED BY <4>1, SubnormalFloat
    <3>2. CASE ~(w < 1024)
      <4> DEFINE e == w \div 1024
                 m == w % 1024
      <4>1. e \in 1 .. 30 /\ m \in Nat /\ m < 1024 /\ w = Normal(e, m)
        BY <1>2, <3>2, SMT DEF HalfInf, Normal
      <4> HIDE DEF e, m
      <4> QED BY <4>1, NormalFloat
    <3> QED BY <3>1, <3>2
  <2> QED BY <2>2, <2>3
<1>3. CASE HalfInf <= w
  <2>1. w \div 1024 = 31 /\ w % 1024 = w - HalfInf /\ 31 # 0
    BY <1>3, SMT DEF HalfInf
  <2>2. ToFloat(w) = FloatInf + (w % 1024) * 2^13 /\ DotWeight(w) = ToFloat(w)
    BY <2>1, SMT DEF ToFloat, DotWeight
  <2>3. CASE w = HalfInf
    <3>1. ToFloat(w) = 255 * 2^23
      BY <2>1, <2>2, <2>3, SMT DEF HalfInf, FloatInf
    <3>2. (255 * 2^23) \div 2^23 - 127 > 15
      BY SMT
    <3>3. ToHalf(255 * 2^23) = HalfInf
      BY <3>2 DEF ToHalf
    <3> QED BY <2>2, <2>3, <3>1, <3>3
  <2>4. CASE w # HalfInf
    <3>1. ~(w <= HalfInf)
      BY <1>3, <2>4, SMT DEF HalfInf
    <3> QED BY <2>2, <3>1
  <2> QED BY <2>3, <2>4
<1>4. HalfInf \in Nat
  BY SMT DEF HalfInf
<1> QED BY <1>1, <1>2, <1>3, <1>4, SMT

HalfTypeOK == weight \in Nat /\ weight < 2^15

LEMMA HalfTypes == HalfSpec => []HalfTypeOK
<1>1. HalfInit => HalfTypeOK
  BY SMT DEF HalfInit, HalfTypeOK
<1>2. HalfTypeOK /\ [HalfNext]_weight => HalfTypeOK'
  BY SMT DEF HalfTypeOK, HalfNext
<1> QED BY <1>1, <1>2, PTL DEF HalfSpec

\* The two decoders of halves read the same number, and encoding it gives the
\* half it was read from, for each of the weights a tensor may hold.
THEOREM DecodersOfHalvesAgree == HalfSpec => []HalvesAgree
<1>1. HalfTypeOK => HalvesAgree
  BY HalfComesBack DEF HalfTypeOK, HalvesAgree
<1> QED BY <1>1, HalfTypes, PTL

\* Around the middle of two halves, and next to each of them, floats are stored
\* as the nearer one.
THEOREM RoundingIsToNearest == HalfSpec => []NearestHalf
<1>1. ASSUME HalfTypeOK, weight \in 1 .. HalfInf - 1
      PROVE  LET lo  == ToFloat(weight)
                 hi  == FloatAfter(weight)
                 mid == lo + (hi - lo) \div 2
             IN /\ ToHalf(mid) = weight + 1 /\ ToHalf(hi - 1) = weight + 1
                /\ ToHalf(mid - 1) = weight /\ ToHalf(lo + 1) = weight
  <2> DEFINE lo == ToFloat(weight)
             hi == FloatAfter(weight)
             mid == lo + (hi - lo) \div 2
  <2>1. weight \in Nat /\ 1 <= weight /\ weight < HalfInf
    BY <1>1, SMT DEF HalfInf
  <2>2. PICK c \in Nat : RoundsAt(weight, c)
    BY <2>1, RoundsSomewhere
  <2>3. c >= 2 /\ lo \in Nat /\ hi = lo + 2 * c
    BY <2>2 DEF RoundsAt
  <2>4. \A f \in Nat : lo <= f /\ f < hi =>
           ToHalf(f) = IF f < lo + c THEN weight ELSE weight + 1
    BY <2>2 DEF RoundsAt
  <2> HIDE DEF lo, hi
  <2>5. mid = lo + c
    BY <2>3, SMT
  <2> HIDE DEF mid
  <2>6. /\ mid \in Nat /\ lo <= mid /\ mid < hi /\ ~(mid < lo + c)
        /\ hi - 1 \in Nat /\ lo <= hi - 1 /\ hi - 1 < hi /\ ~(hi - 1 < lo + c)
        /\ mid - 1 \in Nat /\ lo <= mid - 1 /\ mid - 1 < hi /\ mid - 1 < lo + c
        /\ lo + 1 \in Nat /\ lo <= lo + 1 /\ lo + 1 < hi /\ lo + 1 < lo + c
    BY <2>3, <2>5, SMT
  <2>7. ToHalf(mid) = weight + 1
    BY <2>4, <2>6
  <2>8. ToHalf(hi - 1) = weight + 1
    BY <2>4, <2>6
  <2>9. ToHalf(mid - 1) = weight
    BY <2>4, <2>6
  <2>10. ToHalf(lo + 1) = weight
    BY <2>4, <2>6
  <2> QED BY <2>7, <2>8, <2>9, <2>10 DEF lo, hi, mid
<1>2. HalfTypeOK => NearestHalf
  BY <1>1 DEF NearestHalf
<1> QED BY <1>2, HalfTypes, PTL
===============================================================================
