------------------------------- MODULE Dequant -------------------------------
(***************************************************************************)
(* The two decoders of quantized tensors: quant_v2::value, which quant_dot *)
(* calls for every element of a row (src/quant_v2.cpp), and                *)
(* GgufTensor::value (src/gguf.cpp:17); and the size that the loader       *)
(* checks against the file (src/gguf.cpp:12,15,16), in size_t arithmetic.  *)
(*                                                                         *)
(* Shapes.  quant_dot and the embedding index by shape, and only tensors   *)
(* of rank two reach them (src/inference_v2.cpp:28,29): <<columns, rows>>. *)
(* They bound the index by nothing; GgufTensor::value throws from          *)
(* elements() on.                                                          *)
(*                                                                         *)
(* Data.  A decoder says from which bits of its block an element is made;  *)
(* the arithmetic it does with them (d * scale * (q - bias) - m * min) is  *)
(* the same in both.  A bit is <<byte, bit>>, a field the sequence of its  *)
(* bits from the lowest.                                                   *)
(***************************************************************************)
EXTENDS Integers, Sequences

CONSTANTS Types,        \* the quantized types of the tensors
          Shapes,       \* their shapes
          SizeMax       \* the greatest size_t

VARIABLES type,         \* the tensor that is decoded
          shape,        \* its columns and rows
          i,            \* the element that quant_dot is at
          quants,       \* history: quant bits of the block decoded before i
          metas         \* history: its scale, min, d and m bits

vars == <<type, shape, i, quants, metas>>

Small == {"Q4_0", "Q4_1", "Q5_0", "Q5_1", "Q8_0"}
KTypes == {"Q2_K", "Q3_K", "Q4_K", "Q5_K", "Q6_K"}

ASSUME DequantAssumption == /\ Types \subseteq Small \cup KTypes
                            /\ SizeMax \in Nat
                            /\ Shapes \subseteq (0 .. SizeMax) \X (0 .. SizeMax)

BlockSize == [Q4_0 |-> 18, Q4_1 |-> 20, Q5_0 |-> 22, Q5_1 |-> 24, Q8_0 |-> 34,
              Q2_K |-> 84, Q3_K |-> 110, Q4_K |-> 144, Q5_K |-> 176,
              Q6_K |-> 210]

Wrap(x) == x % (SizeMax + 1)

\* One turn of the loop of GgufTensor::elements.  After a dimension of 0 the
\* next turn divides by zero: 0 where the processor does not trap.
Times(e, dim) == IF e = 0 \/ dim > SizeMax \div e THEN 0 ELSE e * dim
Elements(s) == Times(Times(1, s[1]), s[2])

\* GgufTensor::bytes
Bytes_RoundedDown(t, s) == Wrap((Elements(s) \div 32) * BlockSize[t])
Bytes(t, s) == Wrap((Wrap(Elements(s) + 31) \div 32) * BlockSize[t])

\* The elements of a block.
Span(t) == IF t \in Small THEN 32 ELSE 256

Field(byte, lo, bits) ==
    [k \in 1 .. bits |-> <<byte + (lo + k - 1) \div 8, (lo + k - 1) % 8>>]
Nibble(byte, high) == Field(byte, IF high THEN 4 ELSE 0, 4)
Odd(k) == k % 2 = 1

\* A recipe: the quant's bits and bias, its scale and min, and the halves d, m.
Recipe(quant, bias, scale, min, d, m) ==
    [quant |-> quant, bias |-> bias, scale |-> scale, min |-> min,
     d |-> d, m |-> m]
F16At(byte) == Field(byte, 0, 16)
No == <<>>
-----------------------------------------------------------------------------
(* quant_v2::value.  o and p are the positions in a block. *)

HighNibble_Flipped(o) == ~Odd(o)
HighNibble(o) == Odd(o)

SmallRecipe(t, o) ==
    LET q4(byte) == Nibble(byte + o \div 2, HighNibble(o))
    IN CASE t = "Q8_0" -> Recipe(Field(2 + o, 0, 8), 0, No, No, F16At(0), No)
         [] t = "Q4_0" -> Recipe(q4(2), 8, No, No, F16At(0), No)
         [] t = "Q4_1" -> Recipe(q4(4), 0, No, No, F16At(0), F16At(2))
         [] t = "Q5_0" -> Recipe(q4(6) \o Field(2, o, 1), 16, No, No, F16At(0), No)
         [] t = "Q5_1" -> Recipe(q4(8) \o Field(4, o, 1), 0, No, No, F16At(0),
                                 F16At(2))

\* The six-bit scales of Q3_K.
Q3Scale(is) ==
    IF is < 8 THEN Field(96 + is, 0, 4)
                   \o Field(IF is < 4 THEN 104 + is ELSE 100 + is,
                            IF is < 4 THEN 0 ELSE 2, 2)
    ELSE Field(88 + is, 4, 4)
         \o Field(IF is < 12 THEN 96 + is ELSE 92 + is,
                  IF is < 12 THEN 4 ELSE 6, 2)

\* sm4: the scale and the min of a group of 32 in Q4_K and Q5_K.
Sm4Scale(s) == IF s < 4 THEN Field(4 + s, 0, 6)
               ELSE Field(8 + s, 0, 4) \o Field(s, 6, 2)
Sm4Min(s) == IF s < 4 THEN Field(8 + s, 0, 6)
             ELSE Field(8 + s, 4, 4) \o Field(4 + s, 6, 2)

Q2Scale_OneByte(h, j, l) == 8 * h + 2 * j
Q2Scale(h, j, l) == 8 * h + l \div 16 + 2 * j

KRecipe(t, p) ==
    LET h  == p \div 128            \* n, ip
        l  == p % 32                \* l, e
        j  == (p % 128) \div 32     \* j, sub
        g  == p \div 64             \* g, il
        s  == p \div 32             \* si
        up == (p % 64) \div 32 = 1  \* half
    IN CASE t = "Q2_K" ->
              Recipe(Field(16 + 32 * h + l, 2 * j, 2), 0,
                     Field(Q2Scale(h, j, l), 0, 4),
                     Field(Q2Scale(h, j, l), 4, 4), F16At(80), F16At(82))
         [] t = "Q3_K" ->
              Recipe(Field(32 + 32 * h + l, 2 * j, 2) \o Field(l, 4 * h + j, 1),
                     4, Q3Scale(8 * h + 2 * j + l \div 16), No, F16At(108), No)
         [] t = "Q4_K" ->
              Recipe(Nibble(16 + l, up), 0, Sm4Scale(s), Sm4Min(s), F16At(0),
                     F16At(2))
         [] t = "Q5_K" ->
              Recipe(Nibble(16 + 32 * g + l \div 2, up)
                     \o Field(144 + l \div 2, s, 1), 0,
                     Sm4Scale(s), Sm4Min(s), F16At(0), F16At(2))
         [] t = "Q6_K" ->
              Recipe(Nibble(2 + 64 * h + (IF Odd(j) THEN 32 ELSE 0) + l, j >= 2)
                     \o Field(130 + 32 * h + l, 2 * j, 2), 32,
                     Field(194 + 8 * h + (j \div 2) * 4 + 2 * (j % 2), 0, 8),
                     No, F16At(208), No)

DotValue(t, p) == IF t \in Small THEN SmallRecipe(t, p) ELSE KRecipe(t, p)
-----------------------------------------------------------------------------
(* GgufTensor::value *)

\* float((o&1)?(z>>4):(z&15)-8): the bias belongs to the low nibbles only.
TensorValue(t, p) ==
    LET z(byte) == Nibble(byte + p \div 2, Odd(p))
        sub == p \div 128
        e   == p % 32
        g   == (p % 128) \div 32
        s   == p \div 32
        up  == (p % 64) \div 32 = 1
        sm  == IF s < 4 THEN Field(8 + s, 0, 6)
                        ELSE Field(8 + s, 4, 4) \o Field(s, 6, 2)
    IN CASE t = "Q8_0" -> Recipe(Field(2 + p, 0, 8), 0, No, No, F16At(0), No)
         [] t = "Q4_0" ->
              Recipe(z(2), IF Odd(p) THEN 0 ELSE 8, No, No, F16At(0), No)
         [] t = "Q4_1" -> Recipe(z(4), 0, No, No, F16At(0), F16At(2))
         [] t = "Q5_0" -> Recipe(z(6) \o Field(2, p, 1), 16, No, No, F16At(0), No)
         [] t = "Q5_1" -> Recipe(z(8) \o Field(4, p, 1), 0, No, No, F16At(0),
                                 F16At(2))
         [] t = "Q2_K" ->
              Recipe(Field(16 + 32 * sub + e, 2 * g, 2), 0,
                     Field(g + 8 * sub, 0, 4), Field(g + 8 * sub, 4, 4),
                     F16At(80), F16At(82))
         [] t = "Q3_K" ->
              LET is == 8 * sub + 2 * g + e \div 16
                  \* a[0] .. a[3], the words unpacked from the twelve bytes
                  w  == is \div 4
              IN Recipe(Field(32 + 32 * sub + e, 2 * g, 2)
                        \o Field(e, 4 * sub + g, 1), 4,
                        Field(96 + 4 * (w % 2) + (is % 4), 4 * (w \div 2), 4)
                        \o Field(104 + (is % 4), 2 * w, 2), No, F16At(108), No)
         [] t = "Q4_K" ->
              Recipe(Nibble(16 + e, up), 0, Sm4Scale(s), sm, F16At(0), F16At(2))
         [] t = "Q5_K" ->
              Recipe(Nibble(16 + e, up) \o Field(48 + e, s, 1), 0, Sm4Scale(s),
                     sm, F16At(0), F16At(2))
         [] t = "Q6_K" ->
              Recipe(Nibble(IF Odd(g) THEN 32 + e ELSE e, Odd(g))
                     \o Field(128 + e, 2 * g, 2), 32,
                     Field(192 + 8 * sub + 2 * g + e \div 16, 0, 8), No,
                     F16At(208), No)
-----------------------------------------------------------------------------
(* quant_dot walks a row *)

SetOf(f) == {f[k] : k \in DOMAIN f}
MetaOf(r) == SetOf(r.scale) \cup SetOf(r.min) \cup SetOf(r.d) \cup SetOf(r.m)

Position == i % Span(type)
Now == DotValue(type, Position)

\* The elements that the loops over the rows visit.
Cells == shape[1] * shape[2]

Init == /\ type \in Types /\ shape \in Shapes
        /\ Cells > 0 /\ i = 0
        /\ quants = {} /\ metas = {}

\* Where the index would leave size_t it wraps, and the rows read again what
\* they have read.
Element == /\ i + 1 < Cells
           /\ i + 1 <= SizeMax
           /\ i' = i + 1
           /\ IF (i + 1) % Span(type) = 0
              THEN quants' = {} /\ metas' = {}
              ELSE /\ quants' = quants \cup SetOf(Now.quant)
                   /\ metas' = metas \cup MetaOf(Now)
           /\ UNCHANGED <<type, shape>>

Spec == Init /\ [][Element]_vars
-----------------------------------------------------------------------------
(* Properties *)

\* No sum or product of bytes() leaves size_t.
BytesExact == /\ Elements(shape) + 31 <= SizeMax
              /\ ((Elements(shape) + 31) \div 32) * BlockSize[type] <= SizeMax

InTensor(r) == \A b \in SetOf(r.quant) \cup MetaOf(r) :
    (i \div Span(type)) * BlockSize[type] + b[1] < Bytes(type, shape)

\* elements() counts a shape exactly, or is 0 where the count is no size_t.  Of
\* the elements below it both decoders read only bytes that the loader has
\* compared with the length of the file (src/gguf.cpp:18), as long as bytes()
\* does not wrap.  It promises nothing of the others: there GgufTensor::value
\* throws (src/gguf.cpp:17), but quant_dot does not look at elements().  So a
\* shape of more elements than a size_t counts has bytes() = 0, is accepted in
\* a file of any length, and quant_dot reads its rows without a bound.
ReadsInTensor ==
    /\ Elements(shape) = (IF Cells <= SizeMax THEN Cells ELSE 0)
    /\ BytesExact /\ i < Elements(shape) =>
          InTensor(Now) /\ InTensor(TensorValue(type, Position))

\* The formats whose blocks quant_v2 takes apart consistently.
Consistent == Small \cup {"Q2_K", "Q3_K"}

\* The elements take a block apart: no two share a quant bit, none shares one
\* with a scale, and with the last element every bit of the block was used.
BlockPartitioned == type \in Consistent =>
    /\ SetOf(Now.quant) \cap quants = {}
    /\ SetOf(Now.quant) \cap (metas \cup MetaOf(Now)) = {}
    /\ MetaOf(Now) \cap quants = {}
    /\ Position = Span(type) - 1 =>
          quants \cup SetOf(Now.quant) \cup metas \cup MetaOf(Now)
              = (0 .. BlockSize[type] - 1) \X (0 .. 7)

\* The two decoders read the same element.
DecodersAgree == Now = TensorValue(type, Position)

\* In these formats quant_v2::value and GgufTensor::value (src/gguf.cpp:17), which
\* unpack bits and scales in code of their own, agree about every element.
DecodersAgreeElsewhere ==
    type \in (Small \ {"Q4_0"}) \cup {"Q3_K"} => DecodersAgree

\* "supports F32/F16 tensor values plus Q4_0/Q8_0 value decoding"
\* (README.md:12): the decoders read the same Q4_0 and Q8_0 values.
SupportedTypesAgree == type \in {"Q4_0", "Q8_0"} => DecodersAgree

\* "other GGML quantization formats are detected by the loader but
\* intentionally rejected by inference" (README.md:17): quant_dot decodes no
\* element of another format.
OthersAreRejected == i > 0 => type \in {"Q4_0", "Q8_0"}
=============================================================================
