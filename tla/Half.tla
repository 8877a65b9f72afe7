--------------------------------- MODULE Half ---------------------------------
(***************************************************************************)
(* The conversions between binary16 and binary32: class Half (src/half.cpp)*)
(* and the second decoder, compute::half, inside dot_f16                   *)
(* (src/compute_dot.cpp).  Both handle the sign bit apart from the rest;   *)
(* here a number is the rest, an integer of 15 or of 31 bits.              *)
(***************************************************************************)
EXTENDS Integers

VARIABLE weight     \* the weight of an F16 tensor that is converted

HalfInf == 31 * 1024
FloatInf == 255 * 2^23

\* A factor that shifts by k bits.
Pow2(k) == 2^k

\* The mantissa loses its low bits to round, rounded up at a half.
Rounded_Down(mant, bits) == mant \div Pow2(bits)
Rounded(mant, bits) ==
    mant \div Pow2(bits) + ((mant \div Pow2(bits - 1)) % 2)

\* he | hm, after a mantissa that was rounded up to 2^10 went to the exponent.
Packed(e, hm) == IF hm = 1024 THEN (e + 1) * 1024 ELSE e * 1024 + hm

\* float_to_half
ToHalf(f) ==
    LET exp  == f \div 2^23 - 127
        mant == f % 2^23
    IN CASE exp > 15  -> HalfInf
         [] exp < -24 -> 0
         [] exp \in -24 .. -15 -> Rounded(mant + 2^23, -exp - 14 + 13)
         [] OTHER     -> Packed(exp + 15, Rounded(mant, 13))

\* The shifts that bring the leading 1 of a subnormal mantissa to bit 10.
Shifts(mant) == CHOOSE s \in 1 .. 10 : mant * Pow2(s) \in 1024 .. 2047

SubnormalExp_OffByOne(mant) == 0 - Shifts(mant)
SubnormalExp(mant) == 1 - Shifts(mant)

\* half_to_float
ToFloat(h) ==
    LET exp  == h \div 1024
        mant == h % 1024
    IN IF exp = 0 /\ mant = 0 THEN 0
       ELSE IF exp = 0
       THEN (SubnormalExp(mant) + 112) * 2^23
            + ((mant * Pow2(Shifts(mant))) % 1024) * 2^13
       ELSE IF exp = 31 THEN FloatInf + mant * 2^13
       ELSE (exp + 112) * 2^23 + mant * 2^13

\* std::ldexp(mant, e) for an integer below 2^10.
Ldexp(mant, e) ==
    LET b == CHOOSE b \in 0 .. 9 : mant \in Pow2(b) .. Pow2(b + 1) - 1
    IN (b + e + 127) * 2^23 + (mant - Pow2(b)) * Pow2(23 - b)

\* half, in compute_dot.cpp
DotWeight(h) ==
    LET exp  == h \div 1024
        mant == h % 1024
    IN IF exp = 0 THEN IF mant = 0 THEN 0 ELSE Ldexp(mant, -24)
       ELSE IF exp = 31 THEN FloatInf + mant * 2^13
       ELSE (exp + 112) * 2^23 + mant * 2^13
-----------------------------------------------------------------------------
(* All the weights that a tensor may hold, one after the other. *)

HalfInit == weight = 0
HalfNext == weight < 2^15 - 1 /\ weight' = weight + 1
HalfSpec == HalfInit /\ [][HalfNext]_weight
-----------------------------------------------------------------------------
(* Properties *)

\* Storing a half that was read back changes nothing: neither a subnormal nor
\* the infinity (class Half); and dot_f16 reads the same number as
\* Half::to_float.
HalvesAgree == /\ weight <= HalfInf => ToHalf(ToFloat(weight)) = weight
               /\ DotWeight(weight) = ToFloat(weight)

\* The float of the next half; behind the last one, where it would be.
FloatAfter(h) == IF h = HalfInf - 1 THEN (127 + 16) * 2^23 ELSE ToFloat(h + 1)

\* Between two neighbouring halves a float is stored as the nearer one, and as
\* the larger one at the midpoint; from 65520 on, as the infinity.  (Below
\* 2^-24, the least half, every float is stored as zero.)
NearestHalf == weight \in 1 .. HalfInf - 1 =>
    LET lo  == ToFloat(weight)
        hi  == FloatAfter(weight)
        mid == lo + (hi - lo) \div 2
    IN /\ ToHalf(mid) = weight + 1 /\ ToHalf(hi - 1) = weight + 1
       /\ ToHalf(mid - 1) = weight /\ ToHalf(lo + 1) = weight
=============================================================================
