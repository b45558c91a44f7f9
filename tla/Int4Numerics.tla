---------------------------- MODULE Int4Numerics ----------------------------
(* The integer arithmetic of the INT4 weights: nibbles to INT8, half-precision *)
(* scales to single precision, and the two shifts of the two-pass matmul.  A   *)
(* float is the triple of its fields; bits are taken apart with \div and %.    *)
EXTENDS Integers, Sequences, FiniteSetsExt

Clamp(v, lo, hi) == IF v > hi THEN hi ELSE IF v < lo THEN lo ELSE v
Int8(v) == Clamp(v, -128, 127)
Abs(v) == IF v < 0 THEN -v ELSE v

-----------------------------------------------------------------------------
(* Nibbles *)
Signed(n) == IF n > 7 THEN n - 16 ELSE n
\* The scalar reference: the low nibble is row 2j, the high one row 2j + 1.
dequant_kal_scalar(b) == <<Signed(b % 16), Signed(b \div 16)>>
\* The vector kernel works on 8-bit lanes: shift left by 4 (losing the high bits), then
\* arithmetic shift right by 4.
Lane8(v) == LET u == v % 256 IN IF u > 127 THEN u - 256 ELSE u
dequant_kal_rvvBug(b) == <<Lane8(b) % 16, Lane8(b) \div 16>>
dequant_kal_rvv(b) == <<Lane8(Lane8(b) * 16) \div 16, Lane8(b) \div 16>>

\* Which columns of a window of n the vector kernel stores, 128 at a time, in order.
Strips(n) == [i \in 1..((n + 127) \div 128) |->
                 LET off == 128 * (i - 1) IN off .. off + (IF n - off > 128 THEN 128 ELSE n - off) - 1]

\* int4_unpack_fixed and its vector form, which saturates to 16 bits before it rounds
\* and narrows (vnclip adds the rounding constant itself).
int4_unpack_fixed(q, sf) == Int8((q * sf + 128) \div 256)
int4_unpack_fixed_rvv(q, sf) == Int8((Clamp(q * sf, -32768, 32767) + 128) \div 256)

-----------------------------------------------------------------------------
(* Half precision *)
Fields(h) == [sign |-> h \div 32768, exp |-> (h \div 1024) % 32, man |-> h % 1024]
Single(s, e, m) == [sign |-> s, exp |-> e, man |-> m]
Normal(f) == Single(f.sign, f.exp + 112, f.man * 8192)
Special(f) == Single(f.sign, 255, f.man * 8192)
\* How far the mantissa of a subnormal is shifted until its leading bit is in place.
Shifts(man) == Min({k \in 0..10 : man * 2^k >= 1024})
Subnormal(f, bias) ==
    IF f.man = 0 THEN Single(f.sign, 0, 0)
    ELSE Single(f.sign, bias - Shifts(f.man), ((f.man * 2^Shifts(f.man)) % 1024) * 8192)
Widened(f, small) == IF f.exp = 0 THEN small ELSE IF f.exp = 31 THEN Special(f) ELSE Normal(f)

fp16_to_f32(h) == LET f == Fields(h) IN Widened(f, Subnormal(f, 113))       \* the engine's scales
f16_to_f32(h) == LET f == Fields(h) IN Widened(f, Subnormal(f, 112))        \* its centroids
fp16_to_float(h) == LET f == Fields(h) IN Widened(f, Subnormal(f, 1 + 112)) \* the packer
fp16_to_fp32(h) == LET f == Fields(h) IN Widened(f, Single(f.sign, 0, 0))   \* the LUT demo

\* The packer's narrowing: to nearest, ties up; what becomes subnormal is shifted three
\* places further than where it belongs.
float_to_fp16(x) ==
    LET e == x.exp - 112
        half == (2^23 + x.man) \div 2^(14 - e)
        rounded == IF (half \div 512) % 2 = 1 THEN half + 1024 ELSE half
        carry == IF (x.man \div 4096) % 2 = 1 THEN 1 ELSE 0
    IN  32768 * x.sign + IF x.exp = 255 THEN (IF x.man = 0 THEN 31744 ELSE 32256)
                         ELSE IF e >= 31 THEN 31744
                         ELSE IF e < -10 THEN 0
                         ELSE IF e <= 0 THEN rounded \div 8
                         ELSE 1024 * e + x.man \div 8192 + carry
\* The LUT demo's: towards zero, and everything small to zero.
fp32_to_fp16(x) ==
    IF x.exp - 127 > 15 THEN 32768 * x.sign + 31744
    ELSE IF x.exp - 127 < -14 THEN 32768 * x.sign
    ELSE 32768 * x.sign + 1024 * (x.exp - 112) + x.man \div 8192

-----------------------------------------------------------------------------
(* Packing, with the half-precision scales of convert_i4 (ST = 1) *)
RoundDiv(a, b) ==   \* to nearest, ties to even
    LET q == (2 * a + b) \div (2 * b) IN IF (2 * a + b) % (2 * b) = 0 /\ q % 2 = 1 THEN q - 1 ELSE q

\* A seventh of the largest magnitude of the group ("most") in single precision, or 1.0:
\* the 24 bits of its significand, of which the first is worth 2^(Binade - 3).
Binade(most) == CHOOSE k \in 0..7 : 7 * 2^k <= 8 * most /\ 8 * most < 14 * 2^k
Seventh(most) == RoundDiv(most * 2^(26 - Binade(most)), 7)
Scale(most) ==
    IF most = 0 THEN Single(0, 127, 0) ELSE Single(0, Binade(most) + 124, Seventh(most) - 2^23)

\* lrintf((float)v / s).  How s was rounded shows only where v / s is halfway between two
\* integers and s no integer, in 3.5: when s came out larger than a seventh by so much
\* that the quotient in single precision falls short of it.
FallsShort(v, most) ==
    2 * Abs(v) = most /\ (7 * Seventh(most) - most * 2^(26 - Binade(most))) * 2^22 > Seventh(most)
Quotient(v, most) ==
    IF most = 0 THEN 0 ELSE IF FallsShort(v, most) THEN (IF v < 0 THEN -3 ELSE 3) ELSE RoundDiv(7 * v, most)
Nibble(v, most) == Clamp(Quotient(v, most), -8, 7) % 16

\* The nibbles are quotients of the scale in single precision; what is stored, and read
\* back, is that scale in half precision.
int4_pack(v, w, most) ==
    [nib |-> Nibble(v, most) + 16 * Nibble(w, most), scale |-> float_to_fp16(Scale(most))]
int4_unpack(p) ==
    LET q == dequant_kal_scalar(p.nib)
        s == fp16_to_float(p.scale)
        n == (2^23 + s.man) \div 2^13       \* s = n / 2^(137 - s.exp), and q * s is exact
    IN  [i \in 1..2 |-> Int8(RoundDiv(q[i] * n, 2^(137 - s.exp)))]

-----------------------------------------------------------------------------
(* The two passes of a K-block of 32 rows *)
Int8RoundDiv(acc, r) == Int8((acc + (2^r \div 2)) \div 2^r)
MatmulRshiftW(k, wmax) == Min({r \in 0..20 : (k * 127 * wmax) \div 2^r <= 127})
\* Pass 1 shifts three bits less than the largest sum could need, but at least four.
RSafe(wmax) == Max({4, MatmulRshiftW(32, wmax) - 3})
\* Pass 2 shifts by what the largest result of pass 1 asks for.
ROptBug(most, rsafe) == Min({r \in 0..15 : most * 2^rsafe <= 255 * 2^r})
ROpt(most, rsafe) == Min({r \in 0..15 : most * 2^rsafe <= 127 * 2^r})

Pass1(block, rsafe) == Max({Abs(Int8RoundDiv(a, rsafe)) : a \in block})
TwoPass(block, wmax) ==
    LET rsafe == RSafe(wmax)
        r == ROpt(Pass1(block, rsafe), rsafe)
    IN  [a \in block |-> Int8RoundDiv(a, r) * 2^r]

-----------------------------------------------------------------------------
\* The sums the check covers: around every multiple of 32 * wmax up to the largest, and
\* with each the smaller one that shares its block and so its shift.
Sums(wmax) == {32 * wmax * k + d : k \in 0..127, d \in -1..1} \cap 0 .. 32 * 127 * wmax
Blocks(wmax) == UNION {{{a}, {-a}, {a, -(a \div 3)}} : a \in Sums(wmax)}

\* The shift of pass 2 always has a command buffer (pool_build makes 16), and the result
\* is off by at most half a step of the coarser shift - as long as pass 1 did not
\* saturate.  Where it did (the shift is three bits short on purpose, line 565), the sum
\* is clipped to what INT8 holds under that shift and keeps its sign.
TwoPassFits(block, wmax) ==
    LET rsafe == RSafe(wmax)
        most == Pass1(block, rsafe)
        r == ROpt(most, rsafe)
    IN  /\ most * 2^rsafe <= 127 * 2^15
        /\ \A a \in block :
              LET p == TwoPass(block, wmax)[a]
              IN  IF Abs(a) <= 127 * 2^rsafe
                  THEN Abs(a - p) <= 2^(Max({r, rsafe}) - 1)
                  ELSE p * a >= 0 /\ Abs(p) >= 127 * 2^rsafe /\ Abs(p) <= Abs(a) + 2^r
TwoPassBounded == \A wmax \in {1, 3, 7, 8} : \A block \in Blocks(wmax) : TwoPassFits(block, wmax)

\* Kernels that stand in for one another agree: the vector dequantization with the scalar
\* one, on every byte and column by column; the vector unpacking with the fixed-point one,
\* for every scale the packer can store ("exactly the scalar math", int4_common.c:123).
DequantAgrees == \A b \in 0..255 : dequant_kal_rvv(b) = dequant_kal_scalar(b)
StripsTile(n) ==
    /\ UNION {Strips(n)[i] : i \in DOMAIN Strips(n)} = 0..n-1
    /\ \A i, j \in DOMAIN Strips(n) : i # j => Strips(n)[i] \cap Strips(n)[j] = {}
StripsAgree == \A n \in {128, 256, 384, 608, 768, 896} : StripsTile(n)
UnpackAgrees ==
    \A q \in -8..7, sf \in 0..4645 : int4_unpack_fixed_rvv(q, sf) = int4_unpack_fixed(q, sf)
\* Packing and unpacking, scales in half precision, loses at most half a step (a seventh of
\* the largest value) and a rounding, and nothing of the largest value.
PackBack(most, v, w) ==
    LET back == int4_unpack(int4_pack(v, w, most))
    IN  /\ 14 * Abs(back[1] - v) <= most + 7 /\ 14 * Abs(back[2] - w) <= most + 7
        /\ Abs(v) = most => back[1] = v
PackAgrees == \A most \in 0..128 : \A v \in -most..Int8(most) : PackBack(most, v, Int8(-v))

\* A single-precision number is the one that a half-precision number stands for.
StandsFor(x, h) ==
    LET f == Fields(h)
    IN  /\ x.sign = f.sign
        /\ f.exp = 0 /\ f.man = 0 => x.exp = 0 /\ x.man = 0
        /\ f.exp = 0 /\ f.man # 0 => 2^23 + x.man = f.man * 2^(126 - x.exp)
        /\ f.exp # 0 => x.man = f.man * 8192 /\ x.exp = IF f.exp = 31 THEN 255 ELSE f.exp + 112

\* What each conversion makes of each of the 65536 half-precision numbers.  The engine's
\* widening of the scales is exact and the packer's is the same.  The others are the same
\* but for subnormals: the engine's widening of the centroids halves them, the demo's
\* makes them zero.  Narrowing undoes widening, but for subnormals (the packer's divides
\* them by eight, the demo's makes them zero) and payloads of NaNs (the demo's makes them
\* infinite).
HalfAgrees(h) ==
    LET f == Fields(h)
        x == fp16_to_f32(h)
        small == f.exp = 0 /\ f.man # 0
        nan == f.exp = 31 /\ f.man # 0
        signed == 32768 * f.sign
    IN  /\ StandsFor(x, h) /\ fp16_to_float(h) = x
        /\ f16_to_f32(h) = IF small THEN [x EXCEPT !.exp = @ - 1] ELSE x
        /\ fp16_to_fp32(h) = IF small THEN Single(f.sign, 0, 0) ELSE x
        /\ float_to_fp16(x) = IF small THEN signed + (IF f.man < 512 THEN f.man ELSE f.man + 1024) \div 8
                              ELSE IF nan THEN signed + 32256 ELSE h
        /\ fp32_to_fp16(x) = IF small THEN signed ELSE IF nan THEN signed + 31744 ELSE h
Halves == 0..65535
HalvesAgree == \A h \in Halves : HalfAgrees(h)
ConversionsAgree == DequantAgrees /\ StripsAgree /\ UnpackAgrees /\ PackAgrees /\ HalvesAgree
=============================================================================
