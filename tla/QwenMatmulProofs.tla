--------------------------- MODULE QwenMatmulProofs ---------------------------
(* Every product of the Qwen engine comes out whole, for every number of       *)
(* blocks, of products one after the other and of lines the cache moves of its *)
(* own accord.                                                                 *)
EXTENDS QwenMatmul, TLAPS, SequenceTheorems, WellFoundedInduction

-----------------------------------------------------------------------------
(* Arithmetic *)

\* Quotient and remainder are unique.
LEMMA QuotientOf ==
    ASSUME NEW n \in 1..8, NEW q \in Nat, NEW r \in 0..n-1
    PROVE  (q * n + r) \div n = q /\ (q * n + r) % n = r
<1>1. n = 1 \/ n = 2 \/ n = 3 \/ n = 4 \/ n = 5 \/ n = 6 \/ n = 7 \/ n = 8
  OBVIOUS
<1> QED
  BY <1>1

\* Multiplication is monotone.
LEMMA MoreRows ==
    ASSUME NEW w \in Nat, NEW r \in Nat, NEW m \in Nat, r <= m
    PROVE  r * w \in Nat /\ m * w \in Nat /\ r * w <= m * w
OBVIOUS

LEMMA DistributeTwo ==
    ASSUME NEW w \in Nat, NEW r \in Nat, NEW m \in Nat, r <= m
    PROVE  r * w + (m - r) * w = m * w
OBVIOUS

-----------------------------------------------------------------------------
(* The products *)
LEMMA CallShape ==
    ASSUME NEW c \in Calls
    PROVE  /\ c.rows \in 1..7 /\ c.m \in 1..7 /\ c.rows <= c.m /\ c.n \in {896, 128, 4864}
           /\ c.by \in {"eng_matmul", "eng_matmul_merged"}
           /\ c.by = "eng_matmul_merged" => c.rows = 1 /\ c.m = 1 /\ c.n = 4864
           /\ c.by = "eng_matmul" => (c.rows <= 3 <=> c.m <= 3)
<1>1. CASE c \in Prefill
  <2>1. PICK r \in 1..7, n \in Columns : c = [rows |-> r, n |-> n, m |-> ChosenPool(r), by |-> "eng_matmul"]
    BY <1>1 DEF Prefill
  <2>2. c.rows = r /\ c.n = n /\ c.m = ChosenPool(r) /\ c.by = "eng_matmul"
    BY <2>1
  <2>3. c.m = (IF r <= 3 THEN 3 ELSE IF r <= 5 THEN 5 ELSE 7) /\ c.n \in {896, 128, 4864}
    BY <2>2 DEF Columns, D, DKV, F, ChosenPool
  <2>4. c.m \in 1..7 /\ r <= c.m /\ (r <= 3 <=> c.m <= 3)
    BY <2>3
  <2> QED
    BY <2>2, <2>3, <2>4
<1>2. CASE c \in Decode
  <2>1. PICK n \in Columns : c = [rows |-> 1, n |-> n, m |-> 1, by |-> "eng_matmul"]
    BY <1>2 DEF Decode
  <2>2. c.rows = 1 /\ c.n \in {896, 128, 4864} /\ c.m = 1 /\ c.by = "eng_matmul"
    BY <2>1 DEF Columns, D, DKV, F
  <2> QED
    BY <2>2
<1>3. CASE c \in Merged
  <2>1. c.rows = 1 /\ c.n = 4864 /\ c.m = 1 /\ c.by = "eng_matmul_merged"
    BY <1>3 DEF Merged, F
  <2> QED
    BY <2>1
<1> QED
  BY <1>1, <1>2, <1>3 DEF Calls

\* A block has at most eight tiles, a merged one has eight.
LEMMA TileShape ==
    ASSUME NEW c \in Calls
    PROVE  /\ NTiles(c) \in 1..8 /\ Tiles(c) = 0 .. NTiles(c) - 1
           /\ c.by = "eng_matmul_merged" => NTiles(c) = 8
<1>1. /\ c.rows \in 1..7 /\ c.m \in 1..7 /\ c.rows <= c.m /\ c.n \in {896, 128, 4864}
      /\ c.by \in {"eng_matmul", "eng_matmul_merged"}
      /\ c.by = "eng_matmul_merged" => c.rows = 1 /\ c.m = 1 /\ c.n = 4864
      /\ c.by = "eng_matmul" => (c.rows <= 3 <=> c.m <= 3)
  BY CallShape
<1>2. Tiles(c) = 0 .. NTiles(c) - 1
  BY DEF Tiles
<1>3. NTiles(c) \in 1..8 /\ (c.by = "eng_matmul_merged" => NTiles(c) = 8)
  <2>1. TileW(c) \in {608, 768, 896} /\ (c.by = "eng_matmul_merged" => TileW(c) = 608)
    BY <1>1 DEF TileW, MTILEW, IsMerged, max_tile_for_m
  <2> QED
    BY <1>1, <2>1 DEF NTiles
<1> QED
  BY <1>2, <1>3

\* There is a command for every tile.
LEMMA TileRows ==
    ASSUME NEW c \in Calls, NEW i \in Tiles(c)
    PROVE  /\ pick_pool(c, i) /\ Tn(c, i) \in Nat \ {0} /\ Tn(c, i) <= 896
           /\ c.by = "eng_matmul_merged" => Tn(c, i) = 608
           /\ c.m > 3 => Tn(c, i) <= 768
<1>1. /\ c.rows \in 1..7 /\ c.m \in 1..7 /\ c.rows <= c.m /\ c.n \in {896, 128, 4864}
      /\ c.by \in {"eng_matmul", "eng_matmul_merged"}
      /\ c.by = "eng_matmul_merged" => c.rows = 1 /\ c.m = 1 /\ c.n = 4864
      /\ c.by = "eng_matmul" => (c.rows <= 3 <=> c.m <= 3)
  BY CallShape
<1>2. i \in 0 .. NTiles(c) - 1
  BY DEF Tiles
<1>3. /\ c.by = "eng_matmul_merged" => Tn(c, i) = 608
      /\ c.by = "eng_matmul" => Tn(c, i) \in pool_build(c.m)
      /\ Tn(c, i) \in Nat \ {0} /\ Tn(c, i) <= 896 /\ (c.m > 3 => Tn(c, i) <= 768)
  <2>1. CASE c.by = "eng_matmul_merged"
    <3>1. TileW(c) = 608 /\ c.n = 4864 /\ c.m = 1
      BY <1>1, <2>1 DEF TileW, MTILEW, IsMerged
    <3>2. NTiles(c) = 8
      BY <3>1 DEF NTiles
    <3>3. Tn(c, i) = 608
      BY <1>2, <3>1, <3>2 DEF Tn
    <3> QED
      BY <2>1, <3>1, <3>3
  <2>2. CASE c.by = "eng_matmul" /\ c.rows <= 3
    <3>1. TileW(c) = 896 /\ c.m <= 3 /\ pool_build(c.m) = {128, 384, 896}
      BY <1>1, <2>2 DEF TileW, IsMerged, max_tile_for_m, pool_build
    <3>2. CASE c.n = 896 \/ c.n = 128
      <4>1. NTiles(c) = 1
        BY <3>1, <3>2 DEF NTiles
      <4>2. Tn(c, i) = c.n
        BY <3>1, <3>2, <4>1, <1>2 DEF Tn
      <4> QED
        BY <1>1, <2>2, <3>1, <3>2, <4>2
    <3>3. CASE c.n = 4864
      <4>1. NTiles(c) = 6
        BY <3>1, <3>3 DEF NTiles
      <4>2. Tn(c, i) = IF i = 5 THEN 384 ELSE 896
        BY <3>1, <3>3, <4>1, <1>2 DEF Tn
      <4> QED
        BY <1>1, <2>2, <3>1, <4>1, <4>2
    <3> QED
      BY <1>1, <3>2, <3>3
  <2>3. CASE c.by = "eng_matmul" /\ ~(c.rows <= 3)
    <3>1. TileW(c) = 768 /\ pool_build(c.m) = {128, 256, 768}
      BY <1>1, <2>3 DEF TileW, IsMerged, max_tile_for_m, pool_build
    <3>2. CASE c.n = 128
      <4>1. NTiles(c) = 1
        BY <3>1, <3>2 DEF NTiles
      <4>2. Tn(c, i) = 128
        BY <3>1, <3>2, <4>1, <1>2 DEF Tn
      <4> QED
        BY <1>1, <2>3, <3>1, <4>1, <4>2
    <3>3. CASE c.n = 896
      <4>1. NTiles(c) = 2
        BY <3>1, <3>3 DEF NTiles
      <4>2. Tn(c, i) = IF i = 1 THEN 128 ELSE 768
        BY <3>1, <3>3, <4>1, <1>2 DEF Tn
      <4> QED
        BY <1>1, <2>3, <3>1, <4>1, <4>2
    <3>4. CASE c.n = 4864
      <4>1. NTiles(c) = 7
        BY <3>1, <3>4 DEF NTiles
      <4>2. Tn(c, i) = IF i = 6 THEN 256 ELSE 768
        BY <3>1, <3>4, <4>1, <1>2 DEF Tn
      <4> QED
        BY <1>1, <2>3, <3>1, <4>1, <4>2
    <3> QED
      BY <1>1, <3>2, <3>3, <3>4
  <2> QED
    BY <1>1, <2>1, <2>2, <2>3
<1>4. pick_pool(c, i)
  BY <1>1, <1>3 DEF pick_pool, IsMerged
<1> QED
  BY <1>3, <1>4

\* A tile's results fit 5376 bytes, those of the rows it has no data for included.
LEMMA OutShape ==
    ASSUME NEW c \in Calls, NEW i \in Tiles(c)
    PROVE  /\ OutLen(c, i) \in Nat \ {0} /\ SpareLen(c, i) \in Nat
           /\ OutLen(c, i) + SpareLen(c, i) <= 5376
<1>1. c.rows \in 1..7 /\ c.m \in 1..7 /\ c.rows <= c.m
  BY CallShape
<1>2. Tn(c, i) \in Nat \ {0} /\ Tn(c, i) <= 896 /\ (c.m > 3 => Tn(c, i) <= 768)
  BY TileRows
<1>3. PICK r \in 1..7, m \in 1..7, w \in Nat \ {0} : w <= 896 /\ r = c.rows /\ m = c.m /\ w = Tn(c, i)
  BY <1>1, <1>2
<1>4. r <= m /\ (m > 3 => w <= 768)
  BY <1>1, <1>2, <1>3
<1>5. r * w \in Nat \ {0} /\ (m - r) * w \in Nat /\ r * w + (m - r) * w <= 5376
  <2>1. m * w <= 5376
    <3>1. CASE m > 3
      <4>1. m * w <= 7 * w
        BY MoreRows
      <4> QED
        BY <1>4, <3>1, <4>1
    <3>2. CASE m <= 3
      <4>1. m * w <= 3 * w
        BY <3>2, MoreRows
      <4> QED
        BY <1>3, <4>1
    <3> QED
      BY <3>1, <3>2
  <2> DEFINE p == m * w  a == r * w  b == (m - r) * w
  <2>2. a + b = p
    BY <1>4, DistributeTwo
  <2>3. 1 <= a /\ a \in Nat /\ b \in Nat /\ p \in Nat
    <3>1. 1 * w <= r * w /\ a \in Nat
      BY MoreRows
    <3>2. r * w <= m * w /\ p \in Nat
      BY <1>4, MoreRows
    <3>3. m - r \in Nat
      BY <1>4
    <3>4. b \in Nat
      BY <3>3, MoreRows
    <3> QED
      BY <3>1, <3>2, <3>4
  <2>4. p <= 5376
    BY <2>1
  <2> HIDE DEF p, a, b
  <2>5. a \in Nat \ {0} /\ b \in Nat /\ a + b <= 5376
    BY <2>2, <2>3, <2>4
  <2> QED
    BY <2>5 DEF a, b
<1>6. OutLen(c, i) = r * w /\ SpareLen(c, i) = (m - r) * w
  BY <1>3 DEF OutLen, SpareLen
<1> QED
  BY <1>5, <1>6

\* A merged command has one row, and stores nothing but its results.
LEMMA MergedShape ==
    ASSUME NEW c \in Calls, c.by = "eng_matmul_merged", NEW i \in Tiles(c)
    PROVE  c.rows = 1 /\ c.m = 1 /\ c.n = 4864 /\ OutLen(c, i) = 608
BY CallShape, TileRows DEF OutLen

-----------------------------------------------------------------------------
(* The inductive invariant *)
Cells(S) == \A c \in S : c.lo \in Nat /\ c.n \in Nat \ {0}
Disjoint(S) == \A c, d \in S : c = d \/ Apart(c, d)
Agrees(S, v) == \A c \in S : c = v \/ Apart(c, v)

Operands == {Intact(ActArea(call), Act)} \cup {Intact(DqArea(call, i), Dq(i)) : i \in InHand}
Res(i) == Intact(OutArea(call, Pass, i), Result(Pass, i, Shift))

\* The TPU would find the value, and no line will be written back over it.
Safe(v) == v \in dram /\ \A c \in dirty : Apart(c, v)

CtrlInv ==
    /\ call \in Calls /\ g \in Nat /\ t \in Tiles(call)
    /\ pc \in {"load1", "flush1", "run1", "invld1", "scan",
               "load2", "flush2", "run2", "invld2", "add", "done"}
    /\ IF pc = "done" THEN g = KBlocks /\ t = 0 ELSE g < KBlocks
    /\ IsMerged(call) => /\ pc \notin {"load2", "flush2"}
                         /\ pc \notin {"run1", "run2"} => t = 0
MemInv ==
    /\ Cells(dram) /\ Disjoint(dram)
    /\ Cells(dirty) /\ Disjoint(dirty) /\ \A c \in dirty : c.lo + c.n <= P1_OFF
    /\ Cells(clean)
OperandInv ==
    /\ pc \in {"flush1", "flush2"} => \A v \in Operands : v \in dirty \/ Safe(v)
    /\ pc \in {"run1", "run2"} \/ (IsMerged(call) /\ pc \in {"invld1", "scan"}) =>
          \A v \in Operands : Safe(v)
ResultInv ==
    /\ pc \in {"run1", "run2"} /\ IsMerged(call) => \A i \in 0 .. t - 1 : Res(i) \in dram
    /\ pc \in {"invld1", "invld2", "scan", "add"} => \A i \in InHand : Res(i) \in dram
    /\ pc \in {"scan", "add"} => \A i \in InHand : Agrees(clean, Res(i))

SeenOf(b, I) == {<<b, i, {}>> : i \in I}
ShiftInv ==
    /\ Pass = 1 => scanned = SeenOf(g, IF IsMerged(call) THEN {} ELSE 0 .. t - 1)
    /\ Pass = 2 /\ pc # "done" => scanned = SeenOf(g, Tiles(call))

Added(c, b, i) == [g |-> b, t |-> i, shift |-> SeenOf(b, Tiles(c)), taint |-> {}]
Entry(c, k) == Added(c, (k - 1) \div NTiles(c), (k - 1) % NTiles(c))
Count == g * NTiles(call) + (IF Pass = 2 /\ ~IsMerged(call) THEN t ELSE 0)
AccInv == acc = [k \in 1..Count |-> Entry(call, k)]

IInv == CtrlInv /\ MemInv /\ OperandInv /\ ResultInv /\ ShiftInv /\ AccInv

-----------------------------------------------------------------------------
(* Memory *)

\* A write leaves the value it writes and what is apart from it.
LEMMA WrittenFacts ==
    ASSUME NEW m, NEW a, NEW name, NEW taint,
           Cells(m), Disjoint(m), a.lo \in Nat, a.n \in Nat \ {0}
    PROVE  /\ Cells(Written(m, a, name, taint)) /\ Disjoint(Written(m, a, name, taint))
           /\ [lo |-> a.lo, n |-> a.n, name |-> name, taint |-> taint] \in Written(m, a, name, taint)
           /\ \A c \in m : Apart(c, a) => c \in Written(m, a, name, taint)
<1> DEFINE v == [lo |-> a.lo, n |-> a.n, name |-> name, taint |-> taint]
<1>1. \A c \in Written(m, a, name, taint) : (c \in m /\ Apart(c, a)) \/ c = v
  BY DEF Written
<1>2. v.lo = a.lo /\ v.n = a.n
  OBVIOUS
<1>3. \A c : Apart(c, a) => Apart(c, v) /\ Apart(v, c)
  BY <1>2 DEF Apart
<1>4. v \in Written(m, a, name, taint) /\ \A c \in m : Apart(c, a) => c \in Written(m, a, name, taint)
  BY DEF Written
<1> HIDE DEF v
<1>5. Cells(Written(m, a, name, taint))
  BY <1>1, <1>2 DEF Cells
<1>6. Disjoint(Written(m, a, name, taint))
  BY <1>1, <1>3 DEF Disjoint
<1> QED
  BY <1>4, <1>5, <1>6 DEF v

\* So do several at once.
LEMMA WrittenBackFacts ==
    ASSUME NEW m, NEW lines, Cells(m), Disjoint(m), Cells(lines), Disjoint(lines)
    PROVE  /\ Cells(WrittenBack(m, lines)) /\ Disjoint(WrittenBack(m, lines))
           /\ lines \subseteq WrittenBack(m, lines)
           /\ \A c \in m : (\A l \in lines : Apart(c, l)) => c \in WrittenBack(m, lines)
           /\ \A c \in WrittenBack(m, lines) : c \in lines \/ (c \in m /\ \A l \in lines : Apart(c, l))
<1>1. \A c \in WrittenBack(m, lines) : c \in lines \/ (c \in m /\ \A l \in lines : Apart(c, l))
  BY DEF WrittenBack
<1>2. \A c, d : Apart(c, d) => Apart(d, c)
  BY DEF Apart
<1>3. Cells(WrittenBack(m, lines))
  BY <1>1 DEF Cells
<1>4. Disjoint(WrittenBack(m, lines))
  BY <1>1, <1>2 DEF Disjoint
<1> QED
  BY <1>1, <1>3, <1>4 DEF WrittenBack

\* An intact value that nothing else overlaps is read as it was written.
LEMMA TaintOf ==
    ASSUME NEW m, NEW a, NEW name, a.lo \in Nat, a.n \in Nat \ {0},
           Intact(a, name) \in m, Agrees(m, Intact(a, name))
    PROVE  Taint(m, a, name) = {}
<1> DEFINE v == Intact(a, name)
<1>1. v.lo = a.lo /\ v.n = a.n /\ v.name = name /\ v.taint = {}
  BY DEF Intact
<1> HIDE DEF v
<1>2. v \in Found(m, a, name)
  BY <1>1 DEF Found, v
<1>3. \A c \in Found(m, a, name) : c = v
  <2>1. \A c \in Found(m, a, name) : c \in m /\ c.lo = a.lo /\ c.n = a.n
    BY DEF Found
  <2>2. \A c : c.lo = a.lo /\ c.n = a.n => ~Apart(c, v)
    BY <1>1 DEF Apart
  <2> QED
    BY <2>1, <2>2 DEF Agrees, v
<1>4. Taint(m, a, name) = UNION {c.taint : c \in Found(m, a, name)}
  BY <1>2 DEF Taint, Has
<1>5. \A c \in Found(m, a, name) : c.taint = {}
  BY <1>1, <1>3
<1> QED
  BY <1>4, <1>5

\* Nor does the cache show the CPU anything else.
LEMMA CpuTaintOf ==
    ASSUME NEW a, NEW name, a.lo \in Nat, a.n \in Nat \ {0}, Disjoint(dram),
           Intact(a, name) \in dram, Agrees(dirty \cup clean, Intact(a, name))
    PROVE  CpuTaint(a, name) = {}
<1>1. \A c : Apart(c, Intact(a, name)) <=> Apart(c, a)
  BY DEF Intact, Apart
<1>2. CASE Cached(a)
  <2>1. PICK c \in dirty \cup clean : ~Apart(c, a)
    BY <1>2 DEF Cached
  <2>2. Intact(a, name) \in dirty \cup clean
    BY <1>1, <2>1 DEF Agrees
  <2>3. Taint(dirty \cup clean, a, name) = {}
    BY <2>2, TaintOf
  <2> QED
    BY <1>2, <2>3 DEF CpuTaint
<1>3. CASE ~Cached(a)
  <2>1. Agrees(dram, Intact(a, name))
    BY DEF Agrees, Disjoint
  <2>2. Taint(dram, a, name) = {}
    BY <2>1, TaintOf
  <2> QED
    BY <1>3, <2>2 DEF CpuTaint
<1> QED
  BY <1>2, <1>3

-----------------------------------------------------------------------------
(* Where operands and results lie *)
FlushLen == DQ_OFF + 32 * (IF IsMerged(call) THEN call.n ELSE Tn(call, t))
InvldLen == IF IsMerged(call) THEN (IF Pass = 1 THEN P1_OFF ELSE P2_OFF) + call.n
            ELSE P2_OFF + OutLen(call, t)

LEMMA Layout ==
    /\ ACTQ_OFF = 0 /\ DQ_OFF = 4096 /\ P1_OFF = 163840 /\ P2_OFF = 172032 /\ MTILEW = 608
    /\ \A lo, n : Area(lo, n).lo = lo /\ Area(lo, n).n = n
    /\ \A a, name : /\ Intact(a, name).lo = a.lo /\ Intact(a, name).n = a.n
                    /\ Intact(a, name).name = name /\ Intact(a, name).taint = {}
BY DEF ACTQ_OFF, DQ_OFF, P1_OFF, P2_OFF, MTILEW, Area, Intact

LEMMA InHandTiles ==
    ASSUME CtrlInv
    PROVE  /\ InHand \subseteq Tiles(call) /\ t \in InHand
           /\ IsMerged(call) <=> call.by = "eng_matmul_merged"
           /\ IsMerged(call) => InHand = 0..7
           /\ ~IsMerged(call) => InHand = {t}
BY TileShape DEF CtrlInv, InHand, IsMerged

LEMMA ActFacts ==
    ASSUME CtrlInv
    PROVE  /\ ActArea(call).lo = 0 /\ ActArea(call).n \in Nat \ {0}
           /\ ActArea(call).n <= DQ_OFF
<1>1. call.rows \in 1..7
  BY CallShape DEF CtrlInv
<1> QED
  BY <1>1, Layout DEF ActArea

LEMMA DqFacts ==
    ASSUME CtrlInv, NEW i \in InHand
    PROVE  /\ DqArea(call, i).lo \in Nat /\ DqArea(call, i).n \in Nat \ {0}
           /\ DqArea(call, i).lo >= DQ_OFF
           /\ DqArea(call, i).lo + DqArea(call, i).n <= FlushLen
           /\ FlushLen <= P1_OFF
           /\ IsMerged(call) => DqArea(call, i).lo = 4096 + i * 19456 /\ DqArea(call, i).n = 19456
<1>1. i \in Tiles(call) /\ Tn(call, i) \in Nat \ {0} /\ Tn(call, i) <= 896
  BY InHandTiles, TileRows DEF CtrlInv
<1>2. CASE IsMerged(call)
  <2>1. i \in 0..7 /\ call.n = 4864 /\ Tn(call, i) = 608
    BY <1>1, <1>2, InHandTiles, MergedShape, TileRows DEF CtrlInv
  <2>2. DqArea(call, i).lo = 4096 + i * 19456 /\ DqArea(call, i).n = 19456
    BY <1>2, <2>1, Layout DEF DqArea
  <2>3. FlushLen = 159744
    BY <1>2, <2>1, Layout DEF FlushLen
  <2> QED
    BY <1>2, <2>1, <2>2, <2>3, Layout
<1>3. CASE ~IsMerged(call)
  <2>1. i = t
    BY <1>3, InHandTiles
  <2>2. DqArea(call, i).lo = 4096 /\ DqArea(call, i).n = 32 * Tn(call, i)
    BY <1>3, Layout DEF DqArea
  <2>3. FlushLen = 4096 + 32 * Tn(call, i)
    BY <1>3, <2>1, Layout DEF FlushLen
  <2> QED
    BY <1>1, <1>3, <2>2, <2>3, Layout
<1> QED
  BY <1>2, <1>3

\* The operands are apart from each other and from all results, and are flushed whole.
LEMMA OperandFacts ==
    ASSUME CtrlInv
    PROVE  /\ Cells(Operands) /\ Disjoint(Operands)
           /\ \A v \in Operands : v.lo + v.n <= FlushLen /\ v.lo + v.n <= P1_OFF
           /\ \A v \in Operands : v = [lo |-> v.lo, n |-> v.n, name |-> v.name, taint |-> v.taint]
<1> DEFINE act == Intact(ActArea(call), Act)
           dq(i) == Intact(DqArea(call, i), Dq(i))
<1>1. act.lo = 0 /\ act.n \in Nat \ {0} /\ act.lo + act.n <= DQ_OFF
  BY ActFacts, Layout
<1>2. \A i \in InHand : /\ dq(i).lo \in Nat /\ dq(i).n \in Nat \ {0} /\ dq(i).lo >= DQ_OFF
                        /\ dq(i).lo + dq(i).n <= FlushLen /\ FlushLen <= P1_OFF
                        /\ IsMerged(call) => dq(i).lo = 4096 + i * 19456 /\ dq(i).n = 19456
  BY DqFacts, Layout
<1>3. \A v \in Operands : v = act \/ \E i \in InHand : v = dq(i)
  BY DEF Operands
<1>4. \A v \in Operands : v = [lo |-> v.lo, n |-> v.n, name |-> v.name, taint |-> v.taint]
  BY <1>3 DEF Intact
<1>5. PICK i0 : i0 \in InHand
  BY InHandTiles
<1>6. \A i, j \in InHand : i = j \/ Apart(dq(i), dq(j))
  <2>1. CASE IsMerged(call)
    <3>1. \A i \in InHand : i \in Int
      BY <2>1, InHandTiles
    <3> QED
      BY <1>2, <2>1, <3>1 DEF Apart
  <2>2. CASE ~IsMerged(call)
    BY <2>2, InHandTiles
  <2> QED
    BY <2>1, <2>2
<1> HIDE DEF act, dq
<1>7. \A i \in InHand : Apart(act, dq(i)) /\ Apart(dq(i), act)
  BY <1>1, <1>2, Layout DEF Apart
<1>8. Disjoint(Operands)
  BY <1>3, <1>6, <1>7 DEF Disjoint
<1>9. Cells(Operands)
  BY <1>1, <1>2, <1>3 DEF Cells
<1>10. \A v \in Operands : v.lo + v.n <= FlushLen /\ v.lo + v.n <= P1_OFF
  <2>1. DQ_OFF <= dq(i0).lo + dq(i0).n
    BY <1>2, <1>5, Layout
  <2>2. FlushLen <= P1_OFF
    BY <1>2, <1>5
  <2>3. FlushLen \in Int
    BY <1>2, <1>5, InHandTiles, TileRows, CallShape, Layout DEF FlushLen, CtrlInv
  <2>4. act.lo + act.n <= FlushLen
    BY <1>1, <1>2, <1>5, <2>1, <2>3, Layout
  <2> QED
    BY <1>1, <1>2, <1>3, <2>2, <2>3, <2>4, Layout
<1> QED
  BY <1>4, <1>8, <1>9, <1>10

OutBase == IF Pass = 1 THEN 163840 ELSE 172032
LEMMA ResultFacts ==
    ASSUME CtrlInv, NEW i \in InHand
    PROVE  /\ Res(i).lo \in Nat /\ Res(i).n \in Nat \ {0} /\ P1_OFF <= Res(i).lo
           /\ OutArea(call, Pass, i).lo = Res(i).lo /\ OutArea(call, Pass, i).n = Res(i).n
           /\ InvldLen \in Nat /\ Res(i).lo + Res(i).n <= InvldLen
           /\ IsMerged(call) => /\ Res(i).lo = OutBase + i * 608
                                /\ Res(i).n = 608
<1>1. i \in Tiles(call) /\ call \in Calls
  BY InHandTiles DEF CtrlInv
<1>2. OutLen(call, i) \in Nat \ {0} /\ OutLen(call, i) <= 5376
  BY <1>1, OutShape
<1>3. /\ Res(i).lo = OutOff(call, Pass, i) /\ Res(i).n = OutLen(call, i)
      /\ OutArea(call, Pass, i).lo = Res(i).lo /\ OutArea(call, Pass, i).n = Res(i).n
  BY Layout DEF Res, OutArea
<1>4. OutBase \in {163840, 172032} /\ P1_OFF = 163840
  BY Layout DEF OutBase
<1>5. CASE IsMerged(call)
  <2>1. i \in 0..7 /\ call.n = 4864 /\ OutLen(call, i) = 608
    BY <1>1, <1>5, InHandTiles, MergedShape
  <2>2. OutOff(call, Pass, i) = OutBase + i * 608
    BY <1>5, Layout DEF OutOff, OutBase
  <2>3. InvldLen = OutBase + 4864
    BY <1>5, <2>1, Layout DEF InvldLen, OutBase
  <2>4. Res(i).lo = OutBase + i * 608 /\ Res(i).n = 608
    BY <1>3, <2>1, <2>2
  <2> QED
    BY <1>3, <1>4, <1>5, <2>1, <2>3, <2>4
<1>6. CASE ~IsMerged(call)
  <2>1. i = t
    BY <1>6, InHandTiles
  <2>2. OutOff(call, Pass, i) = OutBase
    BY <1>6, Layout DEF OutOff, OutBase
  <2>3. InvldLen = 172032 + OutLen(call, i)
    BY <1>6, <2>1, Layout DEF InvldLen
  <2>4. Res(i).lo = OutBase /\ Res(i).n = OutLen(call, i)
    BY <1>3, <2>2
  <2>5. Res(i).lo \in Nat /\ P1_OFF <= Res(i).lo
    BY <1>4, <2>4, SMT
  <2>6. Res(i).n \in Nat \ {0}
    BY <1>2, <2>4, SMT
  <2>7. InvldLen \in Nat /\ Res(i).lo + Res(i).n <= InvldLen
    BY <1>2, <1>4, <2>3, <2>4, SMT
  <2> QED
    BY <1>3, <1>6, <2>5, <2>6, <2>7, SMT
<1> QED
  BY <1>5, <1>6

LEMMA ResultsApart ==
    ASSUME CtrlInv, NEW i \in InHand, NEW j \in InHand, i # j
    PROVE  Apart(Res(i), Res(j))
<1>1. IsMerged(call) /\ i \in 0..7 /\ j \in 0..7
  BY InHandTiles
<1>2. /\ Res(i).lo = OutBase + i * 608 /\ Res(i).n = 608
      /\ Res(j).lo = OutBase + j * 608 /\ Res(j).n = 608
  BY <1>1, ResultFacts
<1> QED
  BY <1>1, <1>2 DEF Apart, OutBase

\* What the rows without data leave behind destroys neither operand nor result.
LEMMA SpareFacts ==
    ASSUME CtrlInv, NEW i \in InHand
    PROVE  /\ SpareArea(call, Pass, i).lo = Res(i).lo + Res(i).n
           /\ SpareArea(call, Pass, i).n \in Nat
           /\ call.m > call.rows => SpareArea(call, Pass, i).n # 0
           /\ IsMerged(call) => ~(call.m > call.rows)
<1>1. i \in Tiles(call) /\ call \in Calls
  BY InHandTiles DEF CtrlInv
<1>2. SpareLen(call, i) \in Nat
  BY <1>1, OutShape
<1>3. SpareArea(call, Pass, i).lo = Res(i).lo + Res(i).n /\ SpareArea(call, Pass, i).n = SpareLen(call, i)
  BY Layout DEF Res, OutArea, SpareArea
<1>4. IsMerged(call) => ~(call.m > call.rows)
  BY <1>1, InHandTiles, MergedShape
<1>5. call.m > call.rows => SpareLen(call, i) # 0
  <2>1. call.m \in 1..7 /\ call.rows \in 1..7 /\ Tn(call, i) \in Nat \ {0} /\ Tn(call, i) <= 896
    BY <1>1, CallShape, TileRows
  <2>2. PICK r \in 1..7, m \in 1..7, w \in Nat \ {0} : w <= 896 /\ r = call.rows /\ m = call.m /\ w = Tn(call, i)
    BY <2>1
  <2>3. ASSUME m > r
        PROVE  (m - r) * w # 0
    <3>1. PICK k \in Nat : k = m - r
      BY <2>3
    <3>2. k * w = 0 => k = 0
      OBVIOUS
    <3> QED
      BY <2>3, <3>1, <3>2
  <2>4. SpareLen(call, i) = (m - r) * w
    BY <2>2 DEF SpareLen
  <2> QED
    BY <2>2, <2>3, <2>4
<1> QED
  BY <1>2, <1>3, <1>4, <1>5

-----------------------------------------------------------------------------
(* What a step does not change *)
LEMMA SameOperands ==
    ASSUME call' = call, product' = product, g' = g, t' = t \/ IsMerged(call)
    PROVE  InHand' = InHand /\ Operands' = Operands
<1>1. InHand' = InHand
  BY DEF InHand
<1>2. Act' = Act /\ \A i : Dq(i)' = Dq(i)
  BY DEF Act, Dq
<1> QED
  BY <1>1, <1>2 DEF Operands

LEMMA SameResults ==
    ASSUME call' = call, product' = product, g' = g, Pass' = Pass, Pass = 1 \/ scanned' = scanned
    PROVE  \A i : Res(i)' = Res(i)
<1>1. Shift' = Shift
  BY DEF Shift
<1>2. \A i : Result(Pass, i, Shift)' = Result(Pass, i, Shift)
  BY <1>1 DEF Result
<1> QED
  BY <1>2 DEF Res

LEMMA SameAcc ==
    ASSUME AccInv, call' = call, g' = g, acc' = acc, Count' = Count
    PROVE  AccInv'
BY DEF AccInv

\* A value in memory survives what is written apart from it.
LEMMA OperandsOut ==
    ASSUME CtrlInv, NEW v \in Operands, NEW i \in InHand
    PROVE  Apart(v, OutArea(call, Pass, i)) /\ Apart(v, SpareArea(call, Pass, i))
<1>1. v.lo \in Nat /\ v.n \in Nat /\ v.lo + v.n <= P1_OFF
  BY OperandFacts DEF Cells
<1>2. P1_OFF <= Res(i).lo /\ Res(i).lo \in Nat /\ Res(i).n \in Nat /\ OutArea(call, Pass, i).lo = Res(i).lo
  BY ResultFacts
<1>3. SpareArea(call, Pass, i).lo = Res(i).lo + Res(i).n
  BY SpareFacts
<1>4. P1_OFF \in Nat
  BY Layout
<1> QED
  BY <1>1, <1>2, <1>3, <1>4 DEF Apart

-----------------------------------------------------------------------------
(* Load *)
LEMMA LoadStep ==
    ASSUME IInv, Load
    PROVE  IInv'
<1> USE DEF IInv
<1>1. /\ pc \in {"load1", "load2"} /\ dram' = dram /\ acc' = acc /\ scanned' = scanned
      /\ call' = call /\ product' = product /\ g' = g /\ t' = t
      /\ pc' = IF Pass = 1 THEN "flush1" ELSE "flush2"
      /\ dirty' = WrittenBack(dirty, Operands) /\ clean' \subseteq clean
  BY DEF Load, CpuWrites, Operands
<1>2. (pc = "load1" /\ Pass = 1 /\ pc' = "flush1") \/ (pc = "load2" /\ Pass = 2 /\ pc' = "flush2")
  BY <1>1 DEF Pass
<1>3. Pass' = Pass
  BY <1>2 DEF Pass
<1>4. CtrlInv'
  BY <1>1, <1>2 DEF CtrlInv, IsMerged
<1>5. Operands' = Operands
  BY <1>1, SameOperands
<1>6. MemInv' /\ Operands \subseteq dirty'
  <2>1. /\ Cells(dirty') /\ Disjoint(dirty') /\ Operands \subseteq dirty'
        /\ \A c \in dirty' : c \in Operands \/ c \in dirty
    BY <1>1, OperandFacts, WrittenBackFacts DEF MemInv
  <2>2. \A c \in dirty' : c.lo + c.n <= P1_OFF
    BY <2>1, OperandFacts DEF MemInv
  <2>3. Cells(clean')
    BY <1>1 DEF MemInv, Cells
  <2> QED
    BY <1>1, <2>1, <2>2, <2>3 DEF MemInv
<1>7. OperandInv'
  BY <1>2, <1>5, <1>6 DEF OperandInv
<1>8. ResultInv'
  BY <1>2 DEF ResultInv
<1>9. ShiftInv'
  BY <1>1, <1>2, <1>3 DEF ShiftInv
<1>10. AccInv'
  BY <1>1, <1>3, SameAcc DEF Count
<1> QED
  BY <1>4, <1>6, <1>7, <1>8, <1>9, <1>10

-----------------------------------------------------------------------------
(* FlushOperands *)
LEMMA FlushStep ==
    ASSUME IInv, FlushOperands
    PROVE  IInv'
<1> USE DEF IInv
<1> DEFINE whole == {c \in dirty : Within(c, FlushLen)}
           torn == {c \in dirty : Touches(c, FlushLen) /\ ~Within(c, FlushLen)}
<1>1. /\ pc \in {"flush1", "flush2"} /\ acc' = acc /\ scanned' = scanned
      /\ call' = call /\ product' = product /\ g' = g /\ t' = t
      /\ pc' = IF Pass = 1 THEN "run1" ELSE "run2"
      /\ dram' = {c \in WrittenBack(dram, whole) : \A x \in torn : Apart(c, x)}
      /\ dirty' = dirty \ whole /\ clean' = clean \cup whole
  BY DEF FlushOperands, Flush, FlushLen
<1>2. (pc = "flush1" /\ Pass = 1 /\ pc' = "run1") \/ (pc = "flush2" /\ Pass = 2 /\ pc' = "run2")
  BY <1>1 DEF Pass
<1>3. Pass' = Pass
  BY <1>2 DEF Pass
<1>4. CtrlInv'
  BY <1>1, <1>2 DEF CtrlInv, IsMerged
<1>5. Operands' = Operands
  BY <1>1, SameOperands
<1>6. whole \subseteq dirty /\ torn \subseteq dirty /\ whole \cap torn = {}
  OBVIOUS
<1>w. \A v \in dirty : v.lo + v.n <= FlushLen => v \in whole
  BY DEF Within
<1> HIDE DEF whole, torn
<1>7. Cells(whole) /\ Disjoint(whole)
  BY <1>6 DEF MemInv, Cells, Disjoint
<1>8. Cells(WrittenBack(dram, whole)) /\ Disjoint(WrittenBack(dram, whole))
  BY <1>7, WrittenBackFacts DEF MemInv
<1>9. MemInv'
  BY <1>1, <1>6, <1>8 DEF MemInv, Cells, Disjoint
<1>10. \A v \in Operands : Safe(v)'
  <2> SUFFICES ASSUME NEW v \in Operands
               PROVE  v \in dram' /\ \A c \in dirty' : Apart(c, v)
    BY DEF Safe
  <2>1. CASE v \in dirty
    <3>1. v \in whole
      BY <1>w, <2>1, OperandFacts
    <3>2. v \in WrittenBack(dram, whole)
      BY <1>7, <3>1, WrittenBackFacts DEF MemInv
    <3>3. \A c \in dirty : c # v => Apart(c, v) /\ Apart(v, c)
      BY <2>1 DEF MemInv, Disjoint
    <3> QED
      BY <1>1, <1>6, <3>1, <3>2, <3>3
  <2>2. CASE Safe(v)
    <3>1. \A c \in dirty : Apart(c, v) /\ Apart(v, c)
      BY <2>2 DEF Safe, Apart
    <3>2. v \in WrittenBack(dram, whole)
      BY <1>6, <1>7, <2>2, <3>1, WrittenBackFacts DEF MemInv, Safe
    <3> QED
      BY <1>1, <1>6, <3>1, <3>2
  <2> QED
    BY <1>1, <2>1, <2>2 DEF OperandInv
<1>11. OperandInv'
  BY <1>2, <1>5, <1>10 DEF OperandInv
<1>12. ResultInv'
  BY <1>1, <1>2 DEF ResultInv, CtrlInv, IsMerged
<1>13. ShiftInv'
  BY <1>1, <1>2, <1>3 DEF ShiftInv
<1>14. AccInv'
  BY <1>1, <1>3, SameAcc DEF Count
<1> QED
  BY <1>4, <1>9, <1>11, <1>12, <1>13, <1>14

-----------------------------------------------------------------------------
(* RunCmdbuf *)
LEMMA StoredFacts ==
    ASSUME CtrlInv, MemInv, \A v \in Operands : Safe(v)
    PROVE  /\ Cells(Stored(t)) /\ Disjoint(Stored(t)) /\ Res(t) \in Stored(t)
           /\ \A c \in Operands : c \in dram => c \in Stored(t)
           /\ IsMerged(call) => \A c \in dram : Apart(c, Res(t)) => c \in Stored(t)
<1> DEFINE out == OutArea(call, Pass, t)  spare == SpareArea(call, Pass, t)
           name == Result(Pass, t, Shift)
           from == Taint(dram, ActArea(call), Act) \cup Taint(dram, DqArea(call, t), Dq(t))
           result == Written(dram, out, name, from)
<1>1. t \in InHand
  BY InHandTiles
<1>2. /\ out.lo \in Nat /\ out.n \in Nat \ {0} /\ out.lo = Res(t).lo /\ out.n = Res(t).n
      /\ spare.lo = out.lo + out.n /\ spare.n \in Nat
      /\ call.m > call.rows => spare.n # 0
      /\ IsMerged(call) => ~(call.m > call.rows)
  BY <1>1, ResultFacts, SpareFacts
<1>3. \A v \in Operands : v \in dram => Apart(v, out) /\ Apart(v, spare)
  BY <1>1, OperandsOut
<1>4. from = {}
  <2>1. /\ Intact(ActArea(call), Act) \in Operands
        /\ Intact(DqArea(call, t), Dq(t)) \in Operands
    BY <1>1 DEF Operands
  <2>2. \A v \in Operands : v \in dram /\ Agrees(dram, v)
    BY DEF Safe, Agrees, MemInv, Disjoint
  <2>3. ActArea(call).lo \in Nat /\ ActArea(call).n \in Nat \ {0}
    BY ActFacts
  <2>4. DqArea(call, t).lo \in Nat /\ DqArea(call, t).n \in Nat \ {0}
    BY <1>1, DqFacts
  <2>5. Taint(dram, ActArea(call), Act) = {}
    BY <2>1, <2>2, <2>3, TaintOf
  <2>6. Taint(dram, DqArea(call, t), Dq(t)) = {}
    BY <2>1, <2>2, <2>4, TaintOf
  <2> QED
    BY <2>5, <2>6
<1>5. Res(t) = [lo |-> out.lo, n |-> out.n, name |-> name, taint |-> from]
  BY <1>4 DEF Res, Intact
<1>6. Stored(t) = IF call.m > call.rows THEN Written(result, spare, "spare", {}) ELSE result
  BY DEF Stored
<1>7. Apart(Res(t), spare)
  BY <1>2 DEF Apart
<1>8. \A c : Apart(c, Res(t)) => Apart(c, out)
  BY <1>2 DEF Apart
<1> HIDE DEF out, spare, name, from
<1>9. /\ Cells(result) /\ Disjoint(result) /\ Res(t) \in result
      /\ \A c \in dram : Apart(c, out) => c \in result
  BY <1>2, <1>5, WrittenFacts DEF MemInv
<1> HIDE DEF result
<1>10. CASE call.m > call.rows
  <2>1. spare.lo \in Nat /\ spare.n \in Nat \ {0}
    BY <1>2, <1>10
  <2>2. /\ Cells(Written(result, spare, "spare", {})) /\ Disjoint(Written(result, spare, "spare", {}))
        /\ \A c \in result : Apart(c, spare) => c \in Written(result, spare, "spare", {})
    BY <1>9, <2>1, WrittenFacts
  <2> QED
    BY <1>2, <1>3, <1>6, <1>7, <1>9, <1>10, <2>2
<1>11. CASE ~(call.m > call.rows)
  BY <1>3, <1>6, <1>8, <1>9, <1>11
<1> QED
  BY <1>10, <1>11

LEMMA RunStep ==
    ASSUME IInv, RunCmdbuf
    PROVE  IInv'
<1> USE DEF IInv
<1>1. t \in Tiles(call) /\ t \in InHand /\ pick_pool(call, t) /\ t \in 0..7 /\ NTiles(call) \in 1..8
      /\ Tiles(call) = 0 .. NTiles(call) - 1
  BY InHandTiles, TileRows, TileShape DEF CtrlInv
<1>2. /\ pc \in {"run1", "run2"} /\ acc' = acc /\ scanned' = scanned
      /\ call' = call /\ product' = product /\ g' = g /\ dirty' = dirty /\ clean' = clean
      /\ dram' = Stored(t)
  BY <1>1 DEF RunCmdbuf
<1>3. \/ /\ IsMerged(call) /\ t < NTiles(call) - 1 /\ t' = t + 1 /\ pc' = pc
      \/ /\ ~(IsMerged(call) /\ t < NTiles(call) - 1) /\ t' = IF IsMerged(call) THEN 0 ELSE t
         /\ pc' = IF Pass = 1 THEN "invld1" ELSE "invld2"
  BY <1>1 DEF RunCmdbuf
<1>4. (pc = "run1" /\ Pass = 1) \/ (pc = "run2" /\ Pass = 2)
  BY <1>2 DEF Pass
<1>5. Pass' = Pass
  BY <1>3, <1>4 DEF Pass
<1>6. t' \in Tiles(call) /\ (t' = t \/ IsMerged(call))
  BY <1>1, <1>3
<1>7. CtrlInv'
  <2>1. IsMerged(call)' = IsMerged(call)
    BY <1>2 DEF IsMerged
  <2>2. CASE pc' = pc
    BY <1>2, <1>4, <1>6, <2>1, <2>2 DEF CtrlInv
  <2>3. CASE pc' = IF Pass = 1 THEN "invld1" ELSE "invld2"
    BY <1>2, <1>3, <1>4, <1>6, <2>1, <2>3 DEF CtrlInv
  <2> QED
    BY <1>3, <2>2, <2>3
<1>8. Operands' = Operands /\ InHand' = InHand
  BY <1>2, <1>6, SameOperands
<1>9. \A i : Res(i)' = Res(i)
  BY <1>2, <1>5, SameResults
<1>10. \A v \in Operands : Safe(v)
  BY <1>2 DEF OperandInv
<1>11. MemInv'
  BY <1>2, <1>10, StoredFacts DEF MemInv
<1>12. \A v \in Operands : Safe(v)'
  BY <1>2, <1>10, StoredFacts DEF Safe
<1>13. OperandInv'
  BY <1>3, <1>4, <1>8, <1>12 DEF OperandInv
<1>14. \A i \in InHand : (i = t \/ (IsMerged(call) /\ i \in 0 .. t - 1)) => Res(i) \in dram'
  <2>1. Res(t) \in dram'
    BY <1>2, <1>10, StoredFacts
  <2>2. ASSUME NEW i \in InHand, IsMerged(call), i \in 0 .. t - 1
        PROVE  Res(i) \in dram'
    <3>1. Res(i) \in dram
      BY <1>2, <2>2 DEF ResultInv
    <3>2. Apart(Res(i), Res(t))
      BY <1>1, <2>2, ResultsApart
    <3> QED
      BY <1>2, <1>10, <2>2, <3>1, <3>2, StoredFacts
  <2> QED
    BY <2>1, <2>2
<1>15. ResultInv'
  <2>1. CASE IsMerged(call) /\ t < NTiles(call) - 1 /\ t' = t + 1 /\ pc' = pc
    <3>1. 0 .. t' - 1 \subseteq InHand /\ \A i \in 0 .. t' - 1 : i = t \/ i \in 0 .. t - 1
      BY <1>1, <2>1 DEF InHand
    <3> QED
      BY <1>4, <1>9, <1>14, <2>1, <3>1 DEF ResultInv
  <2>2. CASE ~(IsMerged(call) /\ t < NTiles(call) - 1) /\ pc' = IF Pass = 1 THEN "invld1" ELSE "invld2"
    <3>1. \A i \in InHand : i = t \/ (IsMerged(call) /\ i \in 0 .. t - 1)
      BY <1>1, <2>2 DEF InHand
    <3>2. pc' \in {"invld1", "invld2"}
      BY <2>2
    <3> QED
      BY <1>8, <1>9, <1>14, <3>1, <3>2 DEF ResultInv
  <2> QED
    BY <1>3, <2>1, <2>2
<1>16. ShiftInv'
  BY <1>2, <1>3, <1>4, <1>5 DEF ShiftInv, IsMerged
<1>17. Count' = Count
  BY <1>2, <1>3, <1>5 DEF Count, IsMerged, NTiles, TileW, max_tile_for_m
<1>18. AccInv'
  BY <1>2, <1>17, SameAcc
<1> QED
  BY <1>7, <1>11, <1>13, <1>15, <1>16, <1>18

-----------------------------------------------------------------------------
(* InvalidateResults *)
LEMMA InvalidateStep ==
    ASSUME IInv, InvalidateResults
    PROVE  IInv'
<1> USE DEF IInv
<1>1. /\ pc \in {"invld1", "invld2"} /\ acc' = acc /\ scanned' = scanned /\ dram' = dram
      /\ call' = call /\ product' = product /\ g' = g /\ t' = t
      /\ pc' = IF Pass = 1 THEN "scan" ELSE "add"
      /\ dirty' = {c \in dirty : ~Touches(c, InvldLen)}
      /\ clean' = {c \in clean : ~Touches(c, InvldLen)}
  BY DEF InvalidateResults, Invalidate, InvldLen
<1>2. (pc = "invld1" /\ Pass = 1 /\ pc' = "scan") \/ (pc = "invld2" /\ Pass = 2 /\ pc' = "add")
  BY <1>1 DEF Pass
<1>3. Pass' = Pass
  BY <1>2 DEF Pass
<1>4. CtrlInv'
  BY <1>1, <1>2 DEF CtrlInv, IsMerged
<1>5. Operands' = Operands /\ InHand' = InHand
  BY <1>1, SameOperands
<1>6. \A i : Res(i)' = Res(i)
  BY <1>1, <1>3, SameResults
<1>7. MemInv'
  BY <1>1 DEF MemInv, Cells, Disjoint
<1>8. OperandInv'
  <2>1. ASSUME IsMerged(call)', pc' = "scan", NEW v \in Operands
        PROVE  Safe(v)'
    <3>1. Safe(v)
      BY <1>1, <1>2, <2>1 DEF OperandInv, IsMerged
    <3> QED
      BY <1>1, <3>1 DEF Safe
  <2> QED
    BY <1>2, <1>5, <2>1 DEF OperandInv
<1>9. \A i \in InHand : Agrees(clean', Res(i))
  <2> SUFFICES ASSUME NEW i \in InHand, NEW c \in clean'
               PROVE  Apart(c, Res(i))
    BY DEF Agrees
  <2>1. ~(c.lo < InvldLen)
    BY <1>1 DEF Touches
  <2>2. Res(i).lo + Res(i).n <= InvldLen /\ Res(i).lo \in Nat /\ Res(i).n \in Nat /\ InvldLen \in Nat
    BY ResultFacts
  <2>3. c.lo \in Nat
    BY <1>1 DEF MemInv, Cells
  <2> QED
    BY <2>1, <2>2, <2>3 DEF Apart
<1>10. ResultInv'
  <2>1. \A i \in InHand : Res(i) \in dram
    BY <1>1 DEF ResultInv
  <2> QED
    BY <1>1, <1>2, <1>5, <1>6, <1>9, <2>1 DEF ResultInv
<1>11. ShiftInv'
  BY <1>1, <1>2, <1>3 DEF ShiftInv
<1>12. AccInv'
  BY <1>1, <1>3, SameAcc DEF Count
<1> QED
  BY <1>4, <1>7, <1>8, <1>10, <1>11, <1>12

-----------------------------------------------------------------------------
(* What the CPU reads *)
LEMMA ReadFresh ==
    ASSUME IInv, pc \in {"scan", "add"}, NEW i \in InHand
    PROVE  ReadTaint(i) = {}
<1> USE DEF IInv
<1>1. Res(i) \in dram /\ Agrees(clean, Res(i))
  BY DEF ResultInv
<1>2. /\ Res(i).lo \in Nat /\ Res(i).n \in Nat \ {0} /\ P1_OFF <= Res(i).lo
      /\ OutArea(call, Pass, i).lo = Res(i).lo /\ OutArea(call, Pass, i).n = Res(i).n
  BY ResultFacts
<1>3. Agrees(dirty, Res(i))
  <2>1. \A c \in dirty : c.lo \in Nat /\ c.n \in Nat /\ c.lo + c.n <= P1_OFF
    BY DEF MemInv, Cells
  <2> QED
    BY <1>2, <2>1, Layout, SMT DEF Agrees, Apart
<1>4. Agrees(dirty \cup clean, Res(i))
  BY <1>1, <1>3 DEF Agrees
<1>5. CpuTaint(OutArea(call, Pass, i), Result(Pass, i, Shift)) = {}
  BY <1>1, <1>2, <1>4, CpuTaintOf DEF MemInv, Res
<1> QED
  BY <1>5 DEF ReadTaint

LEMMA ScanStep ==
    ASSUME IInv, Scan
    PROVE  IInv'
<1> USE DEF IInv
<1>1. /\ pc = "scan" /\ acc' = acc /\ dram' = dram /\ dirty' = dirty
      /\ call' = call /\ product' = product /\ g' = g
      /\ scanned' = scanned \cup {<<g, i, ReadTaint(i)>> : i \in InHand}
      /\ t' = IF LastTile THEN 0 ELSE t + 1
      /\ pc' = IF ~LastTile THEN "load1" ELSE IF IsMerged(call) THEN "run2" ELSE "load2"
      /\ clean' \subseteq clean \cup dram
  BY DEF Scan, Reads
<1>2. Pass = 1
  BY <1>1 DEF Pass
<1>3. scanned' = scanned \cup SeenOf(g, InHand)
  BY <1>1, ReadFresh DEF SeenOf
<1>4. /\ t \in Tiles(call) /\ NTiles(call) \in 1..8 /\ Tiles(call) = 0 .. NTiles(call) - 1
      /\ IsMerged(call)' = IsMerged(call) /\ Tiles(call)' = Tiles(call)
      /\ IsMerged(call) => InHand = Tiles(call) /\ t = 0
      /\ ~IsMerged(call) => InHand = {t}
      /\ LastTile <=> IsMerged(call) \/ t = NTiles(call) - 1
  BY <1>1, TileShape DEF CtrlInv, IsMerged, InHand, LastTile
<1>5. scanned = SeenOf(g, IF IsMerged(call) THEN {} ELSE 0 .. t - 1)
  BY <1>2 DEF ShiftInv
<1>6. \A I, J : SeenOf(g, I) \cup SeenOf(g, J) = SeenOf(g, I \cup J)
  BY DEF SeenOf
<1>7. CtrlInv'
  BY <1>1, <1>4 DEF CtrlInv
<1>8. MemInv'
  BY <1>1 DEF MemInv, Cells
<1>9. OperandInv'
  <2>1. CASE IsMerged(call)
    <3>1. Operands' = Operands
      BY <1>1, <2>1, SameOperands
    <3>2. \A v \in Operands : Safe(v)
      BY <1>1, <2>1 DEF OperandInv
    <3> QED
      BY <1>1, <1>4, <2>1, <3>1, <3>2 DEF OperandInv, Safe
  <2>2. CASE ~IsMerged(call)
    BY <1>1, <1>4, <2>2 DEF OperandInv
  <2> QED
    BY <2>1, <2>2
<1>10. ResultInv'
  BY <1>1, <1>4 DEF ResultInv
<1>11. ShiftInv'
  <2>1. CASE IsMerged(call)
    <3>1. scanned' = SeenOf(g, Tiles(call))
      <4>1. {} \cup Tiles(call) = Tiles(call)
        OBVIOUS
      <4> QED
        BY <1>3, <1>4, <1>5, <1>6, <2>1, <4>1
    <3>2. Pass' = 2
      BY <1>1, <1>4, <2>1 DEF Pass
    <3> QED
      BY <1>1, <1>4, <3>1, <3>2 DEF ShiftInv
  <2>2. CASE ~IsMerged(call) /\ t = NTiles(call) - 1
    <3>1. (0 .. t - 1) \cup {t} = Tiles(call)
      BY <1>4, <2>2
    <3>2. scanned' = SeenOf(g, Tiles(call))
      BY <1>3, <1>4, <1>5, <1>6, <2>2, <3>1
    <3>3. Pass' = 2
      BY <1>1, <1>4, <2>2 DEF Pass
    <3> QED
      BY <1>1, <1>4, <3>2, <3>3 DEF ShiftInv
  <2>3. CASE ~IsMerged(call) /\ t # NTiles(call) - 1
    <3>1. (0 .. t - 1) \cup {t} = 0 .. t
      BY <1>4
    <3>2. scanned' = SeenOf(g, 0 .. t)
      BY <1>3, <1>4, <1>5, <1>6, <2>3, <3>1
    <3>3. Pass' = 1 /\ t' = t + 1
      BY <1>1, <1>4, <2>3 DEF Pass
    <3>4. t' - 1 = t
      BY <1>4, <3>3
    <3> QED
      BY <1>1, <1>4, <2>3, <3>2, <3>3, <3>4 DEF ShiftInv
  <2> QED
    BY <2>1, <2>2, <2>3
<1>12. Count' = Count
  <2>1. NTiles(call)' = NTiles(call)
    BY <1>1
  <2>2. Pass' = 2 => t' = 0 \/ IsMerged(call)
    BY <1>1, <1>4 DEF Pass
  <2>3. NTiles(call) \in Nat /\ g \in Nat
    BY <1>4 DEF CtrlInv
  <2> QED
    BY <1>1, <1>2, <1>4, <2>1, <2>2, <2>3 DEF Count
<1>13. AccInv'
  BY <1>1, <1>12, SameAcc
<1> QED
  BY <1>7, <1>8, <1>9, <1>10, <1>11, <1>13

-----------------------------------------------------------------------------
(* Accumulate *)
LEMMA NextEntries ==
    ASSUME NEW c \in Calls, NEW b \in Nat, NEW i \in Tiles(c)
    PROVE  Entry(c, b * NTiles(c) + i + 1) = Added(c, b, i)
<1>1. NTiles(c) \in 1..8 /\ i \in 0 .. NTiles(c) - 1
  BY TileShape
<1>2. PICK n \in 1..8 : n = NTiles(c)
  BY <1>1
<1>3. (b * n + i) \div n = b /\ (b * n + i) % n = i
  BY <1>1, <1>2, QuotientOf
<1>4. (b * n + i + 1) - 1 = b * n + i
  BY <1>1, <1>2
<1> QED
  BY <1>2, <1>3, <1>4 DEF Entry

LEMMA NextRow ==
    ASSUME NEW n \in 1..8, NEW b \in Nat
    PROVE  b * n \in Nat /\ (b + 1) * n = b * n + n
<1>1. n = 1 \/ n = 2 \/ n = 3 \/ n = 4 \/ n = 5 \/ n = 6 \/ n = 7 \/ n = 8
  OBVIOUS
<1> QED
  BY <1>1

\* The sums so far grow at their end.
LEMMA Longer ==
    ASSUME NEW c, NEW n \in Nat, NEW m \in Nat, NEW s,
           s = [k \in 1..m |-> Entry(c, n + k)]
    PROVE  [k \in 1..n |-> Entry(c, k)] \o s = [k \in 1 .. n + m |-> Entry(c, k)]
<1> DEFINE r == [k \in 1..n |-> Entry(c, k)]  w == [k \in 1 .. n + m |-> Entry(c, k)]
           V == {Entry(c, k) : k \in 1 .. n + m}
<1>1. \A k \in 1 .. n + m : Entry(c, k) \in V
  OBVIOUS
<1>2. /\ r = [k \in 1..n |-> Entry(c, k)] /\ w = [k \in 1 .. n + m |-> Entry(c, k)]
      /\ \A k \in 1..n : k \in 1 .. n + m
      /\ \A k \in 1..m : n + k \in 1 .. n + m
  OBVIOUS
<1> HIDE DEF V, r, w
<1>3. r \in Seq(V) /\ Len(r) = n
  BY <1>1, <1>2
<1>4. s \in Seq(V) /\ Len(s) = m
  BY <1>1, <1>2
<1>5. w \in Seq(V) /\ Len(w) = n + m
  BY <1>1, <1>2
<1>6. /\ r \o s \in Seq(V) /\ Len(r \o s) = n + m
      /\ \A k \in 1 .. n + m : (r \o s)[k] = IF k <= n THEN r[k] ELSE s[k - n]
  <2>1. /\ r \o s \in Seq(V) /\ Len(r \o s) = Len(r) + Len(s)
        /\ \A k \in 1 .. Len(r) + Len(s) : (r \o s)[k] = IF k <= Len(r) THEN r[k] ELSE s[k - Len(r)]
    BY <1>3, <1>4, ConcatProperties
  <2> QED
    BY <1>3, <1>4, <2>1
<1>7. \A k \in 1 .. n + m : (r \o s)[k] = w[k]
  <2> SUFFICES ASSUME NEW k \in 1 .. n + m
               PROVE  (r \o s)[k] = Entry(c, k)
    BY <1>2
  <2>1. CASE k <= n
    BY <1>2, <1>6, <2>1
  <2>2. CASE ~(k <= n)
    <3>1. k - n \in 1..m /\ n + (k - n) = k
      BY <2>2
    <3> QED
      BY <1>2, <1>6, <2>2, <3>1
  <2> QED
    BY <2>1, <2>2
<1> QED
  BY <1>3, <1>4, <1>5, <1>6, <1>7, <1>2, SeqEqual

LEMMA AccumulateStep ==
    ASSUME IInv, Accumulate
    PROVE  IInv'
<1> USE DEF IInv
<1>1. /\ pc = "add" /\ dram' = dram /\ dirty' = dirty /\ clean' \subseteq clean \cup dram
      /\ call' = call /\ product' = product
      /\ acc' = acc \o IF IsMerged(call) THEN [k \in 1..NTiles(call) |-> Addend(k - 1)] ELSE <<Addend(t)>>
      /\ IF LastTile
         THEN /\ t' = 0 /\ g' = g + 1 /\ scanned' = {}
              /\ pc' = IF g + 1 = KBlocks THEN "done" ELSE "load1"
         ELSE t' = t + 1 /\ pc' = "load2" /\ g' = g /\ scanned' = scanned
  BY DEF Accumulate, Reads
<1>2. Pass = 2 /\ scanned = SeenOf(g, Tiles(call))
  BY <1>1 DEF Pass, ShiftInv
<1>3. /\ t \in Tiles(call) /\ NTiles(call) \in 1..8 /\ Tiles(call) = 0 .. NTiles(call) - 1
      /\ IsMerged(call)' = IsMerged(call) /\ Tiles(call)' = Tiles(call)
      /\ NTiles(call)' = NTiles(call)
      /\ IsMerged(call) => InHand = Tiles(call) /\ t = 0
      /\ ~IsMerged(call) => InHand = {t}
      /\ LastTile <=> IsMerged(call) \/ t = NTiles(call) - 1
      /\ g \in Nat /\ g < KBlocks /\ KBlocks \in Nat
  BY <1>1, TileShape, KBlocksAssumption DEF CtrlInv, IsMerged, InHand, LastTile
<1>4. \A i \in InHand : Addend(i) = Added(call, g, i)
  BY <1>1, <1>2, ReadFresh DEF Addend, Added
<1>5. CtrlInv'
  <2>1. CASE LastTile
    <3>1. 0 \in Tiles(call)
      BY <1>3
    <3> QED
      BY <1>1, <1>3, <2>1, <3>1 DEF CtrlInv
  <2>2. CASE ~LastTile
    BY <1>1, <1>3, <2>2 DEF CtrlInv
  <2> QED
    BY <2>1, <2>2
<1>6. MemInv'
  BY <1>1 DEF MemInv, Cells
<1>7. OperandInv' /\ ResultInv'
  <2>1. pc' \in {"load1", "load2", "done"}
    BY <1>1
  <2> QED
    BY <2>1 DEF OperandInv, ResultInv
<1>8. ShiftInv'
  <2>1. CASE LastTile
    <3>1. t' = 0 /\ scanned' = {} /\ pc' \in {"done", "load1"}
      BY <1>1, <2>1
    <3>2. SeenOf(g', {}) = {} /\ 0 .. 0 - 1 = {}
      BY DEF SeenOf
    <3>3. Pass' = 2 => pc' = "done"
      BY <3>1 DEF Pass
    <3> QED
      BY <1>3, <3>1, <3>2, <3>3 DEF ShiftInv
  <2>2. CASE ~LastTile
    <3>1. Pass' = 2
      BY <1>1, <2>2 DEF Pass
    <3> QED
      BY <1>1, <1>2, <1>3, <2>2, <3>1 DEF ShiftInv
  <2> QED
    BY <2>1, <2>2
<1>9. AccInv'
  <2> DEFINE n == NTiles(call)  base == g * NTiles(call)
  <2>1. base \in Nat /\ (g + 1) * NTiles(call) = base + n /\ n \in 1..8
    BY <1>3, NextRow
  <2>2. Count = base + t
    BY <1>2, <1>3 DEF Count
  <2>3. Count' = IF LastTile THEN base + n ELSE base + t + 1
    <3>1. CASE LastTile
      <4>1. t' = 0 /\ g' = g + 1
        BY <1>1, <3>1
      <4>2. Count' = (g + 1) * NTiles(call) + 0
        BY <1>3, <4>1 DEF Count
      <4> QED
        BY <2>1, <3>1, <4>2
    <3>2. CASE ~LastTile
      <4>1. Pass' = 2 /\ t' = t + 1 /\ g' = g /\ ~IsMerged(call)
        BY <1>1, <1>3, <3>2 DEF Pass
      <4>2. Count' = g * NTiles(call) + (t + 1)
        BY <1>3, <4>1 DEF Count
      <4> QED
        BY <1>3, <2>1, <3>2, <4>2
    <3> QED
      BY <3>1, <3>2
  <2>4. acc = [k \in 1 .. base + t |-> Entry(call, k)]
    BY <2>2 DEF AccInv
  <2>5. \A i \in Tiles(call) : Entry(call, base + i + 1) = Added(call, g, i)
    BY <1>3, NextEntries DEF CtrlInv
  <2> HIDE DEF base, n
  <2>6. CASE IsMerged(call)
    <3>1. [k \in 1..NTiles(call) |-> Addend(k - 1)] = [k \in 1..n |-> Entry(call, (base + t) + k)]
      <4>1. n = NTiles(call)
        BY DEF n
      <4>2. ASSUME NEW k \in 1..n
            PROVE  Addend(k - 1) = Entry(call, (base + t) + k)
        <5>1. k - 1 \in Tiles(call) /\ base + (k - 1) + 1 = (base + t) + k
          BY <1>3, <2>1, <2>6, <4>1
        <5> QED
          BY <1>3, <1>4, <2>5, <2>6, <5>1
      <4> QED
        BY <4>1, <4>2
    <3>2. acc' = [k \in 1 .. (base + t) + n |-> Entry(call, k)]
      <4>1. base + t \in Nat /\ n \in Nat
        BY <1>3, <2>1
      <4>2. acc' = acc \o [k \in 1..n |-> Entry(call, (base + t) + k)]
        BY <1>1, <2>6, <3>1
      <4> QED
        BY <2>4, <4>1, <4>2, Longer
    <3>3. Count' = (base + t) + n
      BY <1>3, <2>1, <2>3, <2>6
    <3> QED
      BY <1>1, <3>2, <3>3 DEF AccInv
  <2>7. CASE ~IsMerged(call)
    <3>1. <<Addend(t)>> = [k \in 1..1 |-> Entry(call, (base + t) + k)]
      <4>1. Addend(t) = Entry(call, (base + t) + 1)
        BY <1>3, <1>4, <2>1, <2>5, <2>7
      <4> QED
        BY <4>1
    <3>2. acc' = [k \in 1 .. (base + t) + 1 |-> Entry(call, k)]
      <4>1. base + t \in Nat
        BY <1>3, <2>1
      <4>2. acc' = acc \o [k \in 1..1 |-> Entry(call, (base + t) + k)]
        BY <1>1, <2>7, <3>1
      <4> QED
        BY <2>4, <4>1, <4>2, Longer
    <3>3. Count' = (base + t) + 1
      <4>1. n = NTiles(call)
        BY DEF n
      <4> QED
        BY <1>3, <2>1, <2>3, <2>7, <4>1
    <3> QED
      BY <1>1, <3>2, <3>3 DEF AccInv
  <2> QED
    BY <2>6, <2>7
<1> QED
  BY <1>5, <1>6, <1>7, <1>8, <1>9

-----------------------------------------------------------------------------
(* The cache, and the next product *)
LEMMA EvictStep ==
    ASSUME IInv, Evict
    PROVE  IInv'
<1> USE DEF IInv
<1>1. PICK c \in dirty : dram' = Put(dram, c) /\ dirty' = dirty \ {c}
  BY DEF Evict
<1>2. /\ call' = call /\ product' = product /\ pc' = pc /\ g' = g /\ t' = t
      /\ clean' = clean /\ scanned' = scanned /\ acc' = acc
  BY DEF Evict
<1>3. Pass' = Pass /\ IsMerged(call)' = IsMerged(call)
  BY <1>2 DEF Pass, IsMerged
<1>4. CtrlInv'
  BY <1>2, <1>3 DEF CtrlInv
<1>5. Operands' = Operands /\ InHand' = InHand /\ \A i : Res(i)' = Res(i)
  BY <1>2, <1>3, SameOperands, SameResults
<1>6. c.lo \in Nat /\ c.n \in Nat \ {0} /\ c.lo + c.n <= P1_OFF
  BY <1>1 DEF MemInv, Cells
<1>7. /\ Cells(dram') /\ Disjoint(dram')
      /\ [lo |-> c.lo, n |-> c.n, name |-> c.name, taint |-> c.taint] \in dram'
      /\ \A d \in dram : Apart(d, c) => d \in dram'
  BY <1>1, <1>6, WrittenFacts DEF Put, MemInv
<1>8. MemInv'
  BY <1>1, <1>2, <1>7 DEF MemInv, Cells, Disjoint
<1>9. \A v : Safe(v) => Safe(v)'
  <2> SUFFICES ASSUME NEW v, Safe(v)
               PROVE  v \in dram' /\ \A d \in dirty' : Apart(d, v)
    BY DEF Safe
  <2>1. v \in dram /\ \A d \in dirty : Apart(d, v)
    BY DEF Safe
  <2>2. Apart(v, c)
    BY <1>1, <2>1 DEF Apart
  <2> QED
    BY <1>1, <1>7, <2>1, <2>2
<1>10. \A v \in Operands : v \in dirty => v \in dirty' \/ Safe(v)'
  <2> SUFFICES ASSUME NEW v \in Operands, v \in dirty, v \notin dirty'
               PROVE  v \in dram' /\ \A d \in dirty' : Apart(d, v)
    BY DEF Safe
  <2>1. v = c
    BY <1>1
  <2>2. v \in dram'
    BY <1>7, <2>1, OperandFacts
  <2> QED
    BY <1>1, <2>1, <2>2 DEF MemInv, Disjoint
<1>11. OperandInv'
  BY <1>2, <1>3, <1>5, <1>9, <1>10 DEF OperandInv
<1>12. \A i \in InHand : Res(i) \in dram => Res(i) \in dram'
  <2> SUFFICES ASSUME NEW i \in InHand, Res(i) \in dram
               PROVE  Apart(Res(i), c)
    BY <1>7
  <2>1. Res(i).lo \in Nat /\ Res(i).n \in Nat \ {0} /\ P1_OFF <= Res(i).lo
    BY ResultFacts
  <2> QED
    BY <1>6, <2>1, Layout, SMT DEF Apart
<1>13. ResultInv'
  <2>1. IsMerged(call) => 0 .. t - 1 \subseteq InHand
    BY TileShape DEF InHand, CtrlInv
  <2> QED
    BY <1>2, <1>3, <1>5, <1>12, <2>1 DEF ResultInv
<1>14. ShiftInv'
  BY <1>2, <1>3 DEF ShiftInv
<1>15. AccInv'
  BY <1>2, <1>3, SameAcc DEF Count
<1> QED
  BY <1>4, <1>8, <1>11, <1>13, <1>14, <1>15

LEMMA FetchStep ==
    ASSUME IInv, Fetch
    PROVE  IInv'
<1> USE DEF IInv
<1>1. PICK c \in dram : clean' = clean \cup {c}
  BY DEF Fetch
<1>2. /\ call' = call /\ product' = product /\ pc' = pc /\ g' = g /\ t' = t
      /\ dram' = dram /\ dirty' = dirty /\ scanned' = scanned /\ acc' = acc
  BY DEF Fetch
<1>3. Pass' = Pass /\ IsMerged(call)' = IsMerged(call)
  BY <1>2 DEF Pass, IsMerged
<1>4. CtrlInv' /\ MemInv'
  BY <1>1, <1>2, <1>3 DEF CtrlInv, MemInv, Cells
<1>5. Operands' = Operands /\ InHand' = InHand /\ \A i : Res(i)' = Res(i)
  BY <1>2, <1>3, SameOperands, SameResults
<1>6. OperandInv'
  BY <1>2, <1>3, <1>5 DEF OperandInv, Safe
<1>7. \A i \in InHand : Res(i) \in dram /\ Agrees(clean, Res(i)) => Agrees(clean', Res(i))
  BY <1>1 DEF Agrees, MemInv, Disjoint
<1>8. ResultInv'
  BY <1>2, <1>3, <1>5, <1>7 DEF ResultInv
<1>9. ShiftInv'
  BY <1>2, <1>3 DEF ShiftInv
<1>10. AccInv'
  BY <1>2, <1>3, SameAcc DEF Count
<1> QED
  BY <1>4, <1>6, <1>8, <1>9, <1>10

\* Before the first block, nothing has been seen or added.
Fresh == /\ call \in Calls /\ pc = "load1" /\ g = 0 /\ t = 0 /\ scanned = {} /\ acc = <<>>
         /\ MemInv
LEMMA Begin == Fresh => IInv
<1> SUFFICES ASSUME Fresh
             PROVE  IInv
  OBVIOUS
<1> USE DEF Fresh
<1>1. NTiles(call) \in 1..8 /\ Tiles(call) = 0 .. NTiles(call) - 1
  BY TileShape
<1>2. CtrlInv
  BY <1>1, KBlocksAssumption DEF CtrlInv
<1>3. OperandInv /\ ResultInv
  BY DEF OperandInv, ResultInv
<1>4. Pass = 1
  BY DEF Pass
<1>5. ShiftInv
  BY <1>4 DEF ShiftInv, SeenOf
<1>6. Count = 0
  BY <1>1, <1>4 DEF Count
<1>7. AccInv
  BY <1>6 DEF AccInv
<1> QED
  BY <1>2, <1>3, <1>5, <1>7 DEF IInv

LEMMA AgainStep ==
    ASSUME IInv, Again
    PROVE  IInv'
<1>1. /\ call' \in Calls /\ pc' = "load1" /\ g' = 0 /\ t' = 0 /\ scanned' = {} /\ acc' = <<>>
  BY DEF Again
<1>2. MemInv'
  BY DEF Again, IInv, MemInv
<1>3. Fresh'
  BY <1>1, <1>2 DEF Fresh
<1> QED
  BY <1>3, Begin, PTL

-----------------------------------------------------------------------------
(* Every product comes out whole *)
LEMMA Whole ==
    ASSUME IInv
    PROVE  MatmulWhole
<1> USE DEF IInv
<1>1. pc # "exit"
  BY DEF CtrlInv
<1>2. acc = [k \in 1..Count |-> Entry(call, k)] /\ DOMAIN acc = 1..Count
  BY DEF AccInv
<1>3. ASSUME NEW k \in DOMAIN acc
      PROVE  acc[k].taint = {} /\ acc[k].shift = {<<acc[k].g, i, {}>> : i \in Tiles(call)}
  BY <1>2 DEF Entry, Added, SeenOf
<1>4. ASSUME pc = "done"
      PROVE  /\ Len(acc) = KBlocks * NTiles(call)
             /\ {<<a.g, a.t>> : a \in ToSet(acc)} = (0 .. KBlocks - 1) \X Tiles(call)
  <2>1. PICK n \in 1..8 : n = NTiles(call) /\ Tiles(call) = 0 .. n - 1
    BY TileShape DEF CtrlInv
  <2>2. KBlocks \in Nat \ {0} /\ g = KBlocks /\ t = 0
    BY <1>4, KBlocksAssumption DEF CtrlInv
  <2>3. KBlocks * n \in Nat /\ Count = KBlocks * n
    <3>1. KBlocks * n \in Nat
      BY <2>2, NextRow
    <3> QED
      BY <2>1, <2>2, <3>1 DEF Count
  <2>4. Len(acc) = KBlocks * n
    BY <1>2, <2>3
  <2>5. \A k \in 1..Count : acc[k].g = (k - 1) \div n /\ acc[k].t = (k - 1) % n
    BY <1>2, <2>1 DEF Entry, Added
  <2>6. ASSUME NEW k \in 1..Count
        PROVE  (k - 1) \div n \in 0 .. KBlocks - 1 /\ (k - 1) % n \in 0 .. n - 1
    <3>1. k - 1 \in Nat /\ k - 1 < KBlocks * n
      BY <2>3
    <3>2. n = 1 \/ n = 2 \/ n = 3 \/ n = 4 \/ n = 5 \/ n = 6 \/ n = 7 \/ n = 8
      OBVIOUS
    <3> QED
      BY <2>2, <3>1, <3>2
  <2>7. ASSUME NEW q \in 0 .. KBlocks - 1, NEW r \in 0 .. n - 1
        PROVE  \E k \in 1..Count : (k - 1) \div n = q /\ (k - 1) % n = r
    <3>1. (q * n + r) \div n = q /\ (q * n + r) % n = r
      BY QuotientOf
    <3>2. q * n + r + 1 \in 1..Count
      <4>1. n = 1 \/ n = 2 \/ n = 3 \/ n = 4 \/ n = 5 \/ n = 6 \/ n = 7 \/ n = 8
        OBVIOUS
      <4> QED
        BY <2>2, <2>3, <4>1
    <3>3. (q * n + r + 1) - 1 = q * n + r
      <4>1. q * n \in Nat
        BY NextRow
      <4> QED
        BY <4>1
    <3> WITNESS q * n + r + 1 \in 1..Count
    <3> QED
      BY <3>1, <3>3
  <2>8. ToSet(acc) = {acc[k] : k \in 1..Count}
    BY <1>2 DEF ToSet
  <2>9. {<<a.g, a.t>> : a \in ToSet(acc)} \subseteq (0 .. KBlocks - 1) \X Tiles(call)
    BY <2>1, <2>5, <2>6, <2>8
  <2>10. ASSUME NEW q \in 0 .. KBlocks - 1, NEW r \in Tiles(call)
         PROVE  <<q, r>> \in {<<a.g, a.t>> : a \in ToSet(acc)}
    <3>1. PICK k \in 1..Count : (k - 1) \div n = q /\ (k - 1) % n = r
      BY <2>1, <2>7
    <3>2. acc[k] \in ToSet(acc) /\ acc[k].g = q /\ acc[k].t = r
      BY <2>5, <2>8, <3>1
    <3> QED
      BY <3>2
  <2> QED
    BY <2>1, <2>4, <2>9, <2>10
<1> QED
  BY <1>1, <1>3, <1>4 DEF MatmulWhole

\* Whatever lines the cache writes back and fetches meanwhile, every product of however
\* many blocks comes out whole: no tile is without its command, none is added twice or
\* not at all, none was multiplied from operands or read as results of another block or
\* tile, and none was shifted before all tiles of its block had been looked at.
THEOREM ProductsWhole == Spec => []MatmulWhole
<1>1. Init => IInv
  <2> SUFFICES ASSUME Init
               PROVE  IInv
    OBVIOUS
  <2>1. MemInv
    BY DEF Init, MemInv, Cells, Disjoint
  <2> QED
    BY <2>1, Begin DEF Init, Fresh
<1>2. IInv /\ [Next]_vars => IInv'
  <2> SUFFICES ASSUME IInv, [Next]_vars
               PROVE  IInv'
    OBVIOUS
  <2>1. CASE Load
    BY <2>1, LoadStep
  <2>2. CASE FlushOperands
    BY <2>2, FlushStep
  <2>3. CASE RunCmdbuf
    BY <2>3, RunStep
  <2>4. CASE InvalidateResults
    BY <2>4, InvalidateStep
  <2>5. CASE Scan
    BY <2>5, ScanStep
  <2>6. CASE Accumulate
    BY <2>6, AccumulateStep
  <2>7. CASE Again
    BY <2>7, AgainStep
  <2>8. CASE Evict
    BY <2>8, EvictStep
  <2>9. CASE Fetch
    BY <2>9, FetchStep
  <2>10. CASE UNCHANGED vars
    <3>1. /\ call' = call /\ product' = product /\ pc' = pc /\ g' = g /\ t' = t /\ clean' = clean
          /\ dram' = dram /\ dirty' = dirty /\ scanned' = scanned /\ acc' = acc
      BY <2>10 DEF vars
    <3>2. Pass' = Pass /\ CtrlInv' /\ MemInv'
      BY <3>1 DEF IInv, Pass, CtrlInv, MemInv, IsMerged
    <3>3. Operands' = Operands /\ InHand' = InHand /\ \A i : Res(i)' = Res(i)
      BY <3>1, <3>2, SameOperands, SameResults
    <3>4. OperandInv' /\ ResultInv'
      BY <3>1, <3>3 DEF IInv, OperandInv, ResultInv, Safe, IsMerged
    <3>5. ShiftInv'
      BY <3>1, <3>2 DEF IInv, ShiftInv, IsMerged
    <3>6. AccInv'
      BY <3>1, <3>2, SameAcc DEF IInv, Count, IsMerged
    <3> QED
      BY <3>2, <3>3, <3>4, <3>5, <3>6 DEF IInv
  <2> QED
    BY <2>1, <2>2, <2>3, <2>4, <2>5, <2>6, <2>7, <2>8, <2>9, <2>10 DEF Next
<1>3. IInv => MatmulWhole
  BY Whole
<1> QED
  BY <1>1, <1>2, <1>3, PTL DEF Spec
-----------------------------------------------------------------------------
(* The shifts of the two passes *)

\* Every nonempty set of naturals has a least number.
LEMMA LeastNat ==
    ASSUME NEW S \in SUBSET Nat, S # {}
    PROVE  Min(S) \in S /\ \A k \in S : Min(S) <= k
<1>1. PICK m \in S : \A k \in S : <<k, m>> \notin OpToRel(<, Nat)
  BY NatLessThanWellFounded, WFMin
<1>2. \A k \in S : m <= k
  <2> SUFFICES ASSUME NEW k \in S PROVE m <= k
    OBVIOUS
  <2>1. ~(k < m)
    BY <1>1 DEF OpToRel
  <2> QED
    BY <2>1
<1> QED
  BY <1>2 DEF Min

\* Every nonempty set of integers of an interval has a largest one.
LEMMA LargestInt ==
    ASSUME NEW a \in Int, NEW b \in Int, NEW S \in SUBSET (a..b), S # {}
    PROVE  Max(S) \in S /\ \A k \in S : k <= Max(S)
<1> DEFINE T == {b - k : k \in S}
<1>1. T \in SUBSET Nat /\ T # {}
  OBVIOUS
<1>2. Min(T) \in T /\ \A k \in T : Min(T) <= k
  BY <1>1, LeastNat
<1>3. PICK m \in S : Min(T) = b - m
  BY <1>2
<1>4. \A k \in S : k <= m
  <2> SUFFICES ASSUME NEW k \in S PROVE k <= m
    OBVIOUS
  <2>1. b - m <= b - k
    BY <1>2, <1>3
  <2>2. k \in Int /\ m \in Int
    OBVIOUS
  <2> QED
    BY <2>1, <2>2
<1> HIDE DEF T
<1> QED
  BY <1>4 DEF Max

LEMMA MaxOfTwo ==
    ASSUME NEW x \in Int, NEW y \in Int
    PROVE  Max({x, y}) = IF x > y THEN x ELSE y
<1> DEFINE S == {x, y}
           m == IF x > y THEN x ELSE y
<1>1. m \in S /\ \A k \in S : k <= m
  OBVIOUS
<1>2. \A n \in S : n = m \/ ~ \A k \in S : k <= n
  OBVIOUS
<1>3. Max(S) = CHOOSE n \in S : \A k \in S : k <= n
  BY DEF Max
<1> HIDE DEF S
<1>4. Max(S) \in S /\ \A k \in S : k <= Max(S)
  BY <1>1, <1>3
<1>5. Max(S) = m
  BY <1>2, <1>4
<1> QED
  BY <1>5 DEF S

\* The shifts of pass 1.
LEMMA RSafeIs == \A wmax \in 0..8 : RSafe(wmax) \in {4, 5}
<1> SUFFICES ASSUME NEW wmax \in 0..8 PROVE RSafe(wmax) \in {4, 5}
  OBVIOUS
<1> DEFINE S == {r \in 0..20 : (32 * 127 * wmax) \div 2^r <= 127}
<1>1. 8 \in S
  BY 2^8 = 256
<1>2. S \in SUBSET Nat
  OBVIOUS
<1>3. MatmulRshiftW(32, wmax) = Min(S)
  BY DEF MatmulRshiftW
<1> HIDE DEF S
<1>4. Min(S) \in Nat /\ Min(S) <= 8
  BY <1>1, <1>2, LeastNat
<1> DEFINE m == Min(S)
           R == {4, m - 3}
<1>5. RSafe(wmax) = Max(R)
  BY <1>3 DEF RSafe
<1>6. m \in Nat /\ m <= 8
  BY <1>4
<1> HIDE DEF m
<1>7. Max(R) = IF 4 > m - 3 THEN 4 ELSE m - 3
  BY <1>6, MaxOfTwo
<1> QED
  BY <1>5, <1>6, <1>7

\* The powers of two that occur, as an operator the provers do not look into.
Two(r) == 2^r
LEMMA Twos ==
    ASSUME NEW r \in 0..6
    PROVE  Two(r) = IF r = 0 THEN 1 ELSE IF r = 1 THEN 2 ELSE IF r = 2 THEN 4 ELSE IF r = 3 THEN 8
                    ELSE IF r = 4 THEN 16 ELSE IF r = 5 THEN 32 ELSE 64
<1>1. /\ Two(0) = 1 /\ Two(1) = 2 /\ Two(2) = 4 /\ Two(3) = 8 /\ Two(4) = 16 /\ Two(5) = 32
      /\ Two(6) = 64
  BY DEF Two
<1>2. r = 0 \/ r = 1 \/ r = 2 \/ r = 3 \/ r = 4 \/ r = 5 \/ r = 6
  OBVIOUS
<1> QED
  BY <1>1, <1>2

\* One sum under a shift.
Shifted(a, P) == Int8((a + (P \div 2)) \div P)

LEMMA ShiftedIs ==
    ASSUME NEW a \in Int, NEW P \in {1, 2, 4, 8, 16, 32, 64}
    PROVE  Shifted(a, P) \in -128..127 /\ Abs(Shifted(a, P)) \in 0..128
<1> DEFINE q == (a + (P \div 2)) \div P
<1>1. q \in Int
  OBVIOUS
<1>2. Shifted(a, P) = Int8(q)
  BY DEF Shifted
<1> HIDE DEF q
<1>3. Int8(q) \in Int /\ -128 <= Int8(q) /\ Int8(q) <= 127
  BY <1>1 DEF Int8, Clamp
<1> QED
  BY <1>2, <1>3 DEF Abs

\* A sum that fits the first shift loses at most half a step of the coarser one; any
\* other is clipped.
SumFits(a, R, P) ==
    LET p == Shifted(a, P) * P
    IN  /\ Abs(a) <= 127 * R => 2 * Abs(a - p) <= (IF P > R THEN P ELSE R)
        /\ Abs(a) > 127 * R => /\ (a > 0 /\ p > 0) \/ (a < 0 /\ p < 0)
                               /\ Abs(p) >= 127 * R /\ Abs(p) <= Abs(a) + P

\* The shift of pass 2 is at most one more than that of pass 1.
LEMMA ROptIs ==
    ASSUME NEW rsafe \in {4, 5}, NEW most \in 0..128
    PROVE  /\ ROpt(most, rsafe) \in 0 .. rsafe + 1
           /\ most * Two(rsafe) <= 127 * Two(ROpt(most, rsafe))
<1> DEFINE S == {r \in 0..15 : most * Two(rsafe) <= 127 * Two(r)}
<1>1. S \in SUBSET Nat
  OBVIOUS
<1>2. rsafe + 1 \in S
  BY Twos
<1>3. ROpt(most, rsafe) = Min(S)
  BY DEF ROpt, Two
<1>4. Min(S) \in S /\ Min(S) <= rsafe + 1
  <2> HIDE DEF S
  <2> QED
    BY <1>1, <1>2, LeastNat
<1> QED
  BY <1>1, <1>3, <1>4

LEMMA Pass1Is ==
    ASSUME NEW block \in SUBSET Int, block # {}, NEW rsafe \in {4, 5}
    PROVE  /\ Pass1(block, rsafe) \in 0..128
           /\ \A a \in block : Abs(Shifted(a, Two(rsafe))) <= Pass1(block, rsafe)
<1> DEFINE v == [a \in block |-> Abs(Shifted(a, Two(rsafe)))]
           S == {v[a] : a \in block}
<1>1. Two(rsafe) \in {16, 32}
  BY Twos
<1>2. \A a \in Int : Abs(Shifted(a, Two(rsafe))) \in 0..128
  BY <1>1, ShiftedIs
<1>3. v \in [block -> 0..128]
  BY <1>2
<1>4. \A a \in block : v[a] = Abs(Shifted(a, Two(rsafe)))
  OBVIOUS
<1>5. Pass1(block, rsafe) = Max(S)
  BY DEF Pass1, Int8RoundDiv, Shifted, Two
<1> HIDE DEF v
<1>6. \A a \in block : v[a] \in S
  OBVIOUS
<1>7. \A k \in S : k \in 0..128
  BY <1>3
<1> HIDE DEF S
<1>8. Max(S) \in S /\ \A k \in S : k <= Max(S)
  <2>1. S \in SUBSET (0..128)
    BY <1>7
  <2>2. S # {}
    BY <1>6
  <2> QED
    BY <2>1, <2>2, LargestInt
<1>9. Max(S) \in 0..128 /\ \A a \in block : v[a] <= Max(S)
  BY <1>6, <1>7, <1>8
<1> QED
  BY <1>4, <1>5, <1>9

\* The two passes of a K-block (lines 536-671), for weights of every size a nibble has and
\* whatever the sums are: both shifts have a command, and each sum is off by at most half
\* a step of the coarser shift or, where pass 1 saturates, clipped.
THEOREM TwoPassSound ==
    ASSUME NEW wmax \in 0..8, NEW block \in SUBSET Int, block # {}
    PROVE  TwoPassFits(block, wmax)
<1> DEFINE rsafe == RSafe(wmax)
           most == Pass1(block, rsafe)
           r == ROpt(most, rsafe)
           Larger == IF r > rsafe THEN r ELSE rsafe
<1>1. rsafe \in {4, 5}
  BY RSafeIs
<1>2. most \in 0..128 /\ \A a \in block : Abs(Shifted(a, Two(rsafe))) <= most
  BY <1>1, Pass1Is
<1>3. r \in 0 .. rsafe + 1 /\ most * Two(rsafe) <= 127 * Two(r)
  BY <1>1, <1>2, ROptIs
<1>4. TwoPass(block, wmax) = [a \in block |-> Shifted(a, Two(r)) * Two(r)]
  BY DEF TwoPass, Int8RoundDiv, Shifted, Two
<1> HIDE DEF rsafe, most, r
<1>5. /\ r \in 0..6 /\ rsafe \in {4, 5} /\ r <= rsafe + 1
      /\ Two(rsafe) \in {16, 32} /\ Two(r) \in {1, 2, 4, 8, 16, 32, 64} /\ Two(r) <= 2 * Two(rsafe)
  BY <1>1, <1>3, Twos
<1>6. Max({r, rsafe}) = Larger
  <2>1. r \in Int /\ rsafe \in Int
    BY <1>5
  <2> QED
    BY <2>1, MaxOfTwo
<1>7. Two(Larger - 1) \in Int /\ 2 * Two(Larger - 1) = IF Two(r) > Two(rsafe) THEN Two(r) ELSE Two(rsafe)
  BY <1>5, Twos
<1>8. ASSUME NEW a \in block
      PROVE  LET p == TwoPass(block, wmax)[a]
             IN  IF Abs(a) <= 127 * Two(rsafe)
                 THEN Abs(a - p) <= Two(Larger - 1)
                 ELSE p * a >= 0 /\ Abs(p) >= 127 * Two(rsafe) /\ Abs(p) <= Abs(a) + Two(r)
  <2> DEFINE p == Shifted(a, Two(r)) * Two(r)
  <2>1. a \in Int /\ most * Two(rsafe) <= 127 * Two(r) /\ most \in 0..128 /\ Abs(Shifted(a, Two(rsafe))) <= most
    BY <1>2, <1>3
  <2>2. TwoPass(block, wmax)[a] = p
    BY <1>4
  <2>3. /\ Abs(a) <= 127 * Two(rsafe) => 2 * Abs(a - p) <= (IF Two(r) > Two(rsafe) THEN Two(r) ELSE Two(rsafe))
        /\ Abs(a) > 127 * Two(rsafe) => /\ (a > 0 /\ p > 0) \/ (a < 0 /\ p < 0)
                                        /\ Abs(p) >= 127 * Two(rsafe) /\ Abs(p) <= Abs(a) + Two(r)
    <3>1. SumFits(a, Two(rsafe), Two(r))
      <4> DEFINE R == Two(rsafe)  P == Two(r)
      <4>1. /\ R \in {16, 32} /\ P \in {1, 2, 4, 8, 16, 32, 64} /\ P <= 2 * R /\ a \in Int
            /\ most * R <= 127 * P /\ most \in 0..128 /\ Abs(Shifted(a, R)) <= most
        BY <1>5, <2>1
      <4> HIDE DEF R, P
      <4>2. SumFits(a, R, P)
        BY <4>1 DEF SumFits, Shifted, Int8, Clamp, Abs
      <4> QED
        BY <4>2 DEF R, P
    <3> QED
      BY <3>1 DEF SumFits
  <2>4. p \in Int /\ Abs(a) \in Int /\ Abs(a - p) \in Int
    <3>1. Shifted(a, Two(r)) \in Int /\ Two(r) \in Int
      <4> DEFINE P == Two(r)
      <4>1. P \in {1, 2, 4, 8, 16, 32, 64} /\ a \in Int
        BY <1>5, <2>1
      <4> HIDE DEF P
      <4>2. Shifted(a, P) \in -128..127
        BY <4>1, ShiftedIs
      <4>3. Shifted(a, P) \in Int /\ P \in Int
        BY <4>1, <4>2
      <4> QED
        BY <4>3 DEF P
    <3>2. p \in Int
      BY <3>1
    <3> HIDE DEF p
    <3> QED
      BY <2>1, <3>2 DEF Abs
  <2> HIDE DEF p
  <2>5. (a > 0 /\ p > 0) \/ (a < 0 /\ p < 0) => p * a >= 0
    BY <2>1, <2>4
  <2> HIDE DEF Larger
  <2> QED
    BY <1>5, <1>7, <2>2, <2>3, <2>4, <2>5
<1>9. most * Two(rsafe) <= 127 * 2^15
  BY <1>2, <1>5, 2^15 = 32768
<1> QED
  BY <1>6, <1>8, <1>9 DEF TwoPassFits, rsafe, most, r, Two

\* The shifts and the error bound are right in every state, for every block of sums the
\* run looks at: an instance of TwoPassSound.
THEOREM ShiftsAlways == Spec => []ShiftsBounded
<1>1. ASSUME NEW wmax \in {1, 3, 7, 8}, NEW block \in Blocks(wmax)
      PROVE  TwoPassFits(block, wmax)
  <2>1. PICK a \in Sums(wmax) : block = {a} \/ block = {-a} \/ block = {a, -(a \div 3)}
    BY <1>1 DEF Blocks
  <2>2. a \in Int
    <3>1. Sums(wmax) \in SUBSET (0 .. 32 * 127 * wmax)
      BY DEF Sums
    <3> QED
      BY <2>1, <3>1
  <2>3. a \div 3 \in Int
    BY <2>2
  <2>4. block \in SUBSET Int /\ block # {}
    <3> DEFINE u == a \div 3
    <3> HIDE DEF u
    <3>1. u \in Int
      BY <2>3 DEF u
    <3> QED
      BY <2>1, <2>2, <3>1 DEF u
  <2> QED
    BY <2>4, TwoPassSound
<1>2. ShiftsBounded
  BY <1>1 DEF ShiftsBounded, TwoPassBounded
<1> QED
  BY <1>2, PTL

-----------------------------------------------------------------------------
(* The kernels *)

LEMMA NibblesAgree == DequantAgrees
<1> SUFFICES ASSUME NEW b \in 0..255 PROVE dequant_kal_rvv(b) = dequant_kal_scalar(b)
  BY DEF DequantAgrees
<1> DEFINE hi == b \div 16
           lo == b % 16
<1>1. hi \in 0..15 /\ lo \in 0..15 /\ b = 16 * hi + lo
  OBVIOUS
<1> HIDE DEF hi, lo
<1>2. Lane8(b) = 16 * Signed(hi) + lo
  BY <1>1 DEF Lane8, Signed
<1>3. Lane8(Lane8(b) * 16) = 16 * Signed(lo)
  <2> DEFINE s == Signed(hi)
  <2>1. s \in Int
    BY <1>1 DEF Signed
  <2> HIDE DEF s
  <2>2. ((16 * s + lo) * 16) % 256 = 16 * lo
    BY <1>1, <2>1
  <2> QED
    BY <1>1, <1>2, <2>2 DEF Lane8, Signed, s
<1>4. Lane8(b) \div 16 = Signed(hi)
  BY <1>1, <1>2 DEF Signed
<1>5. Lane8(Lane8(b) * 16) \div 16 = Signed(lo)
  BY <1>1, <1>3 DEF Signed
<1> QED
  BY <1>4, <1>5 DEF dequant_kal_rvv, dequant_kal_scalar, hi, lo

\* The strips of 128 columns cover a window of any width once.
LEMMA StripsCover ==
    ASSUME NEW n \in Nat
    PROVE  StripsTile(n)
<1> DEFINE c == (n + 127) \div 128
           S == Strips(n)
<1>1. c \in Nat /\ 128 * c >= n /\ 128 * c < n + 128
  OBVIOUS
<1>2. DOMAIN S = 1..c
  BY DEF Strips
<1>3. \A i \in 1..c : \A x : x \in S[i] <=> x \in 0..n-1 /\ 128 * (i - 1) <= x /\ x < 128 * i
  <2> SUFFICES ASSUME NEW i \in 1..c, NEW x
               PROVE  x \in S[i] <=> x \in 0..n-1 /\ 128 * (i - 1) <= x /\ x < 128 * i
    OBVIOUS
  <2> DEFINE off == 128 * (i - 1)
             len == IF n - off > 128 THEN 128 ELSE n - off
  <2>1. S[i] = off .. off + len - 1
    BY DEF Strips
  <2>2. i \in Int /\ off \in Nat /\ off < n /\ 128 * i = off + 128
    BY <1>1
  <2> HIDE DEF off
  <2>3. len \in Int /\ off + len <= n /\ len <= 128 /\ (len < 128 => off + len = n)
    BY <2>2
  <2> HIDE DEF len, S, c
  <2>4. x \in off .. off + len - 1 <=> x \in 0..n-1 /\ off <= x /\ x < off + 128
    BY <2>2, <2>3
  <2> QED
    BY <2>1, <2>2, <2>4 DEF off
<1> HIDE DEF S, c
<1>4. \A x \in 0..n-1 : x \div 128 + 1 \in 1..c /\ x \in S[x \div 128 + 1]
  <2> SUFFICES ASSUME NEW x \in 0..n-1 PROVE x \div 128 + 1 \in 1..c /\ x \in S[x \div 128 + 1]
    OBVIOUS
  <2> DEFINE k == x \div 128
  <2>1. k \in Nat /\ 128 * k <= x /\ x < 128 * k + 128
    OBVIOUS
  <2> HIDE DEF k
  <2>2. k + 1 \in 1..c
    BY <1>1, <2>1
  <2>3. 128 * ((k + 1) - 1) <= x /\ x < 128 * (k + 1)
    BY <2>1
  <2> QED
    BY <1>3, <2>2, <2>3 DEF k
<1>5. UNION {S[i] : i \in 1..c} = 0..n-1
  BY <1>3, <1>4
<1>6. ASSUME NEW i \in 1..c, NEW j \in 1..c, i # j
      PROVE  S[i] \cap S[j] = {}
  <2> SUFFICES ASSUME NEW x \in S[i], x \in S[j] PROVE FALSE
    OBVIOUS
  <2>1. /\ x \in Int /\ 128 * (i - 1) <= x /\ x < 128 * i
        /\ 128 * (j - 1) <= x /\ x < 128 * j
    BY <1>3
  <2>2. i \in Int /\ j \in Int
    BY <1>1
  <2> QED
    BY <1>6, <2>1, <2>2
<1> QED
  BY <1>2, <1>5, <1>6 DEF S, StripsTile

LEMMA UnpackersAgree ==
    ASSUME NEW p \in Int
    PROVE  Int8((Clamp(p, -32768, 32767) + 128) \div 256) = Int8((p + 128) \div 256)
<1>1. CASE p > 32767
  <2>1. (p + 128) \div 256 \in Int /\ (p + 128) \div 256 >= 128
    BY <1>1
  <2>2. (32767 + 128) \div 256 = 128
    OBVIOUS
  <2> QED
    BY <1>1, <2>1, <2>2 DEF Clamp, Int8
<1>2. CASE p < -32768
  <2>1. (p + 128) \div 256 \in Int /\ (p + 128) \div 256 <= -128
    BY <1>2
  <2>2. (-32768 + 128) \div 256 = -128
    <3> DEFINE y == -32768 + 128
    <3>1. y \in Int /\ 256 * (-128) <= y /\ y < 256 * (-127)
      OBVIOUS
    <3> HIDE DEF y
    <3>2. y \div 256 = -128
      BY <3>1
    <3> QED
      BY <3>2 DEF y
  <2> QED
    BY <1>2, <2>1, <2>2 DEF Clamp, Int8
<1>3. CASE p >= -32768 /\ p <= 32767
  <2>1. Clamp(p, -32768, 32767) = p
    BY <1>3 DEF Clamp
  <2> QED
    BY <2>1
<1> QED
  BY <1>1, <1>2, <1>3

\* A half-precision number is its three fields.
LEMMA FieldsOf ==
    ASSUME NEW h \in Nat, h < 65536
    PROVE  LET f == Fields(h)
           IN  /\ f.sign \in Nat /\ f.exp \in Nat /\ f.exp < 32 /\ f.man \in Nat /\ f.man < 1024
               /\ h = 32768 * f.sign + 1024 * f.exp + f.man
<1> DEFINE u == h \div 1024
           m == h % 1024
           s == h \div 32768
<1>1. /\ u \in Nat /\ m \in Nat /\ m < 1024 /\ h = 1024 * u + m /\ u < 64
      /\ Fields(h) = [sign |-> s, exp |-> u % 32, man |-> m]
  BY DEF Fields
<1>2. u % 32 = (IF u < 32 THEN u ELSE u - 32)
  BY <1>1
<1>3. s = (IF h < 32768 THEN 0 ELSE 1)
  OBVIOUS
<1> HIDE DEF u, m, s
<1> DEFINE e == u % 32
<1>4. s \in Nat /\ e \in Nat /\ e < 32 /\ h = 32768 * s + 1024 * e + m
  BY <1>1, <1>2, <1>3
<1> HIDE DEF e
<1>5. Fields(h) = [sign |-> s, exp |-> e, man |-> m]
  BY <1>1 DEF e
<1>6. Fields(h).sign = s /\ Fields(h).exp = e /\ Fields(h).man = m
  BY <1>5
<1>7. m \in Nat /\ m < 1024
  BY <1>1
<1> DEFINE f == Fields(h)
<1>8. f.sign = s /\ f.exp = e /\ f.man = m
  BY <1>6
<1> HIDE DEF f
<1>9. /\ f.sign \in Nat /\ f.exp \in Nat /\ f.exp < 32 /\ f.man \in Nat /\ f.man < 1024
      /\ h = 32768 * f.sign + 1024 * f.exp + f.man
  BY <1>4, <1>7, <1>8
<1> QED
  BY <1>9 DEF f

\* The powers of two by which a subnormal is shifted.
LEMMA ShiftBy ==
    ASSUME NEW k \in 1..10
    PROVE  Two(k) \in Nat /\ Two(k) > 0 /\ Two(13 + k) = 8192 * Two(k)
<1>1. /\ Two(1) = 2 /\ Two(2) = 4 /\ Two(3) = 8 /\ Two(4) = 16 /\ Two(5) = 32
      /\ Two(6) = 64 /\ Two(7) = 128 /\ Two(8) = 256 /\ Two(9) = 512 /\ Two(10) = 1024
  BY DEF Two
<1>2. /\ Two(14) = 16384 /\ Two(15) = 32768 /\ Two(16) = 65536 /\ Two(17) = 131072
      /\ Two(18) = 262144 /\ Two(19) = 524288 /\ Two(20) = 1048576 /\ Two(21) = 2097152
      /\ Two(22) = 4194304 /\ Two(23) = 8388608
  BY DEF Two
<1>3. \/ k = 1 \/ k = 2 \/ k = 3 \/ k = 4 \/ k = 5 \/ k = 6 \/ k = 7 \/ k = 8 \/ k = 9 \/ k = 10
  OBVIOUS
<1> QED
  BY <1>1, <1>2, <1>3

\* The shift puts the leading bit of a subnormal in place.
LEMMA ShiftsIs ==
    ASSUME NEW m \in Nat, m > 0, m < 1024
    PROVE  Shifts(m) \in 1..10 /\ 1024 <= m * Two(Shifts(m)) /\ m * Two(Shifts(m)) < 2048
<1> DEFINE S == {k \in 0..10 : m * Two(k) >= 1024}
           k == Min(S)
<1>1. Shifts(m) = k
  BY DEF Shifts, Two
<1>2. /\ Two(0) = 1 /\ Two(1) = 2 /\ Two(2) = 4 /\ Two(3) = 8 /\ Two(4) = 16 /\ Two(5) = 32
      /\ Two(6) = 64 /\ Two(7) = 128 /\ Two(8) = 256 /\ Two(9) = 512 /\ Two(10) = 1024
  BY DEF Two
<1>3. 10 \in S /\ 0 \notin S
  BY <1>2
<1>4. k \in S /\ \A j \in S : k <= j
  BY <1>3, LeastNat
<1> HIDE DEF k
<1>5. k \in 1..10 /\ m * Two(k) >= 1024 /\ k - 1 \notin S
  BY <1>3, <1>4
<1>6. Two(k) = 2 * Two(k - 1) /\ Two(k - 1) \in Nat
  <2>1. \/ k = 1 \/ k = 2 \/ k = 3 \/ k = 4 \/ k = 5 \/ k = 6 \/ k = 7 \/ k = 8 \/ k = 9 \/ k = 10
    BY <1>5
  <2> QED
    BY <1>2, <2>1
<1>7. m * Two(k - 1) < 1024
  BY <1>5, <1>6
<1>8. m * Two(k) = 2 * (m * Two(k - 1))
  BY <1>6
<1> QED
  BY <1>1, <1>5, <1>6, <1>7, <1>8

LEMMA Cancels ==
    ASSUME NEW m \in Nat, NEW d \in Nat, d > 0
    PROVE  (m * d) \div d = m
<1> DEFINE q == (m * d) \div d
<1>1. m * d \in Nat /\ q \in Int /\ d * q <= m * d /\ m * d < d * q + d
  OBVIOUS
<1> HIDE DEF q
<1>2. ~(q <= m - 1)
  <2>1. q <= m - 1 => d * q <= d * (m - 1)
    BY <1>1
  <2>2. d * (m - 1) = m * d - d
    OBVIOUS
  <2> QED
    BY <1>1, <2>1, <2>2
<1>3. ~(q >= m + 1)
  <2>1. q >= m + 1 => d * q >= d * (m + 1)
    BY <1>1
  <2>2. d * (m + 1) = m * d + d
    OBVIOUS
  <2> QED
    BY <1>1, <2>1, <2>2
<1> QED
  BY <1>1, <1>2, <1>3 DEF q

\* Widening a subnormal, under either bias.
LEMMA SubnormalIs ==
    ASSUME NEW s \in Nat, NEW m \in Nat, m > 0, m < 1024, NEW f, f.sign = s, f.man = m
    PROVE  /\ Subnormal(f, 113) = Single(s, 113 - Shifts(m), (m * Two(Shifts(m)) - 1024) * 8192)
           /\ Subnormal(f, 112) = Single(s, 112 - Shifts(m), (m * Two(Shifts(m)) - 1024) * 8192)
<1> DEFINE k == Shifts(m)
           n == m * Two(k)
<1>1. k \in 1..10 /\ 1024 <= n /\ n < 2048
  BY ShiftsIs
<1>2. n \in Int
  BY <1>1, ShiftBy
<1>3. /\ Subnormal(f, 113) = Single(s, 113 - k, (n % 1024) * 8192)
      /\ Subnormal(f, 112) = Single(s, 112 - k, (n % 1024) * 8192)
  BY DEF Subnormal, Two
<1> HIDE DEF n
<1>4. n % 1024 = n - 1024
  BY <1>1, <1>2
<1> QED
  BY <1>3, <1>4 DEF n

\* Narrowing a subnormal that was widened as it should be.
Wide(s, m) == Single(s, 113 - Shifts(m), (m * Two(Shifts(m)) - 1024) * 8192)
LEMMA SubnormalNarrowed ==
    ASSUME NEW s \in Nat, NEW m \in Nat, m > 0, m < 1024
    PROVE  LET x == Wide(s, m)
           IN  /\ float_to_fp16(x) = 32768 * s + (IF m < 512 THEN m ELSE m + 1024) \div 8
               /\ fp32_to_fp16(x) = 32768 * s
               /\ 2^23 + x.man = m * Two(126 - x.exp)
<1> DEFINE k == Shifts(m)
           n == m * Two(k)
           x == Single(s, 113 - k, (n - 1024) * 8192)
           d == Two(13 + k)
<1>1. k \in 1..10 /\ 1024 <= n /\ n < 2048
  BY ShiftsIs
<1>2. Two(k) \in Nat /\ Two(k) > 0 /\ d = 8192 * Two(k)
  BY <1>1, ShiftBy
<1>3. x.sign = s /\ x.exp = 113 - k /\ x.man = (n - 1024) * 8192
  BY DEF Single
<1>4. m * d = 8192 * n
  BY <1>2
<1>5. n \in Nat /\ d \in Nat /\ d > 0
  BY <1>2
<1>6. 2^23 = 8388608
  OBVIOUS
<1> HIDE DEF k, n, x
<1>7. 2^23 + x.man = m * d
  BY <1>3, <1>4, <1>5, <1>6
<1>8. 126 - x.exp = 13 + k /\ 14 - (x.exp - 112) = 13 + k
  BY <1>1, <1>3
<1> HIDE DEF d
<1>9. (2^23 + x.man) \div d = m
  BY <1>5, <1>7, Cancels
<1>10. Two(126 - x.exp) = d /\ 2^(14 - (x.exp - 112)) = d
  BY <1>8 DEF d, Two
<1>11. /\ x.exp # 255 /\ ~(x.exp - 112 >= 31) /\ ~(x.exp - 112 < -10) /\ x.exp - 112 <= 0
       /\ ~(x.exp - 127 > 15) /\ x.exp - 127 < -14
  BY <1>1, <1>3
<1>12. (m \div 512) % 2 = IF m < 512 THEN 0 ELSE 1
  OBVIOUS
<1>13. float_to_fp16(x) = 32768 * x.sign + (IF (m \div 512) % 2 = 1 THEN m + 1024 ELSE m) \div 8
  BY <1>9, <1>10, <1>11 DEF float_to_fp16
<1>14. (IF (m \div 512) % 2 = 1 THEN m + 1024 ELSE m) = (IF m < 512 THEN m ELSE m + 1024)
  BY <1>12
<1>15. fp32_to_fp16(x) = 32768 * x.sign
  BY <1>11 DEF fp32_to_fp16
<1> QED
  BY <1>3, <1>7, <1>10, <1>13, <1>14, <1>15 DEF x, n, k, Wide

LEMMA ManMoves ==
    ASSUME NEW m \in Nat
    PROVE  (m * 8192) \div 8192 = m /\ ((m * 8192) \div 4096) % 2 = 0
<1>1. (m * 8192) \div 8192 = m
  OBVIOUS
<1>2. (m * 8192) \div 4096 = 2 * m
  OBVIOUS
<1>3. (2 * m) % 2 = 0
  OBVIOUS
<1> QED
  BY <1>1, <1>2, <1>3

\* Narrowing undoes the widening of a normal number.
LEMMA Narrowed ==
    ASSUME NEW s \in Nat, NEW e \in Nat, e # 0, e < 31, NEW m \in Nat,
           NEW x, x.sign = s, x.exp = e + 112, x.man \div 8192 = m, (x.man \div 4096) % 2 = 0
    PROVE  /\ float_to_fp16(x) = 32768 * s + 1024 * e + m
           /\ fp32_to_fp16(x) = 32768 * s + 1024 * e + m
<1> DEFINE c == x.exp - 112
<1>1. /\ c = e /\ x.exp # 255 /\ ~(c >= 31) /\ ~(c < -10) /\ ~(c <= 0)
      /\ ~(x.exp - 127 > 15) /\ ~(x.exp - 127 < -14)
  OBVIOUS
<1>2. float_to_fp16(x) = 32768 * x.sign + (1024 * c + x.man \div 8192 + 0)
  BY <1>1 DEF float_to_fp16
<1>3. fp32_to_fp16(x) = 32768 * x.sign + 1024 * c + x.man \div 8192
  BY <1>1 DEF fp32_to_fp16
<1> HIDE DEF c
<1> QED
  BY <1>1, <1>2, <1>3

\* What the conversions make of a half-precision number.
LEMMA HalfIs ==
    ASSUME NEW h \in Nat, h < 65536
    PROVE  HalfAgrees(h)
<1> DEFINE f == Fields(h)
           x == fp16_to_f32(h)
<1>1. /\ f.sign \in Nat /\ f.exp \in Nat /\ f.exp < 32 /\ f.man \in Nat /\ f.man < 1024
      /\ h = 32768 * f.sign + 1024 * f.exp + f.man
  BY FieldsOf
<1>2. fp16_to_float(h) = x
  BY 1 + 112 = 113 DEF fp16_to_float, fp16_to_f32
<1>3. CASE f.exp = 0 /\ f.man # 0
  <2> DEFINE m == f.man
             n == m * Two(Shifts(m))
  <2>1. m > 0 /\ m < 1024 /\ m \in Nat
    BY <1>1, <1>3
  <2>2. /\ x = Subnormal(f, 113) /\ f16_to_f32(h) = Subnormal(f, 112)
        /\ fp16_to_fp32(h) = Single(f.sign, 0, 0)
    BY <1>3 DEF fp16_to_f32, f16_to_f32, fp16_to_fp32, Widened
  <2>3. /\ x = Single(f.sign, 113 - Shifts(m), (n - 1024) * 8192)
        /\ f16_to_f32(h) = Single(f.sign, 112 - Shifts(m), (n - 1024) * 8192)
    <3> HIDE DEF f, x
    <3> QED
      BY <1>1, <2>1, <2>2, SubnormalIs
  <2>4. /\ float_to_fp16(x) = 32768 * f.sign + (IF m < 512 THEN m ELSE m + 1024) \div 8
        /\ fp32_to_fp16(x) = 32768 * f.sign
        /\ 2^23 + x.man = m * Two(126 - x.exp)
    <3> DEFINE sign == f.sign
    <3>1. sign \in Nat /\ x = Wide(sign, m)
      BY <1>1, <2>3 DEF Wide
    <3> HIDE DEF x, m, sign
    <3>2. /\ float_to_fp16(Wide(sign, m)) = 32768 * sign + (IF m < 512 THEN m ELSE m + 1024) \div 8
          /\ fp32_to_fp16(Wide(sign, m)) = 32768 * sign
          /\ 2^23 + Wide(sign, m).man = m * Two(126 - Wide(sign, m).exp)
      BY <2>1, <3>1, SubnormalNarrowed
    <3> QED
      BY <3>1, <3>2 DEF sign
  <2>5. Shifts(m) \in Int
    BY <2>1, ShiftsIs
  <2>6. f16_to_f32(h) = [x EXCEPT !.exp = @ - 1] /\ x.sign = f.sign
    <3> HIDE DEF f, x, n
    <3> QED
      BY <2>3, <2>5 DEF Single
  <2>7. StandsFor(x, h)
    <3>1. x.sign = f.sign /\ (f.exp = 0 /\ f.man = 0 => x.exp = 0 /\ x.man = 0)
      BY <1>3, <2>6
    <3>2. f.exp # 0 => x.man = f.man * 8192 /\ x.exp = IF f.exp = 31 THEN 255 ELSE f.exp + 112
      BY <1>3
    <3> HIDE DEF x
    <3> QED
      BY <2>4, <3>1, <3>2 DEF StandsFor, Two
  <2> HIDE DEF x
  <2> QED
    BY <1>2, <1>3, <2>2, <2>4, <2>6, <2>7 DEF HalfAgrees, x
<1>4. CASE ~(f.exp = 0 /\ f.man # 0)
  <2>1. x = Widened(f, Single(f.sign, 0, 0)) /\ f16_to_f32(h) = x /\ fp16_to_fp32(h) = x
    BY <1>4 DEF fp16_to_f32, f16_to_f32, fp16_to_fp32, Widened, Subnormal
  <2>2. /\ x.sign = f.sign /\ x.man = f.man * 8192
        /\ x.exp = IF f.exp = 0 THEN 0 ELSE IF f.exp = 31 THEN 255 ELSE f.exp + 112
    <3>1. CASE f.exp = 0
      <4>1. x = Single(f.sign, 0, 0) /\ f.man = 0
        BY <1>4, <2>1, <3>1 DEF Widened
      <4> HIDE DEF f, x
      <4> QED
        BY <3>1, <4>1 DEF Single
    <3>2. CASE f.exp = 31
      <4>1. x = Single(f.sign, 255, f.man * 8192)
        BY <2>1, <3>2 DEF Widened, Special
      <4> HIDE DEF f, x
      <4> QED
        BY <3>2, <4>1 DEF Single
    <3>3. CASE f.exp # 0 /\ f.exp # 31
      <4>1. x = Single(f.sign, f.exp + 112, f.man * 8192)
        BY <2>1, <3>3 DEF Widened, Normal
      <4> HIDE DEF f, x
      <4> QED
        BY <3>3, <4>1 DEF Single
    <3> QED
      BY <3>1, <3>2, <3>3
  <2>3. x.man \div 8192 = f.man /\ (x.man \div 4096) % 2 = 0 /\ (x.man = 0 <=> f.man = 0)
    <3> HIDE DEF f, x
    <3> QED
      BY <1>1, <2>2, ManMoves
  <2>4. StandsFor(x, h)
    <3> HIDE DEF x
    <3>1. /\ x.sign = f.sign
          /\ (f.exp = 0 /\ f.man = 0 => x.exp = 0 /\ x.man = 0)
          /\ (f.exp # 0 => x.man = f.man * 8192 /\ x.exp = IF f.exp = 31 THEN 255 ELSE f.exp + 112)
      <4> HIDE DEF f
      <4> QED
        BY <2>2
    <3> QED
      BY <1>4, <3>1 DEF StandsFor
  <2>5. /\ float_to_fp16(x) = IF f.exp = 31 /\ f.man # 0 THEN 32768 * f.sign + 32256 ELSE h
        /\ fp32_to_fp16(x) = IF f.exp = 31 /\ f.man # 0 THEN 32768 * f.sign + 31744 ELSE h
    <3> HIDE DEF f, x
    <3>1. CASE f.exp = 0
      <4>1. x.exp = 0 /\ f.man = 0
        BY <1>4, <2>2, <3>1
      <4>2. float_to_fp16(x) = 32768 * x.sign + 0 /\ fp32_to_fp16(x) = 32768 * x.sign
        BY <4>1 DEF float_to_fp16, fp32_to_fp16
      <4> QED
        BY <1>1, <2>2, <3>1, <4>1, <4>2
    <3>2. CASE f.exp = 31
      <4>1. x.exp = 255
        BY <2>2, <3>2
      <4>2. /\ float_to_fp16(x) = 32768 * x.sign + (IF x.man = 0 THEN 31744 ELSE 32256)
            /\ fp32_to_fp16(x) = 32768 * x.sign + 31744
        BY <4>1 DEF float_to_fp16, fp32_to_fp16
      <4> QED
        BY <1>1, <2>2, <2>3, <3>2, <4>2
    <3>3. CASE f.exp # 0 /\ f.exp # 31
      <4>1. x.exp = f.exp + 112 /\ f.exp < 31
        BY <1>1, <2>2, <3>3
      <4> QED
        BY <1>1, <2>2, <2>3, <3>3, <4>1, Narrowed
    <3> QED
      BY <3>1, <3>2, <3>3
  <2> HIDE DEF x
  <2> QED
    BY <1>2, <1>4, <2>1, <2>4, <2>5 DEF HalfAgrees, x
<1> QED
  BY <1>3, <1>4

\* Rounding to the nearest integer is off by at most a half.
LEMMA Rounded ==
    ASSUME NEW a \in Int, NEW b \in Nat, b > 0
    PROVE  LET u == RoundDiv(a, b)
           IN  u \in Int /\ 2 * a - b <= 2 * (u * b) /\ 2 * (u * b) <= 2 * a + b
<1> DEFINE d == 2 * b
           n == 2 * a + b
           k == n \div d
           r == n % d
<1>1. d \in Int /\ d > 0 /\ n \in Int
  OBVIOUS
<1>2. k \in Int /\ r \in Int /\ 0 <= r /\ r < d /\ n = d * k + r
  <2> HIDE DEF d, n
  <2> QED
    BY <1>1
<1>3. d * k = 2 * (k * b) /\ k * b \in Int /\ (k - 1) * b = k * b - b
  <2> HIDE DEF k
  <2> QED
    BY <1>2
<1> DEFINE u == RoundDiv(a, b)
<1>4. u = IF r = 0 /\ k % 2 = 1 THEN k - 1 ELSE k
  BY DEF RoundDiv
<1> HIDE DEF u, k, r
<1>5. u \in Int /\ u * b = IF r = 0 /\ k % 2 = 1 THEN k * b - b ELSE k * b
  BY <1>2, <1>3, <1>4
<1> DEFINE p == k * b
           ub == u * b
<1>6. n = 2 * p + r /\ p \in Int /\ ub = IF r = 0 /\ k % 2 = 1 THEN p - b ELSE p
  BY <1>2, <1>3, <1>5
<1> HIDE DEF p, ub
<1>7. 2 * a - b <= 2 * ub /\ 2 * ub <= 2 * a + b
  BY <1>2, <1>6
<1> QED
  BY <1>5, <1>7 DEF u, ub

\* The quotient a value is packed as.
PackedAs(q, v, most) ==
    /\ q \in Int /\ -7 <= q /\ q <= 7
    /\ 14 * v - most <= 2 * (q * most) /\ 2 * (q * most) <= 14 * v + most
    /\ Abs(v) = most => q * most = 7 * v
LEMMA QuotientIs ==
    ASSUME NEW most \in Nat, most > 0, NEW v \in Int, -most <= v, v <= most
    PROVE  PackedAs(Quotient(v, most), v, most)
<1> DEFINE q == Quotient(v, most)
<1>1. CASE FallsShort(v, most)
  <2>1. 2 * Abs(v) = most
    BY <1>1 DEF FallsShort
  <2>2. q = IF v < 0 THEN -3 ELSE 3
    BY <1>1 DEF Quotient
  <2> HIDE DEF q
  <2>a. Abs(v) # most /\ Abs(v) = IF v < 0 THEN -v ELSE v
    BY <2>1 DEF Abs
  <2>3. ASSUME v < 0 PROVE PackedAs(q, v, most)
    <3>1. q = -3 /\ most = -(2 * v)
      BY <2>1, <2>2, <2>3, <2>a
    <3>2. q * most = 6 * v
      BY <3>1
    <3> QED
      BY <2>a, <3>1, <3>2 DEF PackedAs
  <2>4. ASSUME v >= 0 PROVE PackedAs(q, v, most)
    <3>1. q = 3 /\ most = 2 * v
      BY <2>1, <2>2, <2>4, <2>a
    <3>2. q * most = 6 * v
      BY <3>1
    <3> QED
      BY <2>a, <3>1, <3>2 DEF PackedAs
  <2> QED
    BY <2>3, <2>4 DEF q
<1>2. CASE ~FallsShort(v, most)
  <2>1. q = RoundDiv(7 * v, most)
    BY <1>2 DEF Quotient
  <2> DEFINE a == 7 * v
             p == q * most
  <2>2. a \in Int
    OBVIOUS
  <2>3. q \in Int /\ 2 * a - most <= 2 * p /\ 2 * p <= 2 * a + most
    <3> DEFINE u == RoundDiv(a, most)
    <3> HIDE DEF a
    <3>1. u \in Int /\ 2 * a - most <= 2 * (u * most) /\ 2 * (u * most) <= 2 * a + most
      BY <2>2, Rounded
    <3>2. q = u
      BY <2>1 DEF a
    <3> HIDE DEF u, q
    <3> QED
      BY <3>1, <3>2
  <2> HIDE DEF q
  <2>4. /\ q >= 8 => p >= 8 * most
        /\ q <= -8 => p <= -(8 * most)
        /\ q <= 6 => p <= 6 * most
        /\ q >= -6 => p >= -(6 * most)
        /\ q = 7 => p = 7 * most
        /\ q = -7 => p = -(7 * most)
    BY <2>3
  <2>5. p \in Int
    BY <2>3
  <2> HIDE DEF p
  <2>6. -7 <= q /\ q <= 7
    BY <2>3, <2>4, <2>5
  <2>7. Abs(v) = most => p = 7 * v
    <3>1. ASSUME v = most PROVE p = 7 * v
      BY <2>3, <2>4, <2>5, <2>6, <3>1
    <3>2. ASSUME v = -most PROVE p = 7 * v
      BY <2>3, <2>4, <2>5, <2>6, <3>2
    <3> QED
      BY <3>1, <3>2 DEF Abs
  <2> QED
    BY <2>3, <2>6, <2>7 DEF p, q, PackedAs
<1> QED
  BY <1>1, <1>2

\* The binade of a scale, and the powers of two of its significand and of the stored one.
LEMMA BinadeIs ==
    ASSUME NEW most \in Nat, most > 0, most <= 128
    PROVE  LET k == Binade(most)
           IN  /\ k \in 0..7
               /\ Two(26 - k) = 8192 * Two(13 - k) /\ Two(13 - k) = 2 * Two(12 - k)
               /\ Two(12 - k) \in Nat /\ Two(12 - k) >= 32
               /\ 58720256 <= most * Two(26 - k) /\ most * Two(26 - k) <= 116916224
<1> DEFINE P(k) == 7 * Two(k) <= 8 * most /\ 8 * most < 14 * Two(k)
           k == Binade(most)
<1>1. /\ Two(0) = 1 /\ Two(1) = 2 /\ Two(2) = 4 /\ Two(3) = 8
      /\ Two(4) = 16 /\ Two(5) = 32 /\ Two(6) = 64 /\ Two(7) = 128
  BY SMT DEF Two
<1>2. P(0) \/ P(1) \/ P(2) \/ P(3) \/ P(4) \/ P(5) \/ P(6) \/ P(7)
  BY <1>1, SMT
<1>3. \E j \in 0..7 : P(j)
  <2> HIDE DEF P
  <2> QED
    BY <1>2, SMT
<1>4. k = CHOOSE j \in 0..7 : P(j)
  BY SMT DEF Binade, Two
<1> HIDE DEF k
<1>5. k \in 0..7 /\ P(k)
  <2> HIDE DEF P
  <2> QED
    BY <1>3, <1>4, SMT
<1>6. /\ Two(19) = 524288 /\ Two(20) = 1048576 /\ Two(21) = 2097152 /\ Two(22) = 4194304
      /\ Two(23) = 8388608 /\ Two(24) = 16777216 /\ Two(25) = 33554432 /\ Two(26) = 67108864
  BY SMT DEF Two
<1>7. /\ Two(8) = 256 /\ Two(9) = 512 /\ Two(10) = 1024 /\ Two(11) = 2048
      /\ Two(12) = 4096 /\ Two(13) = 8192
  BY SMT DEF Two
<1>8. k = 0 \/ k = 1 \/ k = 2 \/ k = 3 \/ k = 4 \/ k = 5 \/ k = 6 \/ k = 7
  BY <1>5, SMT
<1>9. /\ Two(26 - k) = 8192 * Two(13 - k) /\ Two(13 - k) = 2 * Two(12 - k)
      /\ Two(12 - k) \in Nat /\ Two(12 - k) >= 32
  BY <1>1, <1>6, <1>7, <1>8, SMT
<1>10. 58720256 <= most * Two(26 - k) /\ most * Two(26 - k) <= 116916224
  BY <1>1, <1>5, <1>6, <1>8, SMT
<1> QED
  BY <1>5, <1>9, <1>10, SMT DEF k

\* A significand of 24 bits as the packer stores it: eleven bits, to nearest; when they are
\* all ones the rounding carries into the exponent.
Kept(s, k, S) ==
    LET n == (8388608 + s.man) \div 8192
    IN  /\ n \in Nat
        /\ \/ s.exp = k + 124 /\ 8192 * n - S <= 4096 /\ S - 8192 * n <= 4096
           \/ s.exp = k + 125 /\ 16384 * n - S <= 4096 /\ S - 16384 * n <= 4096
LEMMA ScaleStored ==
    ASSUME NEW k \in 0..7, NEW S \in Nat, 8388608 <= S, S < 16777216
    PROVE  Kept(fp16_to_float(float_to_fp16(Single(0, k + 124, S - 8388608))), k, S)
<1> DEFINE m == S - 8388608
           x == Single(0, k + 124, m)
           gm == m \div 8192
           c == IF (m \div 4096) % 2 = 1 THEN 1 ELSE 0
           h == 1024 * (k + 12) + (gm + c)
           f == Fields(h)
<1>1. m \in Nat /\ m < 8388608
  BY SMT
<1>2. x.sign = 0 /\ x.exp = k + 124 /\ x.man = m
  BY SMT DEF Single
<1>3. float_to_fp16(x) = h
  <2>1. /\ x.exp - 112 = k + 12 /\ x.exp # 255 /\ ~(x.exp - 112 >= 31) /\ ~(x.exp - 112 < -10)
        /\ ~(x.exp - 112 <= 0)
    BY <1>2, SMT
  <2>2. float_to_fp16(x) = 32768 * x.sign + (1024 * (x.exp - 112) + x.man \div 8192
                           + IF (x.man \div 4096) % 2 = 1 THEN 1 ELSE 0)
    <3> HIDE DEF x
    <3> QED
      BY <2>1, SMT DEF float_to_fp16
  <2>3. /\ x.sign = 0 /\ x.exp - 112 = k + 12
        /\ x.man \div 8192 = gm /\ (IF (x.man \div 4096) % 2 = 1 THEN 1 ELSE 0) = c
    BY <1>2, <2>1, SMT
  <2>4. gm \in Int /\ c \in Int
    BY <1>1, SMT
  <2> HIDE DEF x, gm, c
  <2> QED
    BY <2>2, <2>3, <2>4, SMT
<1>4. /\ gm \in Nat /\ gm <= 1023 /\ c \in {0, 1}
      /\ 8192 * (gm + c) - m <= 4096 /\ m - 8192 * (gm + c) <= 4096
  <2> DEFINE j == m \div 4096
             i == m % 4096
  <2>1. j \in Nat /\ i \in Nat /\ i < 4096 /\ m = 4096 * j + i /\ j < 2048
    BY <1>1, SMT
  <2>2. gm = j \div 2
    <3> HIDE DEF j, i, m
    <3> QED
      BY <1>1, <2>1, SMT
  <2> HIDE DEF j, i
  <2>3. j = 2 * (j \div 2) + (j % 2) /\ j % 2 \in {0, 1} /\ j \div 2 \in Nat
    BY <2>1, SMT
  <2>4. c = IF j % 2 = 1 THEN 1 ELSE 0
    BY SMT DEF j
  <2> HIDE DEF c, gm, m
  <2> QED
    BY <2>1, <2>2, <2>3, <2>4, SMT
<1> HIDE DEF m, x, gm, c
<1>5. h \in Nat /\ h < 65536
  BY <1>4, SMT
<1> DEFINE gc == gm + c
<1>6. gc \in Nat /\ gc <= 1024 /\ 8192 * gc - m <= 4096 /\ m - 8192 * gc <= 4096 /\ h = 1024 * (k + 12) + gc
  BY <1>4, SMT
<1> HIDE DEF gc, h
<1>7. f.sign \in Nat /\ f.exp \in Nat /\ f.man \in Nat /\ f.man < 1024 /\ h = 32768 * f.sign + 1024 * f.exp + f.man
  BY <1>5, FieldsOf, SMT
<1>8. f.exp < 32
  BY <1>5, FieldsOf, SMT
<1> DEFINE s == fp16_to_float(h)
           n == (8388608 + s.man) \div 8192
<1>9. \/ f.exp = k + 12 /\ f.man = gc
      \/ f.exp = k + 13 /\ f.man = 0 /\ gc = 1024
  <2> HIDE DEF f
  <2>1. f.sign = 0
    BY <1>6, <1>7, <1>8, SMT
  <2> QED
    BY <1>6, <1>7, <1>8, <2>1, SMT
<1>10. f.exp # 0 /\ f.exp # 31
  <2> HIDE DEF f
  <2> QED
    BY <1>9, SMT
<1>11. s = Normal(f)
  BY <1>10, SMT DEF fp16_to_float, Widened
<1>12. s.exp = f.exp + 112 /\ s.man = f.man * 8192
  <2> HIDE DEF f, s
  <2> QED
    BY <1>11, SMT DEF Normal, Single
<1>13. n = 1024 + f.man
  <2> HIDE DEF f, s
  <2>1. 8388608 + s.man = (1024 + f.man) * 8192
    BY <1>7, <1>12, SMT
  <2>2. ((1024 + f.man) * 8192) \div 8192 = 1024 + f.man
    BY <1>7, SMT
  <2> QED
    BY <2>1, <2>2, SMT
<1> HIDE DEF f, s, n
<1>14. S = 8388608 + m
  BY SMT DEF m
<1>15. n \in Nat
  BY <1>7, <1>13, SMT
<1>16. ASSUME f.exp = k + 12 /\ f.man = gc
       PROVE  s.exp = k + 124 /\ 8192 * n - S <= 4096 /\ S - 8192 * n <= 4096
  <2>1. n = 1024 + gc /\ s.exp = k + 124
    BY <1>12, <1>13, <1>16, SMT
  <2>2. 8192 * n - S <= 4096 /\ S - 8192 * n <= 4096
    BY <1>1, <1>6, <1>14, <2>1, SMT
  <2> QED
    BY <2>1, <2>2, SMT
<1>17. ASSUME f.exp = k + 13 /\ f.man = 0 /\ gc = 1024
       PROVE  s.exp = k + 125 /\ 16384 * n - S <= 4096 /\ S - 16384 * n <= 4096
  <2>1. n = 1024 /\ s.exp = k + 125
    BY <1>12, <1>13, <1>17, SMT
  <2>2. 16384 * n - S <= 4096 /\ S - 16384 * n <= 4096
    BY <1>1, <1>6, <1>14, <1>17, <2>1, SMT
  <2> QED
    BY <2>1, <2>2, SMT
<1> QED
  BY <1>3, <1>9, <1>15, <1>16, <1>17, SMT DEF n, s, x, m, Kept

\* Two nibbles in a byte come out as they went in.
LEMMA NibblesBack ==
    ASSUME NEW q \in Int, -7 <= q, q <= 7, NEW w \in Int, -7 <= w, w <= 7
    PROVE  dequant_kal_scalar((Clamp(q, -8, 7) % 16) + 16 * (Clamp(w, -8, 7) % 16)) = <<q, w>>
<1>1. Clamp(q, -8, 7) = q /\ Clamp(w, -8, 7) = w
  BY DEF Clamp
<1> DEFINE a == q % 16
           b == w % 16
<1>2. a = (IF q < 0 THEN q + 16 ELSE q) /\ b = (IF w < 0 THEN w + 16 ELSE w)
  OBVIOUS
<1> HIDE DEF a, b
<1>3. a \in Nat /\ a < 16 /\ b \in Nat /\ b < 16 /\ Signed(a) = q /\ Signed(b) = w
  BY <1>2 DEF Signed
<1>4. (a + 16 * b) % 16 = a /\ (a + 16 * b) \div 16 = b
  BY <1>3
<1>5. dequant_kal_scalar(a + 16 * b) = <<q, w>>
  BY <1>3, <1>4 DEF dequant_kal_scalar
<1> QED
  BY <1>1, <1>5 DEF a, b

\* Clamping to INT8 brings a value no farther from one that fits.
LEMMA Int8Nearer ==
    ASSUME NEW x \in Int, NEW v \in -128..127
    PROVE  /\ Int8(x) \in Int
           /\ x >= v => v <= Int8(x) /\ Int8(x) <= x
           /\ x <= v => x <= Int8(x) /\ Int8(x) <= v
BY DEF Int8, Clamp

\* The scale as it is read back, as a fraction n / p, against a seventh of the largest value.
NearSeventh(n, p, most) ==
    LET z == 7 * n - most * p
    IN  n \in Nat /\ p \in Nat /\ p > 0 /\ z \in Int /\ 14 * z < p /\ -(14 * z) < p
LEMMA ScaleBack ==
    ASSUME NEW most \in Nat, most > 0, most <= 128
    PROVE  LET s == fp16_to_float(float_to_fp16(Scale(most)))
           IN  NearSeventh((8388608 + s.man) \div 8192, Two(137 - s.exp), most)
<1> DEFINE k == Binade(most)
           S == Seventh(most)
           A == most * Two(26 - k)
           B == most * Two(13 - k)
           C == most * Two(12 - k)
           s == fp16_to_float(float_to_fp16(Scale(most)))
           n == (8388608 + s.man) \div 8192
           p == Two(137 - s.exp)
<1>1. /\ k \in 0..7 /\ Two(26 - k) = 8192 * Two(13 - k) /\ Two(13 - k) = 2 * Two(12 - k)
      /\ Two(12 - k) \in Nat /\ Two(12 - k) >= 32
      /\ 58720256 <= A /\ A <= 116916224
  BY BinadeIs, SMT
<1>2. A = 8192 * B /\ B = 2 * C /\ C \in Nat
  BY <1>1, SMT
<1>3. S = RoundDiv(A, 7)
  BY SMT DEF Seventh, Two
<1> HIDE DEF A, B, C
<1>4. S \in Int /\ 2 * A - 7 <= 14 * S /\ 14 * S <= 2 * A + 7
  <2> HIDE DEF S
  <2>1. /\ RoundDiv(A, 7) \in Int
        /\ 2 * A - 7 <= 2 * (RoundDiv(A, 7) * 7) /\ 2 * (RoundDiv(A, 7) * 7) <= 2 * A + 7
    BY <1>2, Rounded, SMT
  <2> QED
    BY <1>2, <1>3, <2>1, SMT
<1>5. S \in Nat /\ 8388608 <= S /\ S < 16777216
  <2> HIDE DEF S
  <2> QED
    BY <1>1, <1>2, <1>4, SMT
<1>6. Scale(most) = Single(0, k + 124, S - 8388608)
  BY 2^23 = 8388608, SMT DEF Scale
<1> HIDE DEF k, S
<1>7. /\ n \in Nat
      /\ \/ s.exp = k + 124 /\ 8192 * n - S <= 4096 /\ S - 8192 * n <= 4096
         \/ s.exp = k + 125 /\ 16384 * n - S <= 4096 /\ S - 16384 * n <= 4096
  <2>1. Kept(s, k, S)
    BY <1>1, <1>5, <1>6, ScaleStored, SMT
  <2> QED
    BY <2>1, SMT DEF Kept
<1> HIDE DEF n, s
<1> DEFINE z == 7 * n - most * p
<1>8. ASSUME s.exp = k + 124, 8192 * n - S <= 4096, S - 8192 * n <= 4096
      PROVE  NearSeventh(n, p, most)
  <2>1. 137 - s.exp = 13 - k
    BY <1>1, <1>8, SMT
  <2>2. p = Two(13 - k)
    BY <2>1, SMT
  <2>3. p \in Nat /\ p >= 64 /\ z = 7 * n - B
    BY <1>1, <2>2, SMT DEF B
  <2> HIDE DEF p, z
  <2>4. -3 <= z /\ z <= 3 /\ z \in Int
    BY <1>2, <1>4, <1>7, <1>8, <2>3, SMT
  <2>5. p > 0 /\ 14 * z < p /\ -(14 * z) < p
    BY <2>3, <2>4, SMT
  <2> QED
    BY <1>7, <2>3, <2>4, <2>5, SMT DEF z, NearSeventh
<1>9. ASSUME s.exp = k + 125, 16384 * n - S <= 4096, S - 16384 * n <= 4096
      PROVE  NearSeventh(n, p, most)
  <2>1. 137 - s.exp = 12 - k
    BY <1>1, <1>9, SMT
  <2>2. p = Two(12 - k)
    BY <2>1, SMT
  <2>3. p \in Nat /\ p >= 32 /\ z = 7 * n - C
    BY <1>1, <2>2, SMT DEF C
  <2> HIDE DEF p, z
  <2>4. -1 <= z /\ z <= 1 /\ z \in Int
    BY <1>2, <1>4, <1>7, <1>9, <2>3, SMT
  <2>5. p > 0 /\ 14 * z < p /\ -(14 * z) < p
    BY <2>3, <2>4, SMT
  <2> QED
    BY <1>7, <2>3, <2>4, <2>5, SMT DEF z, NearSeventh
<1> QED
  BY <1>7, <1>8, <1>9, SMT DEF p, n, s

\* One value against what comes back of it.
Unpacked(q, n, p) == Int8(RoundDiv(q * n, p))
Close(b, v, most) == 14 * Abs(b - v) <= most + 7 /\ (Abs(v) = most => b = v)
LEMMA OneBack ==
    ASSUME NEW most \in Nat, most > 0, most <= 128,
           NEW v \in -128..127, -most <= v, v <= most,
           NEW q, PackedAs(q, v, most), NEW n, NEW p, NearSeventh(n, p, most)
    PROVE  Close(Unpacked(q, n, p), v, most)
<1> DEFINE x == RoundDiv(q * n, p)
           off == 2 * (q * most) - 14 * v
           y == x - v
           z == 7 * n - most * p
<1>a. /\ q \in Int /\ -7 <= q /\ q <= 7
      /\ 14 * v - most <= 2 * (q * most) /\ 2 * (q * most) <= 14 * v + most
      /\ Abs(v) = most => q * most = 7 * v
  BY DEF PackedAs
<1>b. n \in Nat /\ p \in Nat /\ p > 0 /\ z \in Int /\ 14 * z < p /\ -(14 * z) < p
  BY DEF NearSeventh
<1> USE <1>a, <1>b
<1>1. x \in Int /\ 2 * (q * n) - p <= 2 * (x * p) /\ 2 * (x * p) <= 2 * (q * n) + p
  <2> DEFINE a == q * n
  <2>1. a \in Int
    OBVIOUS
  <2> HIDE DEF a
  <2>2. RoundDiv(a, p) \in Int /\ 2 * a - p <= 2 * (RoundDiv(a, p) * p) /\ 2 * (RoundDiv(a, p) * p) <= 2 * a + p
    BY <2>1, Rounded
  <2> QED
    BY <2>2 DEF a
<1> HIDE DEF x
<1>2. 14 * (q * n) = 2 * (q * z) + 2 * (q * (most * p))
  <2>1. 7 * n = z + most * p
    OBVIOUS
  <2>2. q * (7 * n) = q * z + q * (most * p)
    <3> DEFINE m == most * p
    <3>1. m \in Int /\ 7 * n = z + m
      BY <2>1
    <3> HIDE DEF m
    <3>2. q * (z + m) = q * z + q * m
      BY <3>1
    <3> QED
      BY <3>1, <3>2 DEF m
  <2>3. q * (7 * n) = 7 * (q * n)
    OBVIOUS
  <2> QED
    BY <2>2, <2>3
<1>3. 2 * (q * (most * p)) = off * p + 14 * (v * p)
  <2>1. q * (most * p) = (q * most) * p
    OBVIOUS
  <2> DEFINE w == q * most
  <2>2. w \in Int /\ off = 2 * w - 14 * v
    OBVIOUS
  <2> HIDE DEF w, off
  <2>3. (2 * w - 14 * v) * p = 2 * (w * p) - 14 * (v * p)
    BY <2>2
  <2> QED
    BY <2>1, <2>2, <2>3 DEF w
<1>4. -p < 2 * (q * z) /\ 2 * (q * z) < p
  <2>1. \/ q = -7 \/ q = -6 \/ q = -5 \/ q = -4 \/ q = -3 \/ q = -2 \/ q = -1 \/ q = 0
        \/ q = 1 \/ q = 2 \/ q = 3 \/ q = 4 \/ q = 5 \/ q = 6 \/ q = 7
    OBVIOUS
  <2> QED
    BY <2>1
<1>5. off \in Int /\ -most <= off /\ off <= most
  OBVIOUS
<1>6. y \in Int /\ y * p = x * p - v * p
  BY <1>1
<1> HIDE DEF off
<1> DEFINE xp == x * p
           vp == v * p
           qz == q * z
           qn == q * n
           offp == off * p
           mp == most * p
           yp == y * p
           qmp == q * (most * p)
<1>7. /\ xp \in Int /\ vp \in Int /\ qz \in Int /\ qn \in Int /\ offp \in Int /\ mp \in Int /\ yp \in Int
      /\ qmp \in Int
  BY <1>1, <1>5, <1>6
<1>8. -mp <= offp /\ offp <= mp
  BY <1>5
<1>9. /\ 2 * qn - p <= 2 * xp /\ 2 * xp <= 2 * qn + p /\ 14 * qn = 2 * qz + 2 * qmp
      /\ 2 * qmp = offp + 14 * vp /\ -p < 2 * qz /\ 2 * qz < p /\ yp = xp - vp
  BY <1>1, <1>2, <1>3, <1>4, <1>6
<1> HIDE DEF y
<1>10. /\ y >= 1 => p <= yp
       /\ y <= -1 => yp <= -p
  BY <1>6
<1>11. 14 * yp = (14 * y) * p /\ mp + 8 * p = (most + 8) * p
  BY <1>6
<1> HIDE DEF xp, vp, qz, qn, offp, mp, yp, qmp
<1>12. offp - 8 * p < 14 * yp /\ 14 * yp < offp + 8 * p
  BY <1>7, <1>9
<1>13. 14 * yp < mp + 8 * p /\ -(mp + 8 * p) < 14 * yp
  BY <1>7, <1>8, <1>12
<1>14. 14 * y < most + 8 /\ -(most + 8) < 14 * y
  <2> DEFINE a == 14 * y
             b == most + 8
  <2>1. a \in Int /\ b \in Int
    BY <1>6
  <2>2. a * p < b * p /\ -(b * p) < a * p
    BY <1>11, <1>13
  <2> HIDE DEF a, b
  <2>3. ~(a >= b)
    <3>1. a >= b => a * p >= b * p
      BY <2>1
    <3> QED
      BY <2>1, <2>2, <3>1
  <2>4. ~(a <= -b)
    <3>1. a <= -b => a * p <= (-b) * p
      BY <2>1
    <3>2. (-b) * p = -(b * p)
      BY <2>1
    <3> QED
      BY <2>1, <2>2, <3>1, <3>2
  <2> QED
    BY <2>1, <2>3, <2>4 DEF a, b
<1>15. ASSUME Abs(v) = most PROVE y = 0
  <2>1. off = 0
    BY <1>15 DEF off
  <2>2. offp = 0
    BY <2>1 DEF offp
  <2> QED
    BY <1>6, <1>7, <1>10, <1>12, <2>2
<1> DEFINE back == Int8(x)
<1>16. /\ back \in Int
       /\ x >= v => v <= back /\ back <= x
       /\ x <= v => x <= back /\ back <= v
  BY <1>1, Int8Nearer
<1> HIDE DEF back
<1>17. y = x - v
  BY DEF y
<1>18. 14 * (back - v) <= most + 7 /\ 14 * (v - back) <= most + 7
  BY <1>1, <1>14, <1>16, <1>17
<1>19. Abs(v) = most => back = v
  BY <1>1, <1>15, <1>16, <1>17
<1>20. 14 * Abs(back - v) <= most + 7
  BY <1>16, <1>18 DEF Abs
<1> QED
  BY <1>19, <1>20 DEF back, x, Close, Unpacked

\* What packing and unpacking loses: half a step and a rounding, and nothing of the largest.
LEMMA PackedBack ==
    ASSUME NEW most \in Nat, most <= 128, NEW v \in -128..127, -most <= v, v <= most,
           NEW w \in -128..127, -most <= w, w <= most
    PROVE  PackBack(most, v, w)
<1> DEFINE b == int4_pack(v, w, most)
           s == fp16_to_float(float_to_fp16(Scale(most)))
           n == (8388608 + s.man) \div 8192
           p == Two(137 - s.exp)
           back == int4_unpack(b)
<1>1. b.nib = Nibble(v, most) + 16 * Nibble(w, most) /\ b.scale = float_to_fp16(Scale(most))
  BY DEF int4_pack
<1>2. 2^23 = 8388608 /\ 2^13 = 8192
  OBVIOUS
<1>3. ASSUME NEW q \in Int, NEW r \in Int, dequant_kal_scalar(b.nib) = <<q, r>>
      PROVE  back[1] = Int8(RoundDiv(q * n, p)) /\ back[2] = Int8(RoundDiv(r * n, p))
  <2>1. back = [i \in 1..2 |-> Int8(RoundDiv(<<q, r>>[i] * n, p))]
    BY <1>1, <1>2, <1>3 DEF int4_unpack, Two
  <2> HIDE DEF back, n, p
  <2> QED
    BY <2>1
<1>4. CASE most = 0
  <2>1. v = 0 /\ w = 0 /\ Quotient(0, 0) = 0
    BY <1>4 DEF Quotient
  <2>2. Nibble(0, 0) = 0
    BY <2>1 DEF Nibble, Clamp
  <2>3. b.nib = 0
    BY <1>1, <1>4, <2>1, <2>2
  <2>4. dequant_kal_scalar(0) = <<0, 0>>
    BY DEF dequant_kal_scalar, Signed
  <2>5. back[1] = Int8(RoundDiv(0 * n, p)) /\ back[2] = Int8(RoundDiv(0 * n, p))
    <3> HIDE DEF back, n, p, b
    <3> QED
      BY <1>3, <2>3, <2>4
  <2>6. n = 1024 /\ p = 1024
    <3>1. Scale(most) = Single(0, 127, 0)
      BY <1>4 DEF Scale
    <3>2. float_to_fp16(Single(0, 127, 0)) = 15360
      BY DEF float_to_fp16, Single
    <3>3. Fields(15360) = [sign |-> 0, exp |-> 15, man |-> 0]
      BY DEF Fields
    <3>4. fp16_to_float(15360) = Single(0, 127, 0)
      BY <3>3 DEF fp16_to_float, Widened, Normal
    <3>5. s = Single(0, 127, 0)
      BY <3>1, <3>2, <3>4
    <3>6. s.man = 0 /\ s.exp = 127
      BY <3>5 DEF Single
    <3>7. Two(10) = 1024
      BY DEF Two
    <3> HIDE DEF s
    <3> QED
      BY <3>6, <3>7
  <2>7. Int8(RoundDiv(0 * 1024, 1024)) = 0
    BY DEF RoundDiv, Int8, Clamp
  <2>8. back[1] = 0 /\ back[2] = 0
    <3> HIDE DEF back, n, p
    <3> QED
      BY <2>5, <2>6, <2>7
  <2> HIDE DEF back
  <2> QED
    BY <1>4, <2>1, <2>8 DEF Abs, back, b, PackBack
<1>5. CASE most > 0
  <2> DEFINE q == Quotient(v, most)
             r == Quotient(w, most)
  <2>1. PackedAs(q, v, most) /\ PackedAs(r, w, most)
    BY <1>5, QuotientIs
  <2>2. /\ q \in Int /\ -7 <= q /\ q <= 7
        /\ r \in Int /\ -7 <= r /\ r <= 7
    BY <2>1 DEF PackedAs
  <2>3. NearSeventh(n, p, most)
    BY <1>5, ScaleBack
  <2>4. b.nib = (Clamp(q, -8, 7) % 16) + 16 * (Clamp(r, -8, 7) % 16)
    BY <1>1 DEF Nibble
  <2> HIDE DEF q, r, n, p, b, back
  <2>5. dequant_kal_scalar(b.nib) = <<q, r>>
    BY <2>2, <2>4, NibblesBack
  <2>6. back[1] = Int8(RoundDiv(q * n, p)) /\ back[2] = Int8(RoundDiv(r * n, p))
    BY <1>3, <2>2, <2>5
  <2>7. Close(Unpacked(q, n, p), v, most) /\ Close(Unpacked(r, n, p), w, most)
    BY <1>5, <2>1, <2>3, OneBack
  <2>8. Close(back[1], v, most) /\ Close(back[2], w, most)
    BY <2>6, <2>7 DEF Unpacked
  <2> QED
    BY <2>8 DEF back, b, PackBack, Close
<1> QED
  BY <1>4, <1>5

\* The vector kernels compute what the scalar ones do, for every byte, width and product of
\* a nibble and a scale; packing and unpacking a group, its scale rounded to half precision
\* in between, lose at most half a step and a rounding and nothing of the largest value; and
\* each conversion makes of every half-precision number what HalfAgrees says of it: the
\* engine's and the packer's widening of scales are exact, the engine's widening of the
\* centroids halves the subnormals.
THEOREM KernelsAlways == Spec => []KernelsAgree
<1>1. UnpackAgrees
  <2> SUFFICES ASSUME NEW q \in -8..7, NEW sf \in 0..4645
               PROVE  int4_unpack_fixed_rvv(q, sf) = int4_unpack_fixed(q, sf)
    BY DEF UnpackAgrees
  <2> DEFINE p == q * sf
  <2>1. p \in Int
    OBVIOUS
  <2> HIDE DEF p
  <2>2. Int8((Clamp(p, -32768, 32767) + 128) \div 256) = Int8((p + 128) \div 256)
    BY <2>1, UnpackersAgree
  <2> QED
    BY <2>2 DEF p, int4_unpack_fixed_rvv, int4_unpack_fixed
<1>2. ASSUME NEW most \in 0..128, NEW v \in -most..Int8(most)
      PROVE  PackBack(most, v, Int8(-v))
  <2>1. Int8(most) = (IF most = 128 THEN 127 ELSE most)
    BY DEF Int8, Clamp
  <2>2. most \in Nat /\ most <= 128 /\ v \in -128..127 /\ -most <= v /\ v <= most
    BY <2>1
  <2>3. Int8(-v) = (IF v = -128 THEN 127 ELSE -v)
    BY <2>2 DEF Int8, Clamp
  <2>4. Int8(-v) \in -128..127 /\ -most <= Int8(-v) /\ Int8(-v) <= most
    BY <2>2, <2>3
  <2> QED
    BY <2>2, <2>4, PackedBack
<1>3. ASSUME NEW h \in Halves
      PROVE  HalfAgrees(h)
  <2>1. h \in Nat /\ h < 65536
    BY DEF Halves
  <2> QED
    BY <2>1, HalfIs
<1>4. ASSUME NEW n \in {128, 256, 384, 608, 768, 896}
      PROVE  StripsTile(n)
  <2>1. n \in Nat
    OBVIOUS
  <2> QED
    BY <2>1, StripsCover
<1>5. HalvesAgree
  BY <1>3 DEF HalvesAgree
<1>6. PackAgrees
  BY <1>2 DEF PackAgrees
<1>7. StripsAgree
  BY <1>4 DEF StripsAgree
<1>8. ConversionsAgree
  BY <1>1, <1>5, <1>6, <1>7, NibblesAgree DEF ConversionsAgree
<1>9. KernelsAgree
  BY <1>8 DEF KernelsAgree
<1> QED
  BY <1>9, PTL
=============================================================================
