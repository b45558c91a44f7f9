----------------------------- MODULE QwenMatmul -----------------------------
(* One matrix product of the Qwen engine: the weights of 32 rows at a time are *)
(* dequantized into neuron memory, multiplied twice by prebuilt commands (once *)
(* to find the largest result of the block, once with the shift it asks for)   *)
(* and accumulated by the CPU.  CPU and TPU meet in memory through a cache     *)
(* that neither side keeps coherent: lines are written back and fetched at     *)
(* will, and only the flushes and invalidations of the code order them.        *)
EXTENDS Int4Numerics, WeightLayout, TpuMemory

CONSTANTS
    KBlocks,    \* blocks of a product (the code has 28, and 32 for a chunk of down)
    MaxProducts, \* products, one after the other
    MaxMoves    \* lines the cache writes back or fetches of its own accord in all
ASSUME KBlocksAssumption == KBlocks \in Nat \ {0} /\ MaxProducts \in Nat /\ MaxMoves \in Nat

VARIABLES
    call,       \* the product: its rows, columns, the rows its commands were built for
                \* and the function that does it
    product,    \* how many products there have been
    pc, g, t,   \* where the CPU is, the block and the tile
    dram,       \* neuron memory as the TPU sees it
    dirty,      \* lines the CPU has written and the cache has not written back
    clean,      \* lines the cache holds unchanged since they were fetched
    moves,      \* lines it has moved of its own accord
    scanned,    \* tiles whose results the largest result of the block has seen
    acc         \* what was added to the sums, in order
vars == <<call, product, pc, g, t, dram, dirty, clean, moves, scanned, acc>>

ACTQ_OFF == 0
DQ_OFF == 4096
P1_OFF == 163840
P2_OFF == 172032
MTILEW == 608

-----------------------------------------------------------------------------
(* Tiles and commands *)
max_tile_for_m(rows) == IF rows <= 3 THEN 896 ELSE 768
IsMerged(c) == c.by = "eng_matmul_merged"
TileW(c) == IF IsMerged(c) THEN MTILEW ELSE max_tile_for_m(c.rows)
NTiles(c) == (c.n + TileW(c) - 1) \div TileW(c)
Tiles(c) == 0 .. NTiles(c) - 1
Tn(c, i) == IF i = NTiles(c) - 1 THEN c.n - i * TileW(c) ELSE TileW(c)

\* main builds commands for 1, 3, 5 and 7 rows, in the widths those products need.
pool_build(m) == IF m <= 3 THEN {128, 384, 896} ELSE {128, 256, 768}
ChosenPool(rows) == IF rows <= 3 THEN 3 ELSE IF rows <= 5 THEN 5 ELSE 7
Columns == {D, DKV, F}
Prefill == {[rows |-> r, n |-> n, m |-> ChosenPool(r), by |-> "eng_matmul"] : r \in 1..7, n \in Columns}
Decode == {[rows |-> 1, n |-> n, m |-> 1, by |-> "eng_matmul"] : n \in Columns}
Merged == {[rows |-> 1, n |-> F, m |-> 1, by |-> "eng_matmul_merged"]}
Calls == Prefill \cup Decode \cup Merged
pick_pool(c, i) == IsMerged(c) \/ Tn(c, i) \in pool_build(c.m)

\* Where the commands expect their operands and put their results.
ActArea(c) == Area(ACTQ_OFF, 32 * c.rows)
DqArea(c, i) == Area(DQ_OFF + (IF IsMerged(c) THEN i * 32 * MTILEW ELSE 0), 32 * Tn(c, i))
OutOff(c, pass, i) == (IF pass = 1 THEN P1_OFF ELSE P2_OFF) + (IF IsMerged(c) THEN i * MTILEW ELSE 0)
OutLen(c, i) == c.rows * Tn(c, i)
SpareLen(c, i) == (c.m - c.rows) * Tn(c, i)
OutArea(c, pass, i) == Area(OutOff(c, pass, i), OutLen(c, i))
SpareArea(c, pass, i) == Area(OutOff(c, pass, i) + OutLen(c, i), SpareLen(c, i))
Act == <<"act", product, g>>
Dq(i) == <<"dq", product, g, i>>
Result(pass, i, shift) == <<"p", product, pass, g, i, shift>>

-----------------------------------------------------------------------------
(* Cache *)
Within(a, len) == a.lo + a.n <= len
Touches(a, len) == a.lo < len
\* What the CPU reads: its own line if it has one, however old, and memory otherwise.
Cached(a) == \E c \in dirty \cup clean : ~Apart(c, a)
CpuTaint(a, name) == IF Cached(a) THEN Taint(dirty \cup clean, a, name) ELSE Taint(dram, a, name)
Put(mem, c) == Written(mem, c, c.name, c.taint)
WrittenBack(mem, lines) == {c \in mem : \A l \in lines : Apart(c, l)} \cup lines

CpuWrites(vals) ==
    /\ dirty' = WrittenBack(dirty, vals)
    /\ clean' = {c \in clean : \A v \in vals : Apart(c, v)}

Flush(len) ==
    LET whole == {c \in dirty : Within(c, len)}
        torn == {c \in dirty : Touches(c, len) /\ ~Within(c, len)}
    IN  /\ dram' = {c \in WrittenBack(dram, whole) : \A x \in torn : Apart(c, x)}
        /\ dirty' = dirty \ whole
        /\ clean' = clean \cup whole
Invalidate(len) ==
    /\ dirty' = {c \in dirty : ~Touches(c, len)}
    /\ clean' = {c \in clean : ~Touches(c, len)}
    /\ UNCHANGED dram

\* The cache writes a line back when it needs the room, and fetches lines ahead.
Evict == \E c \in dirty :
    /\ moves < MaxMoves
    /\ moves' = moves + 1
    /\ dram' = Put(dram, c)
    /\ dirty' = dirty \ {c}
    /\ UNCHANGED <<call, product, pc, g, t, clean, scanned, acc>>
Fetch == \E c \in dram :
    /\ moves < MaxMoves /\ ~Cached(c)
    /\ moves' = moves + 1
    /\ clean' = clean \cup {c}
    /\ UNCHANGED <<call, product, pc, g, t, dram, dirty, scanned, acc>>

-----------------------------------------------------------------------------
(* The CPU *)
Intact(a, name) == [lo |-> a.lo, n |-> a.n, name |-> name, taint |-> {}]
\* A merged command covers all tiles of the block.
InHand == IF IsMerged(call) THEN Tiles(call) ELSE {t}
Pass == IF pc \in {"load1", "flush1", "run1", "invld1", "scan"} THEN 1 ELSE 2
Shift == IF Pass = 1 THEN "rsafe" ELSE scanned

Load ==
    /\ pc \in {"load1", "load2"}
    /\ CpuWrites({Intact(ActArea(call), Act)} \cup {Intact(DqArea(call, i), Dq(i)) : i \in InHand})
    /\ pc' = IF Pass = 1 THEN "flush1" ELSE "flush2"
    /\ UNCHANGED <<call, product, g, t, dram, moves, scanned, acc>>

FlushOperandsBug ==
    /\ pc \in {"flush1", "flush2"}
    /\ Flush(IF IsMerged(call) THEN DQ_OFF + 32 * call.n ELSE 32 * Tn(call, t))
    /\ pc' = IF Pass = 1 THEN "run1" ELSE "run2"
    /\ UNCHANGED <<call, product, g, t, moves, scanned, acc>>
FlushOperands ==
    /\ pc \in {"flush1", "flush2"}
    /\ Flush(DQ_OFF + 32 * (IF IsMerged(call) THEN call.n ELSE Tn(call, t)))
    /\ pc' = IF Pass = 1 THEN "run1" ELSE "run2"
    /\ UNCHANGED <<call, product, g, t, moves, scanned, acc>>

\* One tile: load both operands, multiply, store all the rows the command was built for;
\* the rows the product does not have come out of whatever lies behind the activations.
Stored(i) ==
    LET from == Taint(dram, ActArea(call), Act) \cup Taint(dram, DqArea(call, i), Dq(i))
        result == Written(dram, OutArea(call, Pass, i), Result(Pass, i, Shift), from)
    IN  IF call.m > call.rows THEN Written(result, SpareArea(call, Pass, i), "spare", {}) ELSE result

\* A merged command goes through the tiles of the block, while the cache lives on.
RunCmdbuf ==
    /\ pc \in {"run1", "run2"}
    /\ \/ /\ ~pick_pool(call, t)    \* exit(4)
          /\ pc' = "exit" /\ UNCHANGED <<t, dram>>
       \/ /\ pick_pool(call, t)
          /\ dram' = Stored(t)
          /\ IF IsMerged(call) /\ t < NTiles(call) - 1
             THEN t' = t + 1 /\ UNCHANGED pc
             ELSE /\ t' = IF IsMerged(call) THEN 0 ELSE t
                  /\ pc' = IF Pass = 1 THEN "invld1" ELSE "invld2"
    /\ UNCHANGED <<call, product, g, dirty, clean, moves, scanned, acc>>

InvalidateResults ==
    /\ pc \in {"invld1", "invld2"}
    /\ Invalidate(IF IsMerged(call) THEN (IF Pass = 1 THEN P1_OFF ELSE P2_OFF) + call.n
                  ELSE P2_OFF + OutLen(call, t))
    /\ pc' = IF Pass = 1 THEN "scan" ELSE "add"
    /\ UNCHANGED <<call, product, g, t, moves, scanned, acc>>

ReadTaint(i) == CpuTaint(OutArea(call, Pass, i), Result(Pass, i, Shift))
Reads == clean' = clean \cup {c \in dram : c.lo >= P1_OFF /\ ~Cached(c)
                                             /\ \E i \in InHand : c.lo = OutArea(call, Pass, i).lo}
LastTile == IsMerged(call) \/ t = NTiles(call) - 1

\* The largest result of the block: every tile of pass 1 must have been looked at before
\* the first of pass 2.
Scan ==
    /\ pc = "scan"
    /\ scanned' = scanned \cup {<<g, i, ReadTaint(i)>> : i \in InHand}
    /\ Reads
    /\ t' = IF LastTile THEN 0 ELSE t + 1
    /\ pc' = IF ~LastTile THEN "load1" ELSE IF IsMerged(call) THEN "run2" ELSE "load2"
    /\ UNCHANGED <<call, product, g, dram, dirty, moves, acc>>

Addend(i) == [g |-> g, t |-> i, shift |-> scanned, taint |-> ReadTaint(i)]
Accumulate ==
    /\ pc = "add"
    /\ acc' = acc \o IF IsMerged(call) THEN [k \in 1..NTiles(call) |-> Addend(k - 1)] ELSE <<Addend(t)>>
    /\ Reads
    /\ IF LastTile
       THEN /\ t' = 0 /\ g' = g + 1 /\ scanned' = {}
            /\ pc' = IF g + 1 = KBlocks THEN "done" ELSE "load1"
       ELSE t' = t + 1 /\ pc' = "load2" /\ UNCHANGED <<g, scanned>>
    /\ UNCHANGED <<call, product, dram, dirty, moves>>

\* The next product starts in the memory and the cache the last one left behind.
Again ==
    /\ pc = "done" /\ product < MaxProducts
    /\ call' \in Calls /\ product' = product + 1
    /\ pc' = "load1" /\ g' = 0 /\ t' = 0 /\ scanned' = {} /\ acc' = <<>>
    /\ UNCHANGED <<dram, dirty, clean, moves>>

Init ==
    /\ call \in Calls /\ product = 1
    /\ pc = "load1" /\ g = 0 /\ t = 0
    /\ dram = {} /\ dirty = {} /\ clean = {} /\ moves = 0 /\ scanned = {} /\ acc = <<>>
Next == Load \/ FlushOperands \/ RunCmdbuf \/ InvalidateResults \/ Scan \/ Accumulate
          \/ Again \/ Evict \/ Fetch
Spec == Init /\ [][Next]_vars

-----------------------------------------------------------------------------
\* Every product comes out whole, for every number of rows a prompt or a chunk can have:
\* there is a command for every tile, each tile of each block is added once, its operands
\* and its results were those of this block and tile on both sides of the cache, and its
\* shift was chosen after all tiles of the block had been seen.
MatmulWhole ==
    /\ pc # "exit"
    /\ \A k \in DOMAIN acc : acc[k].taint = {} /\ acc[k].shift = {<<acc[k].g, i, {}>> : i \in Tiles(call)}
    /\ pc = "done" =>
          /\ Len(acc) = KBlocks * NTiles(call)
          /\ {<<a.g, a.t>> : a \in ToSet(acc)} = (0 .. KBlocks - 1) \X Tiles(call)

\* The facts about the files and the arithmetic do not depend on the state; they are
\* looked at once, before the first step of the merged product.
Start == call \in Merged /\ product = 1 /\ g = 0 /\ pc = "load1" /\ dirty = {}

\* Every program that writes or reads a layer file has each section, nibble and scale at
\* the same place (LayoutAgrees says which programs).  The text at the head of
\* convert_qwen_kal.py, lines 14 to 23, does not: HeaderMisplaces says by how much.
WeightsFound == Start => LayoutAgrees /\ HeaderMisplaces

\* Both shifts have a command, and the error of a product stays within half a step of
\* the coarser one, or within the clipping that pass 1 allows itself (TwoPassBounded).
ShiftsBounded == Start => TwoPassBounded

\* The vector kernels compute what the scalar ones do, packing with scales in half
\* precision loses at most half a step, and the six half-precision conversions agree but
\* for the subnormals and NaNs that HalfAgrees names, with what becomes of each
\* (ConversionsAgree).
KernelsAgree == Start => ConversionsAgree

\* What "fp16 upcast" (line 1671) says: each component of a centroid is widened to the
\* number it stands for.  KernelsAgree holds the opposite of the subnormal ones, which
\* f16_to_f32 halves (line 1696), so that TLC refutes this.
CentroidsUpcast == Start => \A h \in Halves : StandsFor(f16_to_f32(h), h)
=============================================================================
