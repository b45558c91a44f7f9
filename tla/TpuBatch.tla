------------------------------ MODULE TpuBatch ------------------------------
(* One SmolLM2 layer on the TPU, by smollm2_pool_demo and by its predecessor   *)
(* smollm2_demo.  tpu_matmul_build copies both operands of a product to a      *)
(* scratch area of the neuron memory and appends commands that name them by    *)
(* address; CVI_RT_Submit runs the accumulated commands, which read their      *)
(* operands only then (common/tpu_bench.h:62).  The engines differ in what     *)
(* they submit together and in where operands and results lie: the one uses a  *)
(* fixed layout of buffers that overlap when they are not needed at the same   *)
(* time, the other a heap buffer for each.                                     *)
EXTENDS Integers, Sequences, SequencesExt, TpuMemory

CONSTANTS
    Engines,    \* subset of {"demo", "pool"}: smollm2_demo, smollm2_pool_demo
    Kvh,        \* KV groups (3)
    HeadDim,    \* d (64)
    Heads,      \* query heads per group (3)
    Ffn,        \* F (1536)
    MaxRows,    \* CHUNK_PREFILL: tokens of a pass of the pool engine (10)
    MaxKv       \* max_seq: rows of the KV cache

ASSUME EngineAssumption == Engines \subseteq {"demo", "pool"}
ASSUME SizeAssumption == {Kvh, HeadDim, Heads, Ffn, MaxRows, MaxKv} \subseteq Nat \ {0}

D == Kvh * Heads * HeadDim
Dkv == Kvh * HeadDim

\* The neuron memory, in bytes (SM_*_OFF).
ScratchOff == 0
QOff == 262144
KOff == 327680
KtOff == 344064
VOff == 360448
SOff == 376832
AOff == 393216
OOff == 458752
UpOff == 524288
GateOff == 589824
NeuronSize == 1048576
LmemSize == 32768
BatchStride == 65536        \* between the scratch areas of Q, K, V and of up, gate
GroupStride == 16384        \* between those of the KV groups

VARIABLES
    engine,
    rows,       \* seq: tokens of the pass
    kvLen,      \* rows of the KV cache the pass attends to
    pc,         \* the part of sm_layer_forward that runs next
    g,          \* its group or product
    mem,        \* neuron memory, work buffers, weights, KV cache and x
    queue       \* the commands accumulated for the next Submit

vars == <<engine, rows, kvLen, pc, g, mem, queue>>

Groups == 0..Kvh-1
Stages == {"qkv", "scores", "attn", "wo", "ffn", "down"}    \* on the TPU
Only(s) == <<s, -1>>        \* the name of a value of the layer, others are one per group

-----------------------------------------------------------------------------
(* Where everything is *)
M == rows * Heads                                  \* rows of a group's matrices
QArea(i) == Area(QOff + i * M * HeadDim, M * HeadDim)
KtArea(i) == Area(KtOff + i * HeadDim * kvLen, HeadDim * kvLen)
SAreaBug(i) == Area(SOff + i * rows * kvLen, M * kvLen)
SArea(i) == Area(SOff + i * M * kvLen, M * kvLen)
VArea(i) == Area(VOff + i * kvLen * HeadDim, kvLen * HeadDim)
AArea(i) == Area(AOff + i * M * HeadDim, M * HeadDim)
OArea == Area(OOff, rows * D)
MidArea == Area(UpOff, rows * Ffn)

\* What the work buffers hold, in bytes: floats and quantized values.
BufferSize ==
    [normed |-> 4 * rows * D, Q_f32 |-> 4 * rows * D, K_f32 |-> 4 * rows * Dkv,
     V_f32 |-> 4 * rows * Dkv, Attn_out |-> 4 * rows * D,
     Qg_f32 |-> 4 * M * HeadDim, Kh_f32 |-> 4 * kvLen * HeadDim,
     Scores_f32 |-> 4 * M * kvLen, Vh_f32 |-> 4 * kvLen * HeadDim,
     Wo_out |-> 4 * rows * D, up_f32 |-> 4 * rows * Ffn, gate_f32 |-> 4 * rows * Ffn,
     ffn_out |-> 4 * rows * D,
     x_i8 |-> rows * D, Q_i8 |-> rows * D, K_i8 |-> rows * Dkv, V_i8 |-> rows * Dkv,
     Kh_i8_tmp |-> kvLen * HeadDim, O_i8 |-> rows * D, up_i8 |-> rows * Ffn,
     gate_i8 |-> rows * Ffn, down_i8 |-> rows * D]

\* The pool engine's two pools of work buffers (WF_*, WI_*): sized for WORK_MAX_SEQ
\* tokens and a context of WORK_MAX_KV, whatever the configuration says.
WorkMaxSeq == 10
WorkMaxKv == 64
PoolStart ==
    LET f == 16777216
        row == 4 * WorkMaxSeq
        Q == f + row * D
        K == Q + row * D
        V == K + row * Dkv
        attn == V + row * Dkv
        grp == attn + row * D
        up == grp + 4 * WorkMaxKv * HeadDim
        gate == up + row * Ffn
        b == 33554432
        Qi == b + WorkMaxSeq * D
        Ki == Qi + WorkMaxSeq * D
        Vi == Ki + WorkMaxSeq * Dkv
        Khi == Vi + WorkMaxSeq * Dkv
        upi == Khi + WorkMaxKv * HeadDim
    IN  [normed |-> f, Q_f32 |-> Q, K_f32 |-> K, V_f32 |-> V, Attn_out |-> attn,
         Qg_f32 |-> grp, Kh_f32 |-> grp, Scores_f32 |-> grp, Vh_f32 |-> grp,
         Wo_out |-> Q, up_f32 |-> up, gate_f32 |-> gate, ffn_out |-> gate,
         x_i8 |-> b, Q_i8 |-> Qi, K_i8 |-> Ki, V_i8 |-> Vi, Kh_i8_tmp |-> Khi,
         O_i8 |-> Qi, up_i8 |-> upi, gate_i8 |-> upi + WorkMaxSeq * Ffn, down_i8 |-> b]

\* The other engine allocates each buffer on the heap.
Nth(b, names) == CHOOSE i \in DOMAIN names : names[i] = b
HeapStart(b) ==
    67108864 + 1048576 * Nth(b,
        <<"normed", "Q_f32", "K_f32", "V_f32", "Attn_out", "Qg_f32", "Kh_f32", "Scores_f32",
          "Vh_f32", "Wo_out", "up_f32", "gate_f32", "ffn_out", "x_i8", "Q_i8", "K_i8", "V_i8",
          "Kh_i8_tmp", "O_i8", "up_i8", "gate_i8", "down_i8">>)

\* Buffer b, filled from its start.
Buffer(b) == Area(IF engine = "pool" THEN PoolStart[b] ELSE HeapStart(b), BufferSize[b])

\* The caller's x, the KV cache of the layer and its weights: nothing overlaps them.
X == Area(134217728, 4 * rows * D)
KCache == Area(150994944, kvLen * Dkv)
VCache == Area(167772160, kvLen * Dkv)
WeightNames == <<"Wq", "Wk", "Wv", "Wo", "ffn_up", "ffn_gate", "ffn_down">>
WeightSize == <<D * D, D * Dkv, D * Dkv, D * D, D * Ffn, D * Ffn, Ffn * D>>
Weight(w) ==
    LET i == Nth(w, WeightNames)
    IN  Value(Area(268435456 + 4194304 * i, WeightSize[i]), Only(w))

TypeOK ==
    /\ engine \in Engines /\ rows \in 1..MaxRows /\ kvLen \in rows..MaxKv
    /\ pc \in Stages \cup {"norm", "rope", "prep", "softmax", "sum", "residual",
                          "swiglu", "last", "done", "failed"}
    /\ g \in 0..Kvh
    /\ \A c, e \in mem : c = e \/ Apart(c, e)
    /\ \A c \in mem : c.lo < NeuronSize => c.lo + c.n <= NeuronSize
    /\ Len(queue) <= Kvh

\* smollm2_demo computes token by token; the pool engine takes the prompt in chunks of
\* MaxRows, the last of which may be shorter, and then goes token by token.
Init ==
    /\ engine \in Engines /\ rows \in 1..MaxRows /\ kvLen \in rows..MaxKv
    /\ rows = 1 \/ (engine = "pool" /\ (kvLen - rows) % MaxRows = 0)
    /\ pc = "norm" /\ g = 0 /\ queue = <<>>
    /\ mem = After({}, <<Assign(X, Only("x"), {})>>
                         \o [i \in 1..7 |-> LET w == Weight(WeightNames[i])
                                            IN  Assign(w.at, w.name, {})])

-----------------------------------------------------------------------------
(* The products.  Product i of a stage multiplies "left" [m, k] by "right"     *)
(* [k, n] through the scratch area; its result "gives" is put at "out" and     *)
(* copied to buffer "to", if there is one, after the Submit.                   *)
Qkv(i) ==
    [left |-> Value(Buffer("x_i8"), Only("norm1")), m |-> rows, k |-> D,
     right |-> Weight(WeightNames[i+1]), n |-> IF i = 0 THEN D ELSE Dkv,
     gives |-> Only(<<"Q", "K", "V">>[i+1]), out |-> <<QOff, KOff, VOff>>[i+1],
     scratch |-> ScratchOff + (IF engine = "demo" THEN i * BatchStride ELSE 0),
     to |-> <<"Q_i8", "K_i8", "V_i8">>[i+1]]

ScratchBug(i) == ScratchOff + i * (GroupStride \div 4)
Scratch(i) == ScratchOff + (IF engine = "demo" THEN i * GroupStride ELSE 0)

Score(i) ==
    [left |-> Value(QArea(i), <<"q", i>>), m |-> M, k |-> HeadDim,
     right |-> Value(KtArea(i), <<"k", i>>), n |-> kvLen,
     gives |-> <<"s", i>>, out |-> SArea(i).lo, scratch |-> Scratch(i), to |-> ""]
Attn(i) ==
    [left |-> Value(SArea(i), <<"p", i>>), m |-> M, k |-> kvLen,
     right |-> Value(VArea(i), <<"v", i>>), n |-> HeadDim,
     gives |-> <<"a", i>>, out |-> AArea(i).lo, scratch |-> Scratch(i), to |-> ""]
Projection(left, k, w, n, gives, out, scratch, to) ==
    [left |-> left, m |-> rows, k |-> k, right |-> Weight(w), n |-> n,
     gives |-> Only(gives), out |-> out, scratch |-> scratch, to |-> to]

Products(s) ==
    CASE s = "qkv" -> [i \in 1..3 |-> Qkv(i-1)]
      [] s = "scores" -> [i \in 1..Kvh |-> Score(i-1)]
      [] s = "attn" -> [i \in 1..Kvh |-> Attn(i-1)]
      [] s = "wo" -> <<Projection(Value(OArea, Only("sum")), D, "Wo", D, "wo", QOff, ScratchOff, "O_i8")>>
      [] s = "ffn" ->
           <<Projection(Value(Buffer("x_i8"), Only("norm2")), D, "ffn_up", Ffn, "up", UpOff,
                        ScratchOff, "up_i8"),
             Projection(Value(Buffer("x_i8"), Only("norm2")), D, "ffn_gate", Ffn, "gate", GateOff,
                        ScratchOff + BatchStride, "gate_i8")>>
      [] s = "down" -> <<Projection(Value(MidArea, Only("mid")), Ffn, "ffn_down", D, "down", QOff,
                                    ScratchOff, "down_i8")>>

\* tpu_matmul submits each product and fetches its result from the scratch area.
Immediate(s) == IF engine = "pool" THEN s = "qkv" ELSE s \in {"wo", "down"}
Following == [qkv |-> "rope", scores |-> "softmax", attn |-> "sum", wo |-> "residual",
              ffn |-> "swiglu", down |-> "last"]

\* lmem_matrix_bytes: rows over 2 lanes, columns in units of 32 bytes.
LmemBytesBug(r, c) == r * ((c + 31) \div 32) * 32
LmemBytes(r, c) == ((r + 1) \div 2) * ((c + 31) \div 32) * 32
FitsLmem(m, k, n) == LmemBytes(m, k) + LmemBytes(k, n) + LmemBytes(m, n) <= LmemSize
\* The columns loaded at once: all, or the widest tile that fits (tpu_find_tile_n).
TileSizes(m, k) == {t \in {16 * i : i \in 1..16} : FitsLmem(m, k, t)}
Possible(p) == FitsLmem(p.m, p.k, p.n) \/ TileSizes(p.m, p.k) # {}
Columns(p) == IF FitsLmem(p.m, p.k, p.n) THEN p.n ELSE Max(TileSizes(p.m, p.k))
Tiles(p) == (p.n + Columns(p) - 1) \div Columns(p)

\* The scratch area of a product: left, one tile of right and, for tpu_matmul, result.
Left(p) == Value(Area(p.scratch, p.m * p.k), p.left.name)
TileOf(p, t) ==
    LET first == (t - 1) * Columns(p)
        width == IF first + Columns(p) <= p.n THEN Columns(p) ELSE p.n - first
    IN  Value(Area(p.scratch + p.m * p.k, p.k * width), Append(p.right.name, t))
Out(p) ==
    LET off == IF Immediate(pc) THEN p.scratch + p.m * p.k + p.k * Columns(p) ELSE p.out
    IN  Value(Area(off, p.m * p.n), p.gives)

\* Copying the operands.  Every tile goes to the same place.
Copied(m, p) ==
    After(m, <<Assign(Left(p).at, Left(p).name, {p.left})>>
               \o [t \in 1..Tiles(p) |-> Assign(TileOf(p, t).at, TileOf(p, t).name, {p.right})])

\* The commands of a product run.  An operand that another product has overwritten
\* makes the result "mixed"; a tile the next tile has overwritten makes it "torn".
Own(m, v) == IF Has(m, v.at, v.name) THEN Taint(m, v.at, v.name) ELSE {"mixed"}
Executed(m, p) ==
    LET there == {t \in 1..Tiles(p) : Has(m, TileOf(p, t).at, TileOf(p, t).name)}
        right == IF there = {} THEN {"mixed"}
                 ELSE (UNION {Own(m, TileOf(p, t)) : t \in there})
                        \cup (IF there = 1..Tiles(p) THEN {} ELSE {"torn"})
    IN  Written(m, Out(p).at, Out(p).name, Own(m, Left(p)) \cup right)

\* The result, copied to its buffer after the Submit.
Fetch(ps) ==
    LET some == SelectSeq(ps, LAMBDA p : p.to # "")
    IN  [i \in DOMAIN some |-> Assign(Buffer(some[i].to), some[i].gives, {Out(some[i])})]

-----------------------------------------------------------------------------
(* tpu_matmul_build, CVI_RT_Submit and tpu_matmul *)
Build ==
    /\ pc \in Stages /\ ~Immediate(pc) /\ g < Len(Products(pc))
    /\ LET p == Products(pc)[g+1]
       IN  IF Possible(p)
           THEN /\ mem' = Copied(mem, p) /\ queue' = Append(queue, p) /\ g' = g + 1
                /\ UNCHANGED pc
           ELSE pc' = "failed" /\ UNCHANGED <<mem, queue, g>>
    /\ UNCHANGED <<engine, rows, kvLen>>

Submit ==
    /\ pc \in Stages /\ ~Immediate(pc) /\ g = Len(Products(pc))
    /\ mem' = After(FoldLeft(Executed, mem, queue), Fetch(queue))
    /\ queue' = <<>> /\ g' = 0 /\ pc' = Following[pc]
    /\ UNCHANGED <<engine, rows, kvLen>>

Matmul ==
    /\ pc \in Stages /\ Immediate(pc)
    /\ LET p == Products(pc)[g+1]
       IN  IF Possible(p)
           THEN /\ mem' = After(Executed(Copied(mem, p), p), Fetch(<<p>>))
                /\ IF g + 1 < Len(Products(pc)) THEN g' = g + 1 /\ UNCHANGED pc
                   ELSE g' = 0 /\ pc' = Following[pc]
           ELSE pc' = "failed" /\ UNCHANGED <<mem, g>>
    /\ UNCHANGED <<engine, rows, kvLen, queue>>

-----------------------------------------------------------------------------
(* What the CPU computes between the products *)
In(b, name) == Value(Buffer(b), name)
Fill(b, name, from) == Assign(Buffer(b), name, from)
Cpu(here, steps, next) ==
    /\ pc = here /\ mem' = After(mem, steps) /\ pc' = next
    /\ UNCHANGED <<engine, rows, kvLen, g, queue>>
\* One round of a loop over the groups.
CpuGroup(here, steps, next) ==
    /\ pc = here /\ mem' = After(mem, steps)
    /\ IF g + 1 < Kvh THEN g' = g + 1 /\ UNCHANGED pc ELSE g' = 0 /\ pc' = next
    /\ UNCHANGED <<engine, rows, kvLen, queue>>

\* RMS norm of x and its quantization.
Normed(x, out) ==
    <<Fill("normed", out, {Value(X, x)}), Fill("x_i8", out, {In("normed", out)})>>
Normalize == Cpu("norm", Normed(Only("x"), Only("norm1")), "qkv")

\* Dequantize, rotate, append to the KV cache: as floats in smollm2_demo, as raw
\* products in the pool engine, which rotates keys when it reads them.
Rotate ==
    LET kept == IF engine = "demo" THEN <<"K_f32", "V_f32">> ELSE <<"K_i8", "V_i8">>
    IN  Cpu("rope",
            <<Fill("Q_f32", Only("Q"), {In("Q_i8", Only("Q"))}),
              Fill("K_f32", Only("K"), {In("K_i8", Only("K"))}),
              Fill("V_f32", Only("V"), {In("V_i8", Only("V"))}),
              Assign(KCache, Only("K"), {In(kept[1], Only("K"))}),
              Assign(VCache, Only("V"), {In(kept[2], Only("V"))}),
              Fill("Attn_out", <<"sum", 0>>, {})>>, "prep")

\* Quantize the queries of group g and its transposed keys.
Prepare ==
    CpuGroup("prep",
        <<Fill("Qg_f32", <<"q", g>>, {In("Q_f32", Only("Q"))}),
          Assign(QArea(g), <<"q", g>>, {In("Qg_f32", <<"q", g>>)}),
          Fill("Kh_f32", <<"k", g>>, {Value(KCache, Only("K"))}),
          Fill("Kh_i8_tmp", <<"k", g>>, {In("Kh_f32", <<"k", g>>)}),
          Assign(KtArea(g), <<"k", g>>, {In("Kh_i8_tmp", <<"k", g>>)})>>, "scores")

\* Turn the scores of group g into weights, in place; quantize its values.
Softmax ==
    CpuGroup("softmax",
        <<Fill("Scores_f32", <<"p", g>>, {Value(SArea(g), <<"s", g>>)}),
          Assign(SArea(g), <<"p", g>>, {In("Scores_f32", <<"p", g>>)}),
          Fill("Vh_f32", <<"v", g>>, {Value(VCache, Only("V"))}),
          Assign(VArea(g), <<"v", g>>, {In("Vh_f32", <<"v", g>>)})>>, "attn")

\* Add up the groups' outputs and quantize the sum for Wo.
Accumulate ==
    Cpu("sum",
        [i \in 1..Kvh |-> Fill("Attn_out", <<"sum", i>>,
                               {In("Attn_out", <<"sum", i-1>>), Value(AArea(i-1), <<"a", i-1>>)})]
          \o <<Assign(OArea, Only("sum"), {In("Attn_out", <<"sum", Kvh>>)})>>, "wo")

AddAttention ==
    Cpu("residual",
        <<Fill("Wo_out", Only("wo"), {In("O_i8", Only("wo"))}),
          Assign(X, Only("x1"), {Value(X, Only("x")), In("Wo_out", Only("wo"))})>>
          \o Normed(Only("x1"), Only("norm2")), "ffn")

SwiGlu ==
    Cpu("swiglu",
        <<Fill("up_f32", Only("up"), {In("up_i8", Only("up"))}),
          Fill("gate_f32", Only("gate"), {In("gate_i8", Only("gate"))}),
          Fill("gate_f32", Only("silu"), {In("gate_f32", Only("gate"))}),
          Fill("up_f32", Only("mid"), {In("up_f32", Only("up")), In("gate_f32", Only("silu"))}),
          Assign(MidArea, Only("mid"), {In("up_f32", Only("mid"))})>>, "down")

AddFfn ==
    Cpu("last",
        <<Fill("ffn_out", Only("down"), {In("down_i8", Only("down"))}),
          Assign(X, Only("x2"), {Value(X, Only("x1")), In("ffn_out", Only("down"))})>>, "done")

Ended == pc \in {"done", "failed"} /\ UNCHANGED vars

Next ==
    \/ Normalize \/ Rotate \/ Prepare \/ Softmax \/ Accumulate \/ AddAttention
    \/ SwiGlu \/ AddFfn
    \/ Build \/ Submit \/ Matmul
    \/ Ended

Spec == Init /\ [][Next]_vars

-----------------------------------------------------------------------------
\* A product that waits for Submit still finds its own operands in the scratch area:
\* no other product of the batch has overwritten them ("separate scratch regions to
\* avoid overwrite within batch", smollm2_demo.c:621).  The exception are the KV groups
\* of the pool engine, which share one region (smollm2_pool_demo.c:707).
OperandsHeld ==
    \A i \in DOMAIN queue :
        (engine = "pool" => pc \notin {"scores", "attn"}) =>
            LET p == queue[i]
            IN  /\ Has(mem, Left(p).at, Left(p).name)
                /\ \E t \in 1..Tiles(p) : Has(mem, TileOf(p, t).at, TileOf(p, t).name)

\* Nothing is computed from a value that has been overwritten while it was needed:
\* buffers overlap only where the one's contents are dead ("Wo_out overlaps Q_f32",
\* "ffn_out overlaps gate_f32", smollm2_pool_demo.c:498), and the areas of the groups
\* keep clear of one another for every size of pass and context.
NothingLost == \A c \in mem : "lost" \notin c.taint

\* No layer fails for want of a tile that fits the local memory: CHUNK_PREFILL keeps
\* the products small enough ("TPU can handle at most 10 tokens/batch",
\* smollm2_pool_demo.c:2287), the FFN's down projection among them.
LayerAnswers == pc # "failed"
=============================================================================
