---------------------------- MODULE MhaPrograms ----------------------------
(* The multi-head attention demos as programs for TpuTerms: what each of them  *)
(* reads, copies, quantizes, multiplies and asks of the secondary core, in its *)
(* own order and with its own layout of the neuron memory.  c holds the sizes: *)
(* S rows, D columns, H heads of d columns.                                    *)
EXTENDS TpuTerms

Heads(c) == 0..(c.H - 1)
Total(c) == c.S * c.D
WeightNames == <<"Wq", "Wk", "Wv", "Wo">>
\* W: what the weights are.
Config(S, D, H) ==
    [S |-> S, D |-> D, H |-> H, d |-> D \div H, W |-> [w \in 1..4 |-> <<WeightNames[w]>>]]
F32(at, n) == Area(at, 4 * n)
I8(at, n) == Area(at, n)
ForHeads(c, Op(_)) == FlattenSeq([h \in 1..c.H |-> Op(h - 1)])

\* common/mha_descriptor.h, from the place of a batch.
Layout(base) ==
    [inp |-> base + \h40000, q32 |-> base + \h50000, k32 |-> base + \h60000, v32 |-> base + \h70000,
     sc |-> base + \h80000, at |-> base + \h90000, q8 |-> base + \hC0000, k8 |-> base + \hC4000,
     v8 |-> base + \hC8000, s8 |-> base + \hCC000, a8 |-> base + \hD0000, o8 |-> base + \hD4000]
RefOut == \hE0000
MhaTotal == \h100000

\* What main keeps in the heap.
HostWeight(w) == 4 + w
Weights(c) == [w \in 1..4 |-> I8(Heap(HostWeight(w), 1).lo, c.D * c.D)]
XQ(c) == Heap(9, Total(c))
Input(c, b) == Heap(10 + b, 4 * Total(c))
Output(c, n) == Heap(20 + n, 4 * Total(c))
QuantizedWeights(c) == [w \in 1..4 |-> Fresh(c.W[w], Weights(c)[w])]

-----------------------------------------------------------------------------
(* The steps every pipeline has.  mul says where the scratch area of a product *)
(* is and whether the DMA takes its tiles; lut, whether tensors are quantized  *)
(* by table.                                                                   *)
Multiplied(mul, l, r, m, k, cols, to) == Product(l, r, m, k, cols, to, mul.scratch, mul.direct)

\* build_quant_lut and quantize_lut: one table on the stack, of the tensor at hand.
Table == Heap(42, 65536)
InputTable == Heap(43, 65536)
BuildTable(from, at) == Compute(<<"table">>, <<from>>, at)
Lookup(from, table, to) == Compute(<<"lookup">>, <<from, table>>, to)
ByTable(from, to) == <<BuildTable(from, Table), Lookup(from, Table, to)>>
Quantized(lut, from, to) == IF lut THEN ByTable(from, to) ELSE <<Copy(from, to)>>

Rotated(c, L, lut) ==
    LET q == F32(L.q32, Total(c))   k == F32(L.k32, Total(c))
    IN  <<Compute(<<"rope", c.d>>, <<q>>, q), Compute(<<"rope", c.d>>, <<k>>, k)>>
            \o Quantized(lut, q, I8(L.q8, Total(c))) \o Quantized(lut, k, I8(L.k8, Total(c)))

\* Scores of every head, softmax, and the quantized probabilities.
Scored(c, L, mul, lut) ==
    LET n == c.S * c.S
        qh == Heap(0, c.S * c.d)   kh == Heap(1, c.S * c.d)   kt == Heap(2, c.S * c.d)
        Score(h) ==
            <<Compute(<<"head", h>>, <<I8(L.q8, Total(c))>>, qh),
              Compute(<<"head", h>>, <<I8(L.k8, Total(c))>>, kh),
              Compute(<<"transposed">>, <<kh>>, kt),
              Multiplied(mul, qh, kt, c.S, c.d, c.S, I8(L.s8 + h * n, n))>>
        scores == F32(L.sc, c.H * n)
    IN  ForHeads(c, Score)
            \o <<Copy(I8(L.s8, c.H * n), scores), Compute(<<"softmax">>, <<scores>>, scores)>>
            \o Quantized(lut, scores, I8(L.s8, c.H * n))

\* The values come back from their own quantization; then a product per head.
Attended(c, L, mul, lut) ==
    LET n == c.S * c.S
        vh == Heap(0, c.S * c.d)
        v == F32(L.v32, Total(c))
        Attend(h) ==
            <<Compute(<<"head", h>>, <<I8(L.v8, Total(c))>>, vh),
              Multiplied(mul, I8(L.s8 + h * n, n), vh, c.S, c.S, c.d, I8(L.a8 + h * c.S * c.d, c.S * c.d))>>
    IN  <<Copy(I8(L.v8, Total(c)), v)>> \o Quantized(lut, v, I8(L.v8, Total(c)))
            \o ForHeads(c, Attend) \o <<Copy(I8(L.a8, Total(c)), F32(L.at, Total(c)))>>

\* Interleaved by row, as Wo expects them, and then overwritten by the same values
\* head after head.
Concatenated(c, L, lut) ==
    <<Compute(<<"interleave">>, <<I8(L.a8, Total(c))>>, Heap(3, Total(c)))>>
        \o Quantized(lut, F32(L.at, Total(c)), Heap(3, Total(c)))

-----------------------------------------------------------------------------
(* What the programs should compute, as terms.                                 *)
InOrder(c, names) == IF c.H = 1 THEN names[1] ELSE <<"join", names>>
Interleaved(c, names) == IF c.H = 1 THEN names[1] ELSE <<"interleave", <<"join", names>>>>
HeadPart(c, h, t) == IF c.H = 1 THEN t ELSE <<"part", h * c.S * c.S, c.S * c.S, t>>

Attention(c, q, k, v, interleaved) ==
    LET score(h) == <<"mul", <<"head", h, q>>, <<"transposed", <<"head", h, k>>>>>>
        probs == <<"softmax", InOrder(c, [h \in 1..c.H |-> score(h - 1)])>>
        heads == [h \in 1..c.H |-> <<"mul", HeadPart(c, h - 1, probs), <<"head", h - 1, v>>>>]
    IN  <<"mul", IF interleaved THEN Interleaved(c, heads) ELSE InOrder(c, heads), c.W[4]>>

Projected(c, x, w) == <<"mul", x, c.W[w]>>

\* mha_ref_fp32 of the SD demos, and mha_reference_fp32, which rotates whole rows.
Reference(c, x) ==
    Attention(c, <<"rope", c.d, Projected(c, x, 1)>>, <<"rope", c.d, Projected(c, x, 2)>>,
              Projected(c, x, 3), TRUE)
AttentionReference(c, x) ==
    Attention(c, <<"rope", c.D, Projected(c, x, 1)>>, <<"rope", c.D, Projected(c, x, 2)>>,
              Projected(c, x, 3), TRUE)
\* What the pipelines compute, whatever they take for the queries: the heads one after
\* the other.  It is the reference's only for one head, and for the right queries.
AsBuilt(c, x, q) ==
    Attention(c, <<"rope", c.d, q>>, <<"rope", c.d, Projected(c, x, 2)>>, Projected(c, x, 3), FALSE)
X(b) == <<"x", b>>
Unset(L, field) == <<"unset", L[field]>>

-----------------------------------------------------------------------------
(* mha_attention.c: one input, twice.                                          *)
AsyncScratch == 0
SyncScratch == \h20000

AttentionMul == [scratch |-> SyncScratch, direct |-> TRUE]

AttentionPipeline(c, async, n) ==
    LET L == Layout(0)
        Project(w, to) == Multiplied(AttentionMul, XQ(c), Weights(c)[w], c.S, c.D, c.D, I8(to, Total(c)))
        query == [Project(1, L.q8) EXCEPT !.scratch = IF async THEN AsyncScratch ELSE SyncScratch]
    IN  <<Copy(Input(c, 0), XQ(c))>>
            \o (IF async THEN <<Async(query)>> ELSE <<query>>)
            \o <<Project(2, L.k8)>>
            \o (IF async THEN <<WaitAsync, Invalidate>> ELSE <<>>)
            \o <<Copy(I8(L.q8, Total(c)), F32(L.q32, Total(c))),
                 Copy(I8(L.k8, Total(c)), F32(L.k32, Total(c))),
                 Project(3, L.v8)>>
            \o Rotated(c, L, FALSE) \o Scored(c, L, AttentionMul, FALSE) \o Attended(c, L, AttentionMul, FALSE)
            \o Concatenated(c, L, FALSE)
            \o <<Multiplied(AttentionMul, Heap(3, Total(c)), Weights(c)[4], c.S, c.D, c.D, I8(L.o8, Total(c))),
                 Copy(I8(L.o8, Total(c)), Output(c, n))>>

AttentionMain(c) ==
    <<Fresh(X(0), Input(c, 0))>> \o QuantizedWeights(c)
        \o <<TpuInit>> \o AttentionPipeline(c, FALSE, 0)
        \o <<TpuInit>> \o AttentionPipeline(c, TRUE, 1)

\* As mha_reference_fp32, for one head.
AttentionOutputs(c) ==
    IF c.H = 1 THEN {[at |-> Output(c, 0), is |-> AttentionReference(c, X(0))]} ELSE {}
\* The asynchronous query product is never fetched: the area of the queries is as the
\* allocation left it.
AttentionOdd(c) ==
    {[at |-> Output(c, 1), is |-> AsBuilt(c, X(0), Unset(Layout(0), "q8"))]}
      \cup (IF c.H = 1 THEN {} ELSE {[at |-> Output(c, 0), is |-> AsBuilt(c, X(0), Projected(c, X(0), 1))]})

-----------------------------------------------------------------------------
(* Commands to the secondary core (mha_dma_desc_t and a command number).       *)
DescSize == 32
\* The CPU fills in the descriptor.
Describe(at, from, to, result) ==
    Fresh(<<"desc", from, to, result>>, Area(at, DescSize))
SendWait(cmd, at) == [op |-> "sendwait", cmd |-> cmd, at |-> Area(at, DescSize)]
SendAsync(cmd, at) == [op |-> "send", cmd |-> cmd, at |-> Area(at, DescSize)]
\* Until the descriptor is answered the input is there; else it is quantized here.
Poll(at, there, from, else) ==
    [op |-> "poll", at |-> Area(at, DescSize), there |-> there, from |-> from, else |-> else]
PointTo(at) == [op |-> "point", at |-> at]
\* The C variable x_i8 points to one of several areas.
ThroughX(n) == Area(-1, n)

-----------------------------------------------------------------------------
(* mha_multi_batch.c: batches in two areas by turns, copied there by the CPU   *)
(* (mode 0) or the secondary core (mode 1).                                    *)
BatchOff(b) == IF b % 2 = 1 THEN MhaTotal ELSE 0
BatchStaging == 2 * MhaTotal

\* Without tiles.
BatchMul == [scratch |-> SyncScratch, direct |-> FALSE]

\* x_i8 is SCRATCH_I8, which is also where the query product would go.
BatchPipeline(c, b, n) ==
    LET L == Layout(BatchOff(b))
        x == I8(L.q8, Total(c))
        Project(w, to) == Multiplied(BatchMul, x, Weights(c)[w], c.S, c.D, c.D, I8(to, Total(c)))
    IN  <<Async([Project(1, L.q8) EXCEPT !.scratch = AsyncScratch]), Project(2, L.k8),
          WaitAsync, Invalidate,
          Copy(I8(L.q8, Total(c)), F32(L.q32, Total(c))), Copy(I8(L.k8, Total(c)), F32(L.k32, Total(c))),
          Project(3, L.v8)>>
            \o Rotated(c, L, FALSE) \o Scored(c, L, BatchMul, FALSE) \o Attended(c, L, BatchMul, FALSE)
            \o Concatenated(c, L, FALSE)
            \o <<Multiplied(BatchMul, Heap(3, Total(c)), Weights(c)[4], c.S, c.D, c.D, I8(L.o8, Total(c))),
                 Copy(I8(L.o8, Total(c)), Output(c, n))>>

BatchMode0(c, N) ==
    LET Batch(b) ==
            LET inp == F32(Layout(BatchOff(b)).inp, Total(c))
            IN  <<Copy(Input(c, b), inp), Flush, Copy(inp, I8(Layout(BatchOff(b)).q8, Total(c)))>>
                    \o BatchPipeline(c, b, b)
    IN  <<TpuInit>> \o FlattenSeq([b \in 1..N |-> Batch(b - 1)])

\* Without the flush before the command.
BatchMode1Bug(c, N) ==
    LET staged(b) == F32(BatchStaging + b * 4 * Total(c), Total(c))
        inp(b) == F32(Layout(BatchOff(b)).inp, Total(c))
        Batch(b) ==
            (IF b = 0 THEN <<>>
             ELSE <<Describe(RefOut, staged(b), inp(b), -1), SendWait(<<>>, RefOut), Invalidate>>)
                \o <<Copy(inp(b), I8(Layout(BatchOff(b)).q8, Total(c)))>>
                \o BatchPipeline(c, b, N + b)
    IN  <<TpuInit, Copy(Input(c, 0), inp(0))>>
            \o [b \in 1..(N - 1) |-> Copy(Input(c, b), staged(b))] \o <<Flush>>
            \o FlattenSeq([b \in 1..N |-> Batch(b - 1)])

\* From batch 1 on the core fetches the input; an error is printed and no more.
BatchMode1(c, N) ==
    LET staged(b) == F32(BatchStaging + b * 4 * Total(c), Total(c))
        inp(b) == F32(Layout(BatchOff(b)).inp, Total(c))
        Batch(b) ==
            (IF b = 0 THEN <<>>
             ELSE <<Describe(RefOut, staged(b), inp(b), -1), Flush,
                    SendWait(<<>>, RefOut), Invalidate>>)
                \o <<Copy(inp(b), I8(Layout(BatchOff(b)).q8, Total(c)))>>
                \o BatchPipeline(c, b, N + b)
    IN  <<TpuInit, Copy(Input(c, 0), inp(0))>>
            \o [b \in 1..(N - 1) |-> Copy(Input(c, b), staged(b))] \o <<Flush>>
            \o FlattenSeq([b \in 1..N |-> Batch(b - 1)])

BatchMain(c, N) ==
    QuantizedWeights(c) \o [b \in 1..N |-> Fresh(X(b - 1), Input(c, b - 1))]
        \o BatchMode0(c, N) \o BatchMode1(c, N)

\* "Both modes should produce same output" (line 535), and do: the queries are the input
\* itself in both.
BatchOdd(c, N) ==
    {[at |-> Output(c, mode * N + b), is |-> AsBuilt(c, X(b), X(b))] : b \in 0..(N - 1), mode \in 0..1}

-----------------------------------------------------------------------------
(* mha_multi_batch_pipeline.c: the secondary core quantizes the input of the   *)
(* next batch while the TPU works on this one.                                 *)
BatchBase(b) == IF b % 2 = 1 THEN \hC0000 ELSE \h40000
PingPongLayout(b) ==
    LET base == BatchBase(b)
    IN  [inp |-> base, q32 |-> base + \h10000, k32 |-> base + \h20000, v32 |-> base + \h30000,
         sc |-> base + \h40000, at |-> base + \h48000, out |-> base + \h58000,
         q8 |-> base + \h68000, k8 |-> base + \h6C000, v8 |-> base + \h70000, s8 |-> base + \h74000,
         a8 |-> base + \h78000, o8 |-> base + \h7C000, inp8 |-> base + \h78000]
PingPongScratch == \h140000
PingPongStaging == \h160000
DescOff == PingPongScratch + \h1F000
\* MHA_WQ_OFF to MHA_WO_OFF: room for 128 columns.
WeightSpacing == \h4000
NeuronWeights(c) == [w \in 1..4 |-> I8((w - 1) * WeightSpacing, c.D * c.D)]
WeightsApart(c) == c.D * c.D <= WeightSpacing

PingPongMul == [scratch |-> PingPongScratch, direct |-> TRUE]

PingPongPipeline(c, b) ==
    LET L == PingPongLayout(b)
        Project(w, to) == Multiplied(PingPongMul, ThroughX(Total(c)), NeuronWeights(c)[w], c.S, c.D, c.D, I8(to, Total(c)))
    IN  <<Async(Project(1, L.q8)), Project(2, L.k8), WaitAsync, Invalidate,
          Copy(I8(L.q8, Total(c)), F32(L.q32, Total(c))), Copy(I8(L.k8, Total(c)), F32(L.k32, Total(c))),
          Project(3, L.v8)>>
            \o Rotated(c, L, FALSE) \o Scored(c, L, PingPongMul, FALSE) \o Attended(c, L, PingPongMul, FALSE)
            \o Concatenated(c, L, FALSE)
            \o <<Multiplied(PingPongMul, Heap(3, Total(c)), NeuronWeights(c)[4], c.S, c.D, c.D, I8(L.o8, Total(c))),
                 Copy(I8(L.o8, Total(c)), F32(L.out, Total(c)))>>

CopiedWeights(c) == [w \in 1..4 |-> Copy(Weights(c)[w], NeuronWeights(c)[w])]
CopiedOut(c, b, n) == <<Copy(F32(PingPongLayout(b).out, Total(c)), Output(c, n))>>
QuantizedHere(c, b) == <<Copy(Input(c, b), XQ(c)), PointTo(XQ(c))>>

\* Quantized in the loop, from the batch's own area.
PingPongMode0(c, N) ==
    LET Batch(b) ==
            <<Copy(Input(c, b), F32(PingPongLayout(b).inp, Total(c))),
              Copy(F32(PingPongLayout(b).inp, Total(c)), XQ(c)), PointTo(XQ(c)), Flush>>
                \o PingPongPipeline(c, b) \o CopiedOut(c, b, b)
    IN  <<TpuInit>> \o CopiedWeights(c) \o <<Flush>> \o FlattenSeq([b \in 1..N |-> Batch(b - 1)])

\* Quantized before the loop.
PingPongMode1(c, N) ==
    LET quantized(b) == Heap(30 + b, Total(c))
        Batch(b) == <<PointTo(quantized(b))>> \o PingPongPipeline(c, b) \o CopiedOut(c, b, b)
    IN  <<TpuInit>> \o CopiedWeights(c) \o <<Flush>>
            \o [b \in 1..N |-> Copy(Input(c, b - 1), quantized(b - 1))]
            \o FlattenSeq([b \in 1..N |-> Batch(b - 1)])

\* From the input of the batch the TPU is working on.
NextQuantizedBug(c, b, N) ==
    IF b + 1 = N THEN <<>>
    ELSE <<Describe(DescOff, F32(PingPongStaging + b * 4 * Total(c), Total(c)),
                    I8(PingPongLayout(b + 1).inp8, Total(c)), -1),
           Flush, SendAsync(<<>>, DescOff)>>

\* The core is told of the next batch before this one's pipeline runs.
NextQuantized(c, b, N) ==
    IF b + 1 = N THEN <<>>
    ELSE <<Describe(DescOff, F32(PingPongStaging + (b + 1) * 4 * Total(c), Total(c)),
                    I8(PingPongLayout(b + 1).inp8, Total(c)), -1),
           Flush, SendAsync(<<>>, DescOff)>>
PingPongMode2(c, N) ==
    LET Ready(b) ==
            IF b = 0 THEN QuantizedHere(c, b)
            ELSE <<Poll(DescOff, I8(PingPongLayout(b).inp8, Total(c)), Input(c, b), XQ(c))>>
        Batch(b) == Ready(b) \o NextQuantized(c, b, N) \o PingPongPipeline(c, b) \o CopiedOut(c, b, b)
    IN  <<TpuInit>> \o CopiedWeights(c)
            \o [b \in 1..N |-> Copy(Input(c, b - 1), F32(PingPongStaging + (b - 1) * 4 * Total(c), Total(c)))]
            \o <<Flush>> \o FlattenSeq([b \in 1..N |-> Batch(b - 1)])

PingPongMain(c, N, mode) ==
    QuantizedWeights(c) \o [b \in 1..N |-> Fresh(X(b - 1), Input(c, b - 1))]
        \o (CASE mode = 0 -> PingPongMode0(c, N)
              [] mode = 1 -> PingPongMode1(c, N)
              [] mode = 2 -> PingPongMode2(c, N))

\* The query product is never fetched: the queries of a batch are those of two batches
\* before, rotated once more.
Queries(c) ==
    LET q[b \in 0..9] ==
            IF b < 2 THEN Unset(PingPongLayout(b), "q8") ELSE <<"rope", c.d, q[b - 2]>>
    IN  q
PingPongOdd(c, N) ==
    IF WeightsApart(c)
    THEN {[at |-> Output(c, b), is |-> AsBuilt(c, X(b), Queries(c)[b])] : b \in 0..(N - 1)}
    ELSE {}

-----------------------------------------------------------------------------
(* The demos that read from the SD card.  A checked read that fails ends the   *)
(* program, an unchecked one leaves the buffer as it was.                      *)
Read(from, to, checked) == [op |-> "read", from |-> from, to |-> to, checked |-> checked]
WeightFile(c, w) == Heap(60 + w, 4 * c.D * c.D)
InputFile(c) == Heap(70, 4 * Total(c))
BackupFile(c) == Heap(71, 4 * Total(c))
BatchFile(c, b) == Heap(72 + b, 4 * Total(c))
WeightBuf(c) == Heap(40, 4 * c.D * c.D)
InputBuf(c) == Heap(41, 4 * Total(c))
MatmulScratch == 0

WrittenFiles(c) ==
    [w \in 1..4 |-> Fresh(c.W[w], WeightFile(c, w))] \o <<Fresh(X(0), InputFile(c))>>
ReadWeights(c, checked, lut) ==
    FlattenSeq([w \in 1..4 |->
        <<Read(WeightFile(c, w), WeightBuf(c), checked)>> \o Quantized(lut, WeightBuf(c), Weights(c)[w])])

SdMul == [scratch |-> MatmulScratch, direct |-> FALSE]

\* The demos without blocks have the same steps from the quantized input on.
SdAttention(c, n, lut) ==
    LET L == Layout(0)
        Project(w, to) == Multiplied(SdMul, XQ(c), Weights(c)[w], c.S, c.D, c.D, I8(to, Total(c)))
    IN  <<Project(1, L.q8), Project(2, L.k8),
          Copy(I8(L.q8, Total(c)), F32(L.q32, Total(c))), Copy(I8(L.k8, Total(c)), F32(L.k32, Total(c))),
          Project(3, L.v8)>>
            \o Rotated(c, L, lut) \o Scored(c, L, SdMul, lut) \o Attended(c, L, SdMul, lut)
            \o Concatenated(c, L, lut)
            \o <<Multiplied(SdMul, Heap(3, Total(c)), Weights(c)[4], c.S, c.D, c.D, I8(L.o8, Total(c))),
                 Copy(I8(L.o8, Total(c)), Output(c, n))>>

FullPipeline(c) ==
    <<Read(InputFile(c), InputBuf(c), TRUE)>> \o <<Copy(InputBuf(c), XQ(c))>> \o SdAttention(c, 0, FALSE)
FullMain(c) == WrittenFiles(c) \o ReadWeights(c, TRUE, FALSE) \o <<TpuInit>> \o FullPipeline(c)

LutPipeline(c) ==
    <<Read(InputFile(c), InputBuf(c), TRUE)>> \o ByTable(InputBuf(c), XQ(c)) \o SdAttention(c, 0, TRUE)
LutMain(c) == WrittenFiles(c) \o ReadWeights(c, TRUE, TRUE) \o <<TpuInit>> \o LutPipeline(c)

\* mha_sdcard_multi.c: the table of batch 0 serves the inputs of all batches.
MultiPipeline(c, n, lut) ==
    <<Read(InputFile(c), InputBuf(c), TRUE)>>
        \o (IF lut THEN <<Lookup(InputBuf(c), InputTable, XQ(c))>> \o SdAttention(c, n, TRUE)
            ELSE <<Copy(InputBuf(c), XQ(c))>> \o SdAttention(c, n, FALSE))
\* The pipeline reads input.f32: before each batch the file is replaced.
Replaced(c, file) == <<Read(file, InputBuf(c), FALSE), Copy(InputBuf(c), InputFile(c))>>
MultiMain(c, N) ==
    LET Batch(b) == (IF b = 0 THEN <<>> ELSE Replaced(c, BatchFile(c, b))) \o MultiPipeline(c, b, TRUE)
    IN  WrittenFiles(c) \o <<Fresh(X(0), BackupFile(c))>>
            \o [b \in 1..(N - 1) |-> Fresh(X(b), BatchFile(c, b))]
            \o ReadWeights(c, FALSE, TRUE) \o <<TpuInit>>
            \o <<Read(InputFile(c), InputBuf(c), FALSE), BuildTable(InputBuf(c), InputTable)>>
            \o FlattenSeq([b \in 1..N |-> Batch(b - 1)])
            \o Replaced(c, BackupFile(c)) \o ReadWeights(c, FALSE, FALSE) \o MultiPipeline(c, N, FALSE)

\* With one head the reference, with more the heads in the wrong order.
SdOutputs(c) == IF c.H = 1 THEN {[at |-> Output(c, 0), is |-> Reference(c, X(0))]} ELSE {}
BuiltAt(c, n, x) == [at |-> Output(c, n), is |-> AsBuilt(c, x, Projected(c, x, 1))]
SdOdd(c) == IF c.H = 1 THEN {} ELSE {BuiltAt(c, 0, X(0))}
\* The inputs after the first are quantized with the first one's scale.
MultiOdd(c, N) ==
    {BuiltAt(c, b, IF b = 0 THEN X(b) ELSE <<"misscaled", X(b)>>) : b \in 0..(N - 1)}
        \cup {BuiltAt(c, N, X(0))}

-----------------------------------------------------------------------------
(* mha_sdcard_pipeline.c: every weight in B blocks of columns, of which one is *)
(* read, one is quantized and one is multiplied by turns, in rings of three.   *)
BlockConfig(S, D, H) ==
    [Config(S, D, H) EXCEPT !.W = [w \in 1..4 |-> <<"rows", <<"columns", WeightNames[w]>>>>]]
ColumnFile(c, w) == WeightFile(c, w)
MaxInflight == 3
Ring(first, slot, n) == Heap(first + (slot % MaxInflight), n)

BlockMul == [scratch |-> MatmulScratch, direct |-> FALSE]
PipelineWeight(c, B, w, left, to) ==
    LET cols == c.D \div B
        n == cols * c.D
        fp32(b) == Ring(44, b, 4 * n)   i8(b) == Ring(47, b, n)   rows(b) == Ring(50, b, n)
        Cycle(i) ==
            (IF i - 2 \in 0..(B - 1)
             THEN <<Multiplied(BlockMul, left, rows(i - 2), c.S, c.D, cols, I8(to + (i - 2) * cols, c.S * cols))>>
             ELSE <<>>)
            \o (IF i - 1 \in 0..(B - 1)
                THEN <<Copy(fp32(i - 1), i8(i - 1)), Compute(<<"rows">>, <<i8(i - 1)>>, rows(i - 1))>>
                ELSE <<>>)
            \o (IF i \in 0..(B - 1)
                THEN <<Read(Area(ColumnFile(c, w).lo + i * 4 * n, 4 * n), fp32(i), FALSE)>>
                ELSE <<>>)
    IN  FlattenSeq([i \in 1..(B + 2) |-> Cycle(i - 1)])

BlockMain(c, B) ==
    LET L == Layout(0)
    IN  [w \in 1..4 |-> Fresh(<<"columns", WeightNames[w]>>, ColumnFile(c, w))]
            \o <<Fresh(X(0), InputFile(c)), Read(InputFile(c), InputBuf(c), TRUE),
                 Copy(InputBuf(c), XQ(c)), TpuInit>>
            \o PipelineWeight(c, B, 1, XQ(c), L.q8) \o PipelineWeight(c, B, 2, XQ(c), L.k8)
            \o PipelineWeight(c, B, 3, XQ(c), L.v8)
            \o <<Copy(I8(L.q8, Total(c)), F32(L.q32, Total(c))), Copy(I8(L.k8, Total(c)), F32(L.k32, Total(c)))>>
            \o Rotated(c, L, FALSE) \o Scored(c, L, BlockMul, FALSE) \o Attended(c, L, BlockMul, FALSE)
            \o Concatenated(c, L, FALSE) \o PipelineWeight(c, B, 4, Heap(3, Total(c)), L.o8)
            \o <<Copy(I8(L.o8, Total(c)), Output(c, 0))>>

\* With more than one block the products overwrite one another: each is S times "cols"
\* bytes in one piece, the next one begins after "cols" of them.  What is left whole is
\* the last one.
BlockOdd(c, B) == IF B = 1 THEN SdOdd(c) ELSE {}
LastBlock(c, B) ==
    LET cols == c.D \div B
        n == cols * c.D
    IN  [at |-> I8(Layout(0).o8 + (B - 1) * cols, c.S * cols),
         of |-> <<"rows", IF B = 1 THEN <<"columns", "Wo">>
                          ELSE <<"part", (B - 1) * 4 * n, 4 * n, <<"columns", "Wo">>>>>>]

-----------------------------------------------------------------------------
(* mha_mailbox_test.c: the five commands, each with its result fetched.        *)
TestSize == 256
TestMain ==
    LET src == Layout(0).q8
        dst == RefOut + \h100
        Commanded(cmd, from, to, n) ==
            <<Describe(RefOut, from, to, -1), Flush, SendWait(cmd, RefOut), Invalidate,
              Copy(to, Heap(20 + n, to.n))>>
        square == TestSize * TestSize
    IN  <<TpuInit, Fresh(<<"a">>, I8(src, TestSize)), Fresh(<<"zero">>, I8(dst, TestSize))>>
            \o Commanded(<<>>, I8(src, TestSize), I8(dst, TestSize), 0)
            \o Commanded(<<"filled">>, I8(src, TestSize), I8(dst, TestSize), 1)
            \o <<Describe(RefOut, I8(src, 0), I8(dst, 0), -1), Flush, SendWait(<<"none">>, RefOut), Invalidate>>
            \o <<Fresh(<<"a">>, I8(src, TestSize * 16)), Fresh(<<"zero">>, I8(dst, TestSize * 16)), Flush>>
            \o Commanded(<<"transposed">>, I8(src, TestSize * 16), I8(dst, TestSize * 16), 2)
            \o <<Fresh(<<"f">>, F32(Layout(0).inp, square)), Flush>>
            \o Commanded(<<>>, F32(Layout(0).inp, square), I8(src, square), 3)
TestOutputs ==
    {[at |-> Heap(20, TestSize), is |-> <<"a">>],
     [at |-> Heap(21, TestSize), is |-> <<"filled">>],
     [at |-> Heap(22, TestSize * 16), is |-> <<"transposed", <<"a">>>>],
     [at |-> Heap(23, TestSize * TestSize), is |-> <<"f">>]}
=============================================================================
