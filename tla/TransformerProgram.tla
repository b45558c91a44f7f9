------------------------- MODULE TransformerProgram -------------------------
(* transformer_demo.c as a program for TpuTerms: a decoder of two layers that  *)
(* writes its weights to the SD card and reads them back, takes the prompt in  *)
(* one pass and generates tokens.  The matrix products go through a scratch    *)
(* area at the start of the neuron memory, where x and the queries also are.   *)
(* Every x, row of the KV cache and token that is right gets a name, so that   *)
(* terms stay small: <<"x", t, l>> is x before layer l in pass t.              *)
EXTENDS MhaPrograms

TrD == 128
TrHeads == 4
TrHeadDim == 32
TrLayers == 2
TrFfn == 256
TrVocab == 128
TrMaxSeq == 64

\* The neuron memory.
TrOff ==
    [x |-> 0, q |-> \h4000, k |-> \h8000, v |-> \hC000, scores |-> \h10000, attn |-> \h14000,
     ffn |-> \h18000, out |-> \h1C000, q8 |-> \h40000, k8 |-> \h44000, v8 |-> \h48000, s8 |-> \h4C000,
     a8 |-> \h50000, o8 |-> \h54000, up8 |-> \h58000, gt8 |-> \h60000, dn8 |-> \h64000, logits8 |-> \h68000]
TrKv == \h20000
TrSlot == TrMaxSeq * TrD * 4
TrK(l, pos, n) == F32(TrKv + 2 * l * TrSlot + 4 * pos * TrD, n * TrD)
TrV(l, pos, n) == F32(TrKv + (2 * l + 1) * TrSlot + 4 * pos * TrD, n * TrD)
Rows(off, n) == F32(TrOff[off], n * TrD)

\* The tensors in the order they are written and read.
TrTensors ==
    LET layer(l) ==
            <<[of |-> <<"rms_attn", l>>, n |-> 4 * TrD], [of |-> <<"Wqkv", l>>, n |-> 3 * TrD * TrD],
              [of |-> <<"Wo", l>>, n |-> TrD * TrD], [of |-> <<"rms_ffn", l>>, n |-> 4 * TrD],
              [of |-> <<"ffn_up", l>>, n |-> TrD * TrFfn], [of |-> <<"ffn_gate", l>>, n |-> TrD * TrFfn],
              [of |-> <<"ffn_down", l>>, n |-> TrFfn * TrD]>>
    IN  <<[of |-> <<"embed">>, n |-> 4 * TrVocab * TrD]>>
            \o FlattenSeq([l \in 1..TrLayers |-> layer(l - 1)])
            \o <<[of |-> <<"final_rms">>, n |-> 4 * TrD], [of |-> <<"lm_head">>, n |-> TrVocab * TrD]>>
TrFile(i) == Heap(100 + i, TrTensors[i].n)
TrBuf(of) == LET i == CHOOSE j \in DOMAIN TrTensors : TrTensors[j].of = of IN Heap(130 + i, TrTensors[i].n)
TrWritten == [i \in DOMAIN TrTensors |-> Fresh(TrTensors[i].of, TrFile(i))]
TrLoaded == [i \in DOMAIN TrTensors |-> Read(TrFile(i), TrBuf(TrTensors[i].of), FALSE)]

TrX8(n) == Heap(160, n * TrD)
NextToken == Heap(164, 4)
TrToken(t) == Heap(170 + t, 4)      \* generated[t - 1]
TrPrompt(n) == Heap(162, 4 * n)
TrLogits(n) == Heap(163, 4 * n * TrVocab)

TrMul(left, right, m, k, n, to) == Product(left, right, m, k, n, to, 0, TRUE)
ForTrHeads(Op(_)) == FlattenSeq([h \in 1..TrHeads |-> Op(h - 1)])

-----------------------------------------------------------------------------
(* What a pass should compute: pass t has n rows from position pos.            *)
TrProjected(t, l) == <<"mul", <<"rms", <<"x", t, l>>, <<"rms_attn", l>>>>, <<"Wqkv", l>>>>
TrKey(t, l, pos) == <<"rope", pos, <<"split", 1, TrProjected(t, l)>>>>
TrValue(t, l) == <<"split", 2, TrProjected(t, l)>>

HeadTerm(h, q, keys, values) ==
    <<"mul", <<"softmax", <<"mul", <<"head", h, q>>, <<"transposed", <<"head", h, keys>>>>>>>>, <<"head", h, values>>>>
Swiglu(x, l) ==
    <<"mul", <<"swiglu", <<"mul", x, <<"ffn_gate", l>>>>, <<"mul", x, <<"ffn_up", l>>>>>>, <<"ffn_down", l>>>>

\* The FFN is added to the normalized rows: they are what Residual holds.
TrLayerTerm(t, l, pos) ==
    LET q == <<"rope", pos, <<"split", 0, TrProjected(t, l)>>>>
        heads == [h \in 1..TrHeads |-> HeadTerm(h - 1, q, History("K", t, l), History("V", t, l))]
        attn == <<"mul", <<"interleave", <<"join", heads>>>>, <<"Wo", l>>>>
        mid == <<"rms", <<"add", <<"x", t, l>>, attn>>, <<"rms_ffn", l>>>>
    IN  <<"add", mid, Swiglu(mid, l)>>

\* Queries of more than four rows (HSTRIDE_Q) run into those of the next head.
QueryStride == 128
QueriesApart(n) == n * TrHeadDim <= QueryStride

-----------------------------------------------------------------------------
TrKept(pos, n) == Max({0, Min({n, TrMaxSeq - pos})})
TrMhaQkv(t, l, n, pos) ==
    LET q == Rows("q", n)   k == Rows("k", n)   v == Rows("v", n)
        qkv == I8(TrOff.q8, 3 * n * TrD)
        kept == TrKept(pos, n)
    IN  <<Copy(Rows("x", n), TrX8(n)), TrMul(TrX8(n), TrBuf(<<"Wqkv", l>>), n, TrD, 3 * TrD, qkv),
          Compute(<<"split", 0>>, <<qkv>>, q), Compute(<<"split", 1>>, <<qkv>>, k),
          Compute(<<"split", 2>>, <<qkv>>, v),
          Compute(<<"rope", pos>>, <<q>>, q), Compute(<<"rope", pos>>, <<k>>, k),
          Check(k, TrKey(t, l, pos), <<"K", l, t>>), Check(v, TrValue(t, l), <<"V", l, t>>)>>
            \o (IF kept = 0 THEN <<>>
                ELSE <<Copy(Rows("k", kept), TrK(l, pos, kept)), Copy(Rows("v", kept), TrV(l, pos, kept))>>)

TrMhaAttn(l, n, kv) ==
    LET keyStride == TrMaxSeq * TrHeadDim
        qh(h) == I8(TrOff.q8 + h * QueryStride, n * TrHeadDim)
        kh(h) == I8(TrOff.k8 + h * keyStride, kv * TrHeadDim)
        kt(h) == I8(TrOff.k8 + (TrHeads + h) * keyStride, kv * TrHeadDim)
        vh(h) == I8(TrOff.v8 + h * keyStride, kv * TrHeadDim)
        sh(h) == I8(TrOff.s8 + h * n * kv, n * kv)
        scores(h) == F32(TrOff.scores + 4 * h * n * kv, n * kv)
        ah(h) == I8(TrOff.a8 + h * n * TrHeadDim, n * TrHeadDim)
        attn8 == I8(TrOff.a8, n * TrD)
        Extract(h) ==
            <<Compute(<<"head", h>>, <<Rows("q", n)>>, qh(h)),
              Compute(<<"head", h>>, <<Rows("k", kv)>>, kh(h)),
              Compute(<<"head", h>>, <<Rows("v", kv)>>, vh(h)), Compute(<<"transposed">>, <<kh(h)>>, kt(h))>>
        Score(h) == <<TrMul(qh(h), kt(h), n, TrHeadDim, kv, sh(h))>>
        Soften(h) == <<Copy(sh(h), scores(h)), Compute(<<"softmax">>, <<scores(h)>>, scores(h))>>
        Attend(h) == <<Copy(scores(h), sh(0)), TrMul(sh(0), vh(h), n, kv, TrHeadDim, ah(h))>>
    IN  ForTrHeads(Extract) \o ForTrHeads(Score) \o ForTrHeads(Soften) \o ForTrHeads(Attend)
            \o <<Compute(<<"interleave">>, <<attn8>>, Rows("attn", n)), Copy(Rows("attn", n), attn8),
                 TrMul(attn8, TrBuf(<<"Wo", l>>), n, TrD, TrD, I8(TrOff.o8, n * TrD)),
                 Copy(I8(TrOff.o8, n * TrD), Rows("attn", n))>>

TrFfnStep(l, n) ==
    LET x == Rows("x", n)
        mid == F32(TrOff.ffn, n * TrFfn)
        wide(off) == I8(TrOff[off], n * TrFfn)
    IN  <<Copy(x, TrX8(n)), TrMul(TrX8(n), TrBuf(<<"ffn_up", l>>), n, TrD, TrFfn, wide("up8")),
          TrMul(TrX8(n), TrBuf(<<"ffn_gate", l>>), n, TrD, TrFfn, wide("gt8")),
          Copy(wide("up8"), mid), Compute(<<"swiglu">>, <<wide("gt8"), mid>>, mid), Copy(mid, wide("dn8")),
          TrMul(wide("dn8"), TrBuf(<<"ffn_down", l>>), n, TrFfn, TrD, I8(TrOff.o8, n * TrD)),
          Copy(I8(TrOff.o8, n * TrD), x)>>

TrLayerForward(t, l, n, pos) ==
    LET x == Rows("x", n)   out == Rows("out", n)   kv == pos + n
    IN  <<Copy(x, out), Compute(<<"rms">>, <<x, TrBuf(<<"rms_attn", l>>)>>, x)>>
            \o TrMhaQkv(t, l, n, pos)
            \o (IF kv > n THEN <<Copy(TrK(l, 0, kv), Rows("k", kv)), Copy(TrV(l, 0, kv), Rows("v", kv))>> ELSE <<>>)
            \o TrMhaAttn(l, n, kv)
            \o <<Compute(<<"add">>, <<out, Rows("attn", n)>>, x),
                 Compute(<<"rms">>, <<x, TrBuf(<<"rms_ffn", l>>)>>, x), Copy(x, out)>>
            \o TrFfnStep(l, n)
            \o <<Compute(<<"add">>, <<out, x>>, x), Check(x, TrLayerTerm(t, l, pos), <<"x", t, l + 1>>)>>

\* One pass over the tokens at "from", and the token it chooses.
TrForward(t, n, pos, from, token) ==
    LET x == Rows("x", n)
        logits8 == I8(TrOff.logits8, n * TrVocab)
        logits == <<"mul", <<"rms", <<"x", t, TrLayers>>, <<"final_rms">>>>, <<"lm_head">>>>
    IN  <<Compute(<<"row">>, <<from, TrBuf(<<"embed">>)>>, x), Check(x, <<"row", token, <<"embed">>>>, <<"x", t, 0>>)>>
            \o FlattenSeq([l \in 1..TrLayers |-> TrLayerForward(t, l - 1, n, pos)])
            \o <<Compute(<<"rms">>, <<x, TrBuf(<<"final_rms">>)>>, x), Copy(x, TrX8(n)),
                 TrMul(TrX8(n), TrBuf(<<"lm_head">>), n, TrD, TrVocab, logits8), Copy(logits8, TrLogits(n)),
                 Compute(<<"argmax", n>>, <<TrLogits(n)>>, NextToken),
                 Check(NextToken, <<"argmax", n, logits>>, <<"token", t + 1>>), Copy(NextToken, TrToken(t + 1))>>

\* A prompt of n tokens and max_new more; generation that ends early is a prefix.
TrMain(n, new) ==
    TrWritten \o TrLoaded \o <<TpuInit, Fresh(<<"prompt">>, TrPrompt(n))>>
        \o TrForward(0, n, 0, TrPrompt(n), <<"prompt">>)
        \o FlattenSeq([t \in 1..new |-> TrForward(t, 1, n + t - 1, TrToken(t), <<"token", t>>)])
TrOutputs(n, new) ==
    IF QueriesApart(n) THEN {[at |-> TrToken(t), is |-> <<"token", t>>] : t \in 1..(new + 1)} ELSE {}

-----------------------------------------------------------------------------
(* --ref: the same prompt in floating point on the CPU.  Its weights for Q, K  *)
(* and V are read from files that phase 1 does not write (it writes them as    *)
(* one), so that they are what malloc left in tmp_i8; and it adds the FFN to   *)
(* the rows as they were before the norm.                                      *)
RefMatrix(w, l) == Heap(200 + 10 * l + w, 4 * TrD * TrFfn)
RefNames == <<"Wq", "Wk", "Wv", "Wo", "ffn_up", "ffn_gate", "ffn_down">>
RefGamma(of) == Heap(230 + (IF Len(of) = 1 THEN 0 ELSE 1 + 2 * of[2] + (IF of[1] = "rms_ffn" THEN 1 ELSE 0)), 4 * TrD)
RefEmbed == Heap(240, 4 * TrVocab * TrD)
RefHead == Heap(241, 4 * TrVocab * TrD)
Tmp8(l) == Heap(242 + l, TrD * TrFfn)
RefX(n) == Heap(245, 4 * n * TrD)
RefHeap(i, n) == Heap(250 + i, 4 * n * TrD)
RefLogits(n) == Heap(265, 4 * n * TrVocab)
TrFileOf(of) == TrFile(CHOOSE j \in DOMAIN TrTensors : TrTensors[j].of = of)

RefLayerLoaded(l) ==
    LET Dequantized(w) == <<Read(TrFileOf(<<RefNames[w], l>>), Tmp8(l), FALSE), Copy(Tmp8(l), RefMatrix(w, l))>>
    IN  [g \in 1..2 |-> LET of == <<IF g = 1 THEN "rms_attn" ELSE "rms_ffn", l>>
                        IN  Read(TrFileOf(of), RefGamma(of), FALSE)]
            \o [w \in 1..3 |-> Copy(Tmp8(l), RefMatrix(w, l))]
            \o FlattenSeq([i \in 1..4 |-> Dequantized(i + 3)])

\* What it computes: queries, keys and values are the same product.
RefLayerTerm(l) ==
    LET x == <<"x", "ref", l>>
        p == <<"mul", <<"rms", x, <<"rms_attn", l>>>>, <<"unset", Tmp8(l).lo>>>>
        heads == [h \in 1..TrHeads |->
                     <<"weighted", h - 1, <<"softmax", <<"scores", h - 1, <<"rope", p>>, <<"rope", p>>>>>>, p>>]
        mid == <<"add", x, <<"mul", <<"join", heads>>, <<"Wo", l>>>>>>
    IN  <<"add", mid, Swiglu(<<"rms", mid, <<"rms_ffn", l>>>>, l)>>

CpuMatmul(left, right, to) == Compute(<<"mul">>, <<left, right>>, to)
RefLayer(l, n) ==
    LET x == RefX(n)   residual == RefHeap(1, n)
        q == RefHeap(2, n)   k == RefHeap(3, n)   v == RefHeap(4, n)
        keys == RefHeap(5, n)   values == RefHeap(6, n)
        scores == Heap(257, 4 * n * n)
        head(h) == Area(RefHeap(8, n).lo + 4 * h * n * TrHeadDim, 4 * n * TrHeadDim)
        wide(i) == Heap(260 + i, 4 * n * TrFfn)
        Attend(h) ==
            <<Compute(<<"scores", h>>, <<q, keys>>, scores), Compute(<<"softmax">>, <<scores>>, scores),
              Compute(<<"weighted", h>>, <<scores, values>>, head(h))>>
    IN  <<Copy(x, residual), Compute(<<"rms">>, <<x, RefGamma(<<"rms_attn", l>>)>>, x),
          CpuMatmul(x, RefMatrix(1, l), q), CpuMatmul(x, RefMatrix(2, l), k), CpuMatmul(x, RefMatrix(3, l), v),
          Compute(<<"rope">>, <<q>>, q), Compute(<<"rope">>, <<k>>, k), Copy(k, keys), Copy(v, values)>>
            \o ForTrHeads(Attend)
            \o <<CpuMatmul(RefHeap(8, n), RefMatrix(4, l), RefHeap(9, n)), Compute(<<"add">>, <<residual, RefHeap(9, n)>>, x),
                 Copy(x, residual), Compute(<<"rms">>, <<x, RefGamma(<<"rms_ffn", l>>)>>, x),
                 CpuMatmul(x, RefMatrix(5, l), wide(0)), CpuMatmul(x, RefMatrix(6, l), wide(1)),
                 Compute(<<"swiglu">>, <<wide(1), wide(0)>>, wide(0)), CpuMatmul(wide(0), RefMatrix(7, l), RefHeap(9, n)),
                 Compute(<<"add">>, <<residual, RefHeap(9, n)>>, x), Check(x, RefLayerTerm(l), <<"x", "ref", l + 1>>)>>

RefLoaded ==
    <<Read(TrFileOf(<<"embed">>), RefEmbed, FALSE)>> \o FlattenSeq([l \in 1..TrLayers |-> RefLayerLoaded(l - 1)])
        \o <<Read(TrFileOf(<<"final_rms">>), RefGamma(<<"final_rms">>), FALSE), Read(TrFileOf(<<"lm_head">>), RefHead, FALSE)>>
RefForward(n) ==
    <<Compute(<<"row">>, <<TrPrompt(n), RefEmbed>>, RefX(n)),
      Check(RefX(n), <<"row", <<"prompt">>, <<"embed">>>>, <<"x", "ref", 0>>)>>
        \o FlattenSeq([l \in 1..TrLayers |-> RefLayer(l - 1, n)])
        \o <<Compute(<<"rms">>, <<RefX(n), RefGamma(<<"final_rms">>)>>, RefX(n)), CpuMatmul(RefX(n), RefHead, RefLogits(n))>>
RefMain(n) == TrMain(n, 1) \o RefLoaded \o RefForward(n)
RefOutputs(n) ==
    {[at |-> RefLogits(n), is |-> <<"mul", <<"rms", <<"x", "ref", TrLayers>>, <<"final_rms">>>>, <<"lm_head">>>>]}
=============================================================================
