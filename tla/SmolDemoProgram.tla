-------------------------- MODULE SmolDemoProgram --------------------------
(* smollm2_demo.c as a program for TpuTerms: the prompt and the generated      *)
(* tokens go one by one through all layers.  The first layers are read once    *)
(* into a cache in an ION block of its own, the others before every use into   *)
(* one heap buffer.  What TpuBatch says of one layer, this says of the whole   *)
(* engine: the right layer's weights, the KV rows of all tokens so far, the    *)
(* embedding matrix as LM head.                                                *)
EXTENDS MhaPrograms

\* config.bin: the sizes of SmolLM2-135M, with less layers and a smaller vocabulary.
SmKvh == 3
SmGroups == 3
SmHeadDim == 64
SmDkv == SmKvh * SmHeadDim
SmD == SmGroups * SmDkv
SmFfn == 1536
SmLayers == 8
SmVocab == 2304

SmOff ==
    [q |-> \h40000, k |-> \h50000, kt |-> \h54000, v |-> \h58000, s |-> \h5C000, a |-> \h60000,
     o |-> \h70000, up |-> \h80000, gate |-> \h90000]
BatchScratch == \h10000     \* between the scratch areas of products submitted together
GroupScratch == \h4000

\* A layer file, and where a matrix is in it.
SmTensors == <<"rms_attn", "Wq", "Wk", "Wv", "Wo", "rms_ffn", "ffn_up", "ffn_gate", "ffn_down">>
SmSizes ==
    <<4 * SmD, SmD * SmD, SmD * SmDkv, SmD * SmDkv, SmD * SmD, 4 * SmD, SmD * SmFfn, SmD * SmFfn, SmFfn * SmD>>
SmLayerBytes == FoldLeft(+, 0, SmSizes)
SmPart(base, name) ==
    LET i == CHOOSE j \in DOMAIN SmTensors : SmTensors[j] = name
    IN  Area(base + FoldLeft(+, 0, SubSeq(SmSizes, 1, i - 1)), SmSizes[i])
SmWeight(l, name) == LET at == SmPart(0, name) IN <<"part", at.lo, at.n, <<"layer", l>>>>

WCacheSize == 25165824
WCacheLayers == WCacheSize \div SmLayerBytes
SmLayerFile(l) == Area(Heap(400, 0).lo + l * SmLayerBytes, SmLayerBytes)
SmCached(l) == Area(Heap(300, 0).lo + l * SmLayerBytes, SmLayerBytes)
SmBufA == Area(Heap(340, 0).lo, SmLayerBytes)

SmEmbedFile == Area(Heap(450, 0).lo, SmVocab * SmD)
SmFinalFile == Heap(460, 4 * SmD)
SmTokenFile(P) == Heap(461, 4 * P)
SmPrompt(P) == Heap(462, 4 * P)
SmTok(t) == Heap(470 + t, 4)        \* generated[t]
SmNext == Heap(463, 4)
SmF32(i, n) == Heap(100 + i, 4 * n)
SmI8(i, n) == Heap(120 + i, n)
SmX == SmF32(0, SmD)
SmK(l, pos, n) == Area(Heap(140 + l, 0).lo + 4 * pos * SmDkv, 4 * n * SmDkv)
SmV(l, pos, n) == Area(Heap(160 + l, 0).lo + 4 * pos * SmDkv, 4 * n * SmDkv)
ForGroups(Op(_)) == FlattenSeq([g \in 1..SmKvh |-> Op(g - 1)])

SmMul(left, right, m, k, n, to) == Product(left, right, m, k, n, to, 0, TRUE)
SmBuild(left, right, m, k, n, to, scratch) == Built(Product(left, right, m, k, n, to, scratch, TRUE))
SubmitBuilt == <<WaitAsync, Invalidate>>

-----------------------------------------------------------------------------
(* What the layers should compute of token t.                                  *)
SmNormed(t, l) == <<"rms", <<"x", t, l>>, SmWeight(l, "rms_attn")>>
SmKey(t, l) == <<"rope", t, <<"mul", SmNormed(t, l), SmWeight(l, "Wk")>>>>
SmValue(t, l) == <<"mul", SmNormed(t, l), SmWeight(l, "Wv")>>
SmLayerTerm(t, l) ==
    LET q == <<"rope", t, <<"mul", SmNormed(t, l), SmWeight(l, "Wq")>>>>
        score(g) ==
            <<"mul", <<"group", g, q>>, <<"transposed", <<"kv head", g, History("K", t, l)>>>>>>
        out(g) == <<"mul", <<"softmax", score(g)>>, <<"kv head", g, History("V", t, l)>>>>
        attn == <<"ungroup", <<"join", [g \in 1..SmKvh |-> out(g - 1)]>>>>
        mid == <<"add", <<"x", t, l>>, <<"mul", attn, SmWeight(l, "Wo")>>>>
        h == <<"rms", mid, SmWeight(l, "rms_ffn")>>
        ffn == <<"swiglu", <<"mul", h, SmWeight(l, "ffn_up")>>, <<"mul", h, SmWeight(l, "ffn_gate")>>>>
    IN  <<"add", mid, <<"mul", ffn, SmWeight(l, "ffn_down")>>>>

-----------------------------------------------------------------------------
(* sm_layer_forward for one row, with the layer's weights at "w".              *)
SmQkv(t, l, w) ==
    LET x8 == SmI8(0, SmD)
        q == SmF32(2, SmD)   k == SmF32(3, SmDkv)   v == SmF32(4, SmDkv)
        q8 == I8(SmOff.q, SmD)   k8 == I8(SmOff.k, SmDkv)   v8 == I8(SmOff.v, SmDkv)
    IN  <<Compute(<<"rms">>, <<SmX, SmPart(w, "rms_attn")>>, SmF32(1, SmD)), Copy(SmF32(1, SmD), x8),
          SmBuild(x8, SmPart(w, "Wq"), 1, SmD, SmD, q8, 0),
          SmBuild(x8, SmPart(w, "Wk"), 1, SmD, SmDkv, k8, BatchScratch),
          SmBuild(x8, SmPart(w, "Wv"), 1, SmD, SmDkv, v8, 2 * BatchScratch)>>
            \o SubmitBuilt
            \o <<Copy(q8, q), Copy(k8, k), Copy(v8, v),
                 Compute(<<"rope", t>>, <<q>>, q), Compute(<<"rope", t>>, <<k>>, k),
                 Check(k, SmKey(t, l), <<"K", l, t>>), Check(v, SmValue(t, l), <<"V", l, t>>),
                 Copy(k, SmK(l, t, 1)), Copy(v, SmV(l, t, 1)),
                 Copy(SmK(l, 0, t + 1), SmF32(5, (t + 1) * SmDkv)), Copy(SmV(l, 0, t + 1), SmF32(6, (t + 1) * SmDkv))>>

SmAttend(kv) ==
    LET m == SmGroups
        n == kv * SmHeadDim
        qg(g) == I8(SmOff.q + g * m * SmHeadDim, m * SmHeadDim)
        kt(g) == I8(SmOff.kt + g * n, n)
        sg(g) == I8(SmOff.s + g * m * kv, m * kv)
        vg(g) == I8(SmOff.v + g * n, n)
        ag(g) == I8(SmOff.a + g * m * SmHeadDim, m * SmHeadDim)
        k8 == SmI8(1, n)
        Grouped(g) ==
            <<Compute(<<"group", g>>, <<SmF32(2, SmD)>>, qg(g)),
              Compute(<<"kv head", g>>, <<SmF32(5, kv * SmDkv)>>, k8), Compute(<<"transposed">>, <<k8>>, kt(g))>>
        Score(g) == <<SmBuild(qg(g), kt(g), m, SmHeadDim, kv, sg(g), g * GroupScratch)>>
        Soften(g) ==
            <<Copy(sg(g), SmF32(7, m * kv)), Compute(<<"softmax">>, <<SmF32(7, m * kv)>>, SmF32(7, m * kv)),
              Copy(SmF32(7, m * kv), sg(g)), Compute(<<"kv head", g>>, <<SmF32(6, kv * SmDkv)>>, vg(g))>>
        Weigh(g) == <<SmBuild(sg(g), vg(g), m, kv, SmHeadDim, ag(g), g * GroupScratch)>>
    IN  ForGroups(Grouped) \o ForGroups(Score) \o SubmitBuilt \o ForGroups(Soften)
            \o ForGroups(Weigh) \o SubmitBuilt
            \o <<Compute(<<"ungroup">>, <<I8(SmOff.a, SmD)>>, SmF32(8, SmD))>>

SmProjectFfn(t, l, w) ==
    LET o8 == I8(SmOff.o, SmD)   x8 == SmI8(0, SmD)   y8 == SmI8(2, SmD)
        up == SmF32(9, SmFfn)   gate == SmF32(10, SmFfn)
        up8 == I8(SmOff.up, SmFfn)   gate8 == I8(SmOff.gate, SmFfn)
        Added == <<Copy(y8, SmF32(11, SmD)), Compute(<<"add">>, <<SmX, SmF32(11, SmD)>>, SmX)>>
    IN  <<Copy(SmF32(8, SmD), o8), SmMul(o8, SmPart(w, "Wo"), 1, SmD, SmD, y8)>> \o Added
            \o <<Compute(<<"rms">>, <<SmX, SmPart(w, "rms_ffn")>>, SmF32(1, SmD)), Copy(SmF32(1, SmD), x8),
                 SmBuild(x8, SmPart(w, "ffn_up"), 1, SmD, SmFfn, up8, 0),
                 SmBuild(x8, SmPart(w, "ffn_gate"), 1, SmD, SmFfn, gate8, BatchScratch)>>
            \o SubmitBuilt
            \o <<Copy(up8, up), Copy(gate8, gate), Compute(<<"swiglu">>, <<up, gate>>, up), Copy(up, up8),
                 SmMul(up8, SmPart(w, "ffn_down"), 1, SmFfn, SmD, y8)>>
            \o Added \o <<Check(SmX, SmLayerTerm(t, l), <<"x", t, l + 1>>)>>

-----------------------------------------------------------------------------
(* sm_forward: the embedding row from the SD card, the layers, the LM head in  *)
(* chunks of the embedding matrix read one after the other.                    *)
SmChunk == 1024
SmLmHead ==
    LET raw == SmI8(10, SmChunk * SmD)
        x8 == SmI8(11, SmD)
        logits8(n) == I8(SmOff.s, n)
        Chunk(v) ==
            LET n == Min({SmChunk, SmVocab - v})
                chunk == Area(raw.lo, n * SmD)
                turned == SmI8(12, n * SmD)
            IN  <<Read(Area(SmEmbedFile.lo + v * SmD, n * SmD), chunk, TRUE), Compute(<<"transposed">>, <<chunk>>, turned),
                  SmMul(x8, turned, 1, SmD, n, logits8(n)), Copy(logits8(n), Area(SmF32(12, 0).lo + 4 * v, 4 * n))>>
    IN  FlattenSeq([c \in 1..((SmVocab + SmChunk - 1) \div SmChunk) |-> Chunk((c - 1) * SmChunk)])
SmLogitsTerm(t) ==
    LET chunk(v) ==
            <<"mul", <<"rms", <<"x", t, SmLayers>>, <<"final_rms">>>>,
              <<"transposed", <<"part", v * SmD, Min({SmChunk, SmVocab - v}) * SmD, <<"embed">>>>>>>>
    IN  <<"join", [c \in 1..((SmVocab + SmChunk - 1) \div SmChunk) |-> chunk((c - 1) * SmChunk)]>>

\* The first "cached" layers are in the cache.
SmForward(t, from, token, cached) ==
    LET Layer(l) ==
            LET w == IF l < cached THEN SmCached(l) ELSE SmBufA
            IN  (IF l < cached THEN <<>> ELSE <<Read(SmLayerFile(l), SmBufA, TRUE)>>)
                    \o SmQkv(t, l, w.lo) \o SmAttend(t + 1) \o SmProjectFfn(t, l, w.lo)
    IN  <<Read(SmEmbedFile, SmI8(13, SmVocab * SmD), TRUE), Compute(<<"row">>, <<from, SmI8(13, SmVocab * SmD)>>, SmX),
          Check(SmX, <<"row", token, <<"embed">>>>, <<"x", t, 0>>)>>
            \o FlattenSeq([l \in 1..SmLayers |-> Layer(l - 1)])
            \o <<Read(SmFinalFile, SmF32(13, SmD), FALSE), Compute(<<"rms">>, <<SmX, SmF32(13, SmD)>>, SmF32(1, SmD)),
                 Copy(SmF32(1, SmD), SmI8(11, SmD))>>
            \o SmLmHead
            \o <<Compute(<<"argmax">>, <<SmF32(12, SmVocab)>>, SmNext),
                 Check(SmNext, <<"argmax", SmLogitsTerm(t)>>, <<"token", t + 1>>)>>

\* Where a layer cannot be read into the cache, or there is no memory for it, the program
\* goes on without.
Preload(l) == [op |-> "preload", from |-> SmLayerFile(l), to |-> SmCached(l)]
SmFiles(P) ==
    [l \in 1..SmLayers |-> Fresh(<<"layer", l - 1>>, SmLayerFile(l - 1))]
        \o <<Fresh(<<"embed">>, SmEmbedFile), Fresh(<<"final_rms">>, SmFinalFile), Fresh(<<"prompt">>, SmTokenFile(P))>>
SmMain(P, new, cached) ==
    LET Prompt(p) == Area(SmPrompt(P).lo + 4 * p, 4)
    IN  SmFiles(P) \o <<Read(SmTokenFile(P), SmPrompt(P), TRUE), TpuInit>>
            \o [l \in 1..cached |-> Preload(l - 1)]
            \o FlattenSeq([p \in 1..P |-> SmForward(p - 1, Prompt(p - 1), <<"part", 4 * (p - 1), 4, <<"prompt">>>>, cached)])
            \o <<Copy(SmNext, SmTok(0))>>
            \o FlattenSeq([i \in 1..new |->
                   SmForward(P + i - 1, SmTok(i - 1), <<"token", P + i - 1>>, cached) \o <<Copy(SmNext, SmTok(i))>>])
SmOutputs(P, new) == {[at |-> SmTok(i), is |-> <<"token", P + i>>] : i \in 0..new}
=============================================================================
