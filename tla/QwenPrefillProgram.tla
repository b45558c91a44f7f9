------------------------- MODULE QwenPrefillProgram -------------------------
(* qwen_engine_24l.c and lh2_noinline.c as programs for TpuTerms: three        *)
(* prompts, one after the other, each as one batch through the layers, and the *)
(* LM head with its five largest logits, over the whole vocabulary or over the *)
(* clusters stage 1 selects.  There is one heap buffer for the layer files,    *)
(* which the first engine's head takes for the embedding matrix.  What         *)
(* QwenMatmul says of one product of the later engine, this says of all        *)
(* products of these, with their real sizes and their places in the layer file *)
(* as the converter writes it.                                                 *)
EXTENDS MhaPrograms

LOCAL Kal == INSTANCE WeightLayout
QwD == 896
QwFfn == 4864
QwDkv == 128
QwVocab == 151936
QwLayers == 2       \* the code has 24
QwSeq == <<3, 5, 7>>

\* The neuron memory.
QwAct == 0
QwDq == 4096
QwOut(pass) == IF pass = 1 THEN 65536 ELSE 131072

-----------------------------------------------------------------------------
(* Files and buffers.                                                          *)
\* The small files are esc, the final gamma, and the biases of every layer.
QwEmbedFile == Area(Heap(500, 0).lo, QwVocab * QwD)
QwSmallFile(i) == Heap(160 + i, IF i = 0 THEN 4 * QwVocab ELSE IF i = 1 THEN 4 * QwD ELSE 4 * (QwD + 2 * QwDkv))
QwSmall(i) == [QwSmallFile(i) EXCEPT !.lo = @ - 60 * 1048576]
QwSmallName(i) == IF i = 0 THEN <<"esc">> ELSE IF i = 1 THEN <<"frms">> ELSE <<"bias", i - 2>>
QwBias(l, from, n) == Area(QwSmall(l + 2).lo + 4 * from, 4 * n)

QwLayerFile(l) == Heap(640 + 10 * l, 0).lo
QwLayerBuf == Heap(200, 0).lo
\* A section where the converter writes it, and where parse_layer looks for it.
QwWritten(base, name) ==
    Area(base + Kal!OffsetOf(Kal!pack_kaligned, name), Kal!SizeOf(Kal!pack_kaligned, name))
QwPart(name) ==
    Area(QwLayerBuf + Kal!OffsetOf(Kal!parse_layer, name), Kal!SizeOf(Kal!parse_layer, name))

\* The static buffers, in floats and in bytes.
QwF32(i, n) == Heap(130 + i, 4 * n)
QwI8(i, n) == Heap(150 + i, n)
QwX(m) == QwF32(0, m * QwD)
QwNext(p) == Heap(180 + p, 4)

-----------------------------------------------------------------------------
(* eng_matmul: an instruction is a block of 32 rows of a matrix.  Every tile of *)
(* its columns goes through the TPU twice, the second time with the shift that *)
(* the largest result of the first pass asks for, and is added to accd.        *)
Block(left, nib, gsc, m, k, n, g) ==
    [op |-> "block", left |-> left, nib |-> nib, gsc |-> gsc, m |-> m, k |-> k, n |-> n, g |-> g]
QwAccd(m, n) == Heap(190, 8 * m * n)
QwTileWidth(m) == IF m <= 3 THEN 896 ELSE 768
QwTiles(p) == (p.n + QwTileWidth(p.m) - 1) \div QwTileWidth(p.m)
QwColumns(p, t) == Min({QwTileWidth(p.m), p.n - t * QwTileWidth(p.m)})

\* The widths there is a pool for, and those main has built for these rows.
QwPools == {128, 256, 384, 768, 896}
QwBuilt(m) == IF m = 3 THEN {128, 384, 896} ELSE {128, 256, 768}
Picks(p) == \A t \in 0..(QwTiles(p) - 1) : QwColumns(p, t) \in QwPools

\* CVI_RT_MemFlushEx and CVI_RT_MemInvldEx: from the start of the block to len.
FlushedTo(m, len) == {IF c.lo + c.n <= len THEN [c EXCEPT !.seen = @ \cup {"dram"}] ELSE c : c \in m}
InvalidatedTo(m, len) == {IF c.lo + c.n <= len THEN [c EXCEPT !.seen = @ \cup {"cpu"}] ELSE c : c \in m}
Named(name, got) == [term |-> name \o <<got.term>>, taint |-> got.taint]

\* The CPU fills the operands of a tile; the commands run where there is a pool for them.
Filled(m, p, g, t) ==
    LET w == QwColumns(p, t)
        nib == Area(p.nib + 16 * (g * p.n + t * QwTileWidth(p.m)), 16 * w)
    IN  Put(Put(m, Area(QwDq, 32 * w), Named(<<"dequant">>, Get(m, nib, "cpu")), "cpu"), Area(QwAct, 32 * p.m),
            Named(<<"block", g>>, Get(m, p.left, "cpu")), "cpu")
TiuResult(shift, l, r) == [term |-> <<"tiu", shift, l.term, r.term>>, taint |-> l.taint \cup r.taint]
TiuRun(m, rows, w, pass, shift) ==
    IF w \notin QwBuilt(rows) THEN m
    ELSE Put(m, Area(QwOut(pass), rows * w),
             TiuResult(shift, Get(m, Area(QwAct, 32 * rows), "dram"), Get(m, Area(QwDq, 32 * w), "dram")), "dram")
TileDone(m, p, g, t, pass, shift) ==
    LET w == QwColumns(p, t)
    IN  InvalidatedTo(TiuRun(FlushedTo(Filled(m, p, g, t), QwDq + 32 * w), p.m, w, pass, shift), QwOut(2) + p.m * w)

\* One pass over the tiles of a block, with what the CPU reads of each.
WithRead(m, read, at) == [mem |-> m, read |-> Append(read, Get(m, at, "cpu"))]
PassDone(m, p, g, pass, shift) ==
    FoldLeft(LAMBDA s, t :
                 WithRead(TileDone(s.mem, p, g, t, pass, shift), s.read, Area(QwOut(pass), p.m * QwColumns(p, t))),
             [mem |-> m, read |-> <<>>], [t \in 1..QwTiles(p) |-> t - 1])
Terms(read) == [i \in DOMAIN read |-> read[i].term]
Taints(read) == UNION {read[i].taint : i \in DOMAIN read}

QwScale(m, p, g, t) ==
    Get(m, Area(p.gsc + 2 * (g * p.n + t * QwTileWidth(p.m)), 2 * QwColumns(p, t)), "cpu")
Scales(m, p) == [t \in 1..QwTiles(p) |-> QwScale(m, p, p.g, t - 1)]
\* The first pass gives the shift of the second, whose results are scaled and added.
Added(m, p, sum, first, second, scales) ==
    Put(m, QwAccd(p.m, p.n),
        [term |-> <<"sum", sum.term, Terms(second), Terms(scales)>>,
         taint |-> sum.taint \cup Taints(first) \cup Taints(second) \cup Taints(scales)], "cpu")
SecondDone(before, p, first) ==
    LET second(done) ==
            Added(done.mem, p, Get(before, QwAccd(p.m, p.n), "cpu"), first.read, done.read, Scales(before, p))
    IN  second(PassDone(first.mem, p, p.g, 2, <<"max", Terms(first.read)>>))
BlockDone(m, p) ==
    LET wmax == Get(m, Area(p.nib, (p.k \div 32) * p.n * 16), "cpu")
    IN  SecondDone(m, p, PassDone(m, p, p.g, 1, <<"rsafe", wmax.term>>))

-----------------------------------------------------------------------------
(* What the products and layers should be.  Rows of the matrix from block kb.  *)
ProductTerm(x, mat, l, kb, p) ==
    LET at(g, t) == (kb + g) * p.n + t * QwTileWidth(p.m)
        of(kind, size, g, t) == <<"part", size * at(g, t), size * QwColumns(p, t), <<<<mat, kind>>, l>>>>
        whole == IF p.k = Kal!K(mat) THEN <<<<mat, "nib">>, l>>
                 ELSE <<"part", 16 * kb * p.n, (p.k \div 32) * p.n * 16, <<<<mat, "nib">>, l>>>>
        tiu(shift, g, t) == <<"tiu", shift, <<"block", g, x>>, <<"dequant", of("nib", 16, g, t)>>>>
        Tiled(Op(_)) == [t \in 1..QwTiles(p) |-> Op(t - 1)]
        Add(sum, g) ==
            LET max == <<"max", Tiled(LAMBDA t : tiu(<<"rsafe", whole>>, g, t))>>
            IN  <<"sum", sum, Tiled(LAMBDA t : tiu(max, g, t)), Tiled(LAMBDA t : of("gsc", 2, g, t))>>
    IN  <<"rescaled", FoldLeft(Add, <<"zero">>, [g \in 1..(p.k \div 32) |-> g - 1]), <<"scales", x>>>>

QwNormed(x, name, l) == <<"rms", x, <<<<name, "f32">>, l>>>>
QwBiased(p, l, mat, from, n) ==
    LET b == <<"bias", <<mat, p, l>>, <<"part", 4 * from, 4 * n, <<"bias", l>>>>>>
    IN  IF mat = "v" THEN b ELSE <<"rope", b>>
QwAttention(p, l) ==
    <<"attention", QwBiased(p, l, "q", 0, QwD), QwBiased(p, l, "k", QwD, QwDkv), QwBiased(p, l, "v", QwD + QwDkv, QwDkv)>>
QwMid(p, l) == <<"add", <<"x", p, l>>, <<"wo", p, l>>>>
QwGated(p, l) == <<"swiglu", <<"up", p, l>>, <<"gate", p, l>>>>
QwChunks == [c \in 1..((QwFfn + 1023) \div 1024) |-> 1024 * (c - 1)]
QwDown(p, l) == FoldLeft(LAMBDA sum, kc : <<"add", sum, <<"down", p, l, kc>>>>, <<"zero">>, QwChunks)

-----------------------------------------------------------------------------
\* A product of the whole rows in "from" with a matrix.  A row is quantized with a scale of
\* its own.
QwQuantized(from, i8, sc) == <<Copy(from, i8), Compute(<<"scales">>, <<from>>, sc)>>
QwProduct(i8, sc, mat, l, kb, m, k, n, to, x, name) ==
    LET block(g) == Block(i8, QwPart(<<mat, "nib">>).lo + 16 * kb * n, QwPart(<<mat, "gsc">>).lo + 2 * kb * n,
                          m, k, n, g)
    IN  <<Fresh(<<"zero">>, QwAccd(m, n))>> \o [g \in 1..(k \div 32) |-> block(g - 1)]
            \o <<Compute(<<"rescaled">>, <<QwAccd(m, n), sc>>, to), Check(to, ProductTerm(x, mat, l, kb, block(0)), name)>>

QwLayer(p, l, m) ==
    LET x == QwX(m)   h == QwF32(1, m * QwD)   attn == QwF32(5, m * QwD)
        q == QwF32(2, m * QwD)   k == QwF32(3, m * QwDkv)   v == QwF32(4, m * QwDkv)
        up == QwF32(8, m * QwFfn)   gate == QwF32(9, m * QwFfn)   mid == QwF32(10, m * QwFfn)
        oout == QwF32(11, m * QwD)   sub == QwF32(12, m * QwD)
        xi == QwI8(0, m * QwD)   ai == QwI8(1, m * QwD)
        scr == QwF32(6, m)   sca == QwF32(7, m)
        normed == QwNormed(<<"x", p, l>>, "rms_attn", l)
        normed2 == QwNormed(QwMid(p, l), "rms_ffn", l)
        Mul(mat, i8, sc, n, to, of) == QwProduct(i8, sc, mat, l, 0, m, QwD, n, to, of, <<mat, p, l>>)
        Biased(at, from, n) == <<Compute(<<"bias">>, <<at, QwBias(l, from, n)>>, at)>>
        Turned(at) == <<Compute(<<"rope">>, <<at>>, at)>>
        Chunk(kc) ==
            LET kcn == Min({1024, QwFfn - kc})
                mch == QwF32(13, m * kcn)   mi8 == QwI8(2, m * kcn)   msc == QwF32(14, m)
            IN  <<Compute(<<"columns", kc>>, <<mid>>, mch)>> \o QwQuantized(mch, mi8, msc)
                    \o QwProduct(mi8, msc, "down", l, kc \div 32, m, kcn, QwD, sub,
                                 <<"columns", kc, QwGated(p, l)>>, <<"down", p, l, kc>>)
                    \o <<Compute(<<"add">>, <<oout, sub>>, oout)>>
    IN  [i \in DOMAIN Kal!pack_kaligned |->
            LET s == Kal!pack_kaligned[i].name
            IN  Read(QwWritten(QwLayerFile(l), s), QwWritten(QwLayerBuf, s), TRUE)]
            \o <<Compute(<<"rms">>, <<x, QwPart(<<"rms_attn", "f32">>)>>, h)>> \o QwQuantized(h, xi, scr)
            \o Mul("q", xi, scr, QwD, q, normed) \o Mul("k", xi, scr, QwDkv, k, normed)
            \o Mul("v", xi, scr, QwDkv, v, normed)
            \o Biased(q, 0, QwD) \o Biased(k, QwD, QwDkv) \o Biased(v, QwD + QwDkv, QwDkv) \o Turned(q) \o Turned(k)
            \o <<Compute(<<"attention">>, <<q, k, v>>, attn)>> \o QwQuantized(attn, ai, sca)
            \o Mul("wo", ai, sca, QwD, oout, QwAttention(p, l)) \o <<Compute(<<"add">>, <<x, oout>>, x)>>
            \o <<Compute(<<"rms">>, <<x, QwPart(<<"rms_ffn", "f32">>)>>, h)>> \o QwQuantized(h, xi, scr)
            \o Mul("up", xi, scr, QwFfn, up, normed2) \o Mul("gate", xi, scr, QwFfn, gate, normed2)
            \o <<Compute(<<"swiglu">>, <<up, gate>>, mid), Fresh(<<"zero">>, oout)>>
            \o FlattenSeq([c \in DOMAIN QwChunks |-> Chunk(QwChunks[c])])
            \o <<Compute(<<"add">>, <<x, oout>>, x),
                 Check(x, <<"add", QwMid(p, l), QwDown(p, l)>>, <<"x", p, l + 1>>)>>

\* The head goes through the embedding matrix by 8192 rows and keeps the five largest.
QwHead(p, m) ==
    LET h == QwF32(1, QwD)
        top == QwF32(15, 5)
        last == <<"rms", <<"part", 4 * (m - 1) * QwD, 4 * QwD, <<"x", p, QwLayers>>>>, <<"frms">>>>
        Chunk(c) ==
            LET n == Min({8192, QwVocab - c * 8192}) * QwD
                rows == Area(QwLayerBuf, n)
            IN  <<Read(Area(QwEmbedFile.lo + c * 8192 * QwD, n), rows, TRUE),
                  Compute(<<"top5", c>>, <<top, h, rows, QwSmall(0)>>, top),
                  Check(top, <<"top5", c, <<"top", p, c>>, last, <<"part", c * 8192 * QwD, n, <<"embed">>>>, <<"esc">>>>,
                        <<"top", p, c + 1>>)>>
    IN  <<Compute(<<"rms">>, <<Area(QwX(m).lo + 4 * (m - 1) * QwD, 4 * QwD), QwSmall(1)>>, h), Fresh(<<"top", p, 0>>, top)>>
            \o FlattenSeq([c \in 1..((QwVocab + 8191) \div 8192) |-> Chunk(c - 1)])
            \o <<Copy(top, QwNext(p))>>

-----------------------------------------------------------------------------
(* The head of lh2_noinline: the spans of the clusters chosen by stage 1 are   *)
(* read in ascending order, each into the one buffer.                          *)
QwSpans == 3        \* the code chooses 128 clusters
QwClusterNames == <<"cent", "clidx", "esccl", "tokcl">>
QwClusterFile(i) == Heap(240 + 4 * i, IF i = 0 THEN 2 * 1024 * QwD ELSE IF i = 1 THEN 8 * 1024 ELSE 4 * QwVocab)
QwCluster(i) == [QwClusterFile(i) EXCEPT !.lo = @ + 20 * 1048576]
QwSpanFile(s) == Heap(290 + s, 149 * QwD)
QwSbuf == Heap(289, 149 * QwD)

QwClusterHead(p, m) ==
    LET h == QwF32(1, QwD)
        sel == Heap(185, 4 * 128)
        top == QwF32(15, 5)
        last == <<"rms", <<"part", 4 * (m - 1) * QwD, 4 * QwD, <<"x", p, QwLayers>>>>, <<"frms">>>>
        chosen == <<"clusters", last, <<"cent">>>>
        Span(s) ==
            <<Read(QwSpanFile(s), QwSbuf, TRUE),
              Compute(<<"top5", s>>, <<top, h, sel, QwSbuf, QwCluster(1), QwCluster(2), QwCluster(3)>>, top),
              Check(top, <<"top5", s, <<"top", p, s - 1>>, last, chosen, <<"span", s>>, <<"clidx">>, <<"esccl">>, <<"tokcl">>>>,
                    <<"top", p, s>>)>>
    IN  <<Compute(<<"rms">>, <<Area(QwX(m).lo + 4 * (m - 1) * QwD, 4 * QwD), QwSmall(1)>>, h),
          Compute(<<"clusters">>, <<h, QwCluster(0)>>, sel), Fresh(<<"top", p, 0>>, top)>>
            \o FlattenSeq([s \in 1..QwSpans |-> Span(s)]) \o <<Copy(top, QwNext(p))>>

-----------------------------------------------------------------------------
QwRunPrompt(p, m, head) ==
    LET er == Area(Heap(310, 0).lo, QwVocab * QwD)
    IN  <<Read(QwEmbedFile, er, TRUE), Compute(<<"rows", p>>, <<er, QwSmall(0)>>, QwX(m)),
          Check(QwX(m), <<"rows", p, <<"embed">>, <<"esc">>>>, <<"x", p, 0>>)>>
            \o FlattenSeq([l \in 1..QwLayers |-> QwLayer(p, l - 1, m)]) \o head

QwFiles ==
    <<Fresh(<<"embed">>, QwEmbedFile)>>
        \o [i \in 1..(QwLayers + 2) |-> Fresh(QwSmallName(i - 1), QwSmallFile(i - 1))]
        \o FlattenSeq([l \in 1..QwLayers |->
               [i \in DOMAIN Kal!pack_kaligned |->
                   LET s == Kal!pack_kaligned[i].name IN Fresh(<<s, l - 1>>, QwWritten(QwLayerFile(l - 1), s))]])
QwStart == QwFiles \o [i \in 1..(QwLayers + 2) |-> Read(QwSmallFile(i - 1), QwSmall(i - 1), TRUE)]
QwMain == QwStart \o FlattenSeq([p \in DOMAIN QwSeq |-> QwRunPrompt(p, QwSeq[p], QwHead(p, QwSeq[p]))])
QwOutputs ==
    {[at |-> QwNext(p), is |-> <<"top", p, (QwVocab + 8191) \div 8192>>] : p \in DOMAIN QwSeq}

\* The same with lmhead2_load; two of the three prompts are enough to use everything again.
QwClusterPrompts == 2
QwClusterRun(p, m) == QwRunPrompt(p, m, QwClusterHead(p, m))
QwClusterMain ==
    [s \in 1..QwSpans |-> Fresh(<<"span", s>>, QwSpanFile(s))]
        \o [i \in 1..4 |-> Fresh(<<QwClusterNames[i]>>, QwClusterFile(i - 1))] \o QwStart
        \o [i \in 1..4 |-> Read(QwClusterFile(i - 1), QwCluster(i - 1), TRUE)]
        \o FlattenSeq([p \in 1..QwClusterPrompts |-> QwClusterRun(p, QwSeq[p])])
QwClusterOutputs == {[at |-> QwNext(p), is |-> <<"top", p, QwSpans>>] : p \in 1..QwClusterPrompts}
=============================================================================
