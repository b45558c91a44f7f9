---------------------------- MODULE WeightLayout ----------------------------
(* Where the weights are in the layer files, as each program that writes or    *)
(* reads one has it: the converters, the engines' pointers, the caches of the  *)
(* scales, the table of the prefetcher.  A file is a sequence of sections.     *)
EXTENDS Integers, Sequences, SequencesExt

Section(name, n) == [name |-> name, n |-> n]
Bytes(file) == FoldLeft(LAMBDA sum, s : sum + s.n, 0, file)
Named(file) == {file[i].name : i \in DOMAIN file}
Index(file, name) == CHOOSE i \in DOMAIN file : file[i].name = name
OffsetOf(file, name) == Bytes(SubSeq(file, 1, Index(file, name) - 1))
SizeOf(file, name) == file[Index(file, name)].n
Each(names, F(_)) == [i \in DOMAIN names |-> F(names[i])]

-----------------------------------------------------------------------------
(* Qwen: INT4 in blocks of 32 rows, with a half-precision scale per block and column *)
D == 896
F == 4864
DKV == 128
G == 32
L == 24
MATS == <<"q", "k", "v", "wo", "up", "gate", "down">>
K(mat) == IF mat = "down" THEN F ELSE D
N(mat) == CASE mat \in {"k", "v"} -> DKV [] mat \in {"up", "gate"} -> F [] OTHER -> D
KG(mat) == K(mat) \div G

Nib(mat) == Section(<<mat, "nib">>, KG(mat) * N(mat) * 16)
Gsc(mat) == Section(<<mat, "gsc">>, KG(mat) * N(mat) * 2)
Matrix(mat) == <<Nib(mat), Gsc(mat)>>

\* The file the converter writes, and the walk of the engine's pointers through it.
pack_kaligned == <<Section(<<"rms_attn", "f32">>, 4 * D)>> \o FlattenSeq(Each(MATS, Matrix)) \o <<Section(<<"rms_ffn", "f32">>, 4 * D)>>
\* What the head of convert_qwen_kal.py says that file is.
layerN_kal ==
    LET Matrices(i, j) == FlattenSeq(Each(SubSeq(MATS, i, j), Matrix))
    IN  <<Section(<<"rms_attn", "f32">>, 4 * D)>> \o Matrices(1, 4) \o <<Section(<<"rms_ffn", "f32">>, 4 * D)>> \o Matrices(5, 7)
parse_layer ==
    LET Pair(mat, kg, n) == <<Section(<<mat, "nib">>, kg * n * 16), Section(<<mat, "gsc">>, kg * n * 2)>>
        g == D \div G
    IN  <<Section(<<"rms_attn", "f32">>, D * 4)>>
          \o Pair("q", g, D) \o Pair("k", g, DKV) \o Pair("v", g, DKV) \o Pair("wo", g, D)
          \o Pair("up", g, F) \o Pair("gate", g, F) \o Pair("down", F \div G, D)
          \o <<Section(<<"rms_ffn", "f32">>, D * 4)>>

\* GSC_*_OFF: each from the end of the scales before it and the nibbles in between.
GscSize(mat) == (K(mat) \div G) * N(mat) * 2
GscOffset[i \in 1..7] ==
    LET nibbles == (K(MATS[i]) \div G) * N(MATS[i]) * 16
    IN  nibbles + (IF i = 1 THEN D * 4 ELSE GscOffset[i - 1] + GscSize(MATS[i - 1]))
\* One layer of the cache: gsc_layer_load packs the seven regions one after the other,
\* and gsc_ion_apply points at the partial sums of their sizes.
gsc_layer_load == Each(MATS, LAMBDA mat : Section(mat, GscSize(mat)))
gsc_ion_apply == Each(MATS, LAMBDA mat : FoldLeft(LAMBDA sum, m : sum + GscSize(m), 0,
                                                 SubSeq(MATS, 1, Index(gsc_layer_load, mat) - 1)))

\* The table of the prefetcher and of the readahead.
g_mat_off == <<3584, 455168, 519680, 584192, 1035776, 3487232, 5938688>>
g_mat_len == <<401408, 57344, 57344, 401408, 2179072, 2179072, 2179072>>
SD_BUF_SZ == 2179072
\* rms_cache_load reads the two vectors from the ends of the file.
RmsOffsets(lsz) == [rms_attn |-> 0, rms_ffn |-> lsz - D * 4]

\* A nibble byte of block g, column n, rows 2j and 2j + 1: as packed, and transposed.
Packed(mat, g, n, j) == (g * N(mat) + n) * 16 + j
RelayoutBug(mat, g, n, j) == (g * 16 + j) * 16 + n
Relayout(mat, g, n, j) == (g * 16 + j) * N(mat) + n
\* Readers: the reference engine the one, the vector kernel the other, in tiles from
\* column off, block by block; the chunks of down start at block kc / 32.
unpack_mat(mat, g, n, j) == ((g * N(mat) + n) * (G \div 2)) + j
dequant(mat, g, off, n, j) == g * 16 * N(mat) + j * N(mat) + off + n
DownChunk(kc, g, off, n, j) == (kc \div G) * D * 16 + dequant("down", g, off, n, j)
DownScale(kc, g, n) == (kc \div G) * D + g * D + n
\* The row of rsafe.bin: one byte per matrix, five for the chunks of down.
RsafeRow == <<"q", "k", "v", "wo", "up", "gate", "d0", "d1", "d2", "d3", "d4">>
rsh_lookup(mi, dc) == IF mi < 6 THEN mi ELSE 6 + dc

-----------------------------------------------------------------------------
(* SmolLM2: INT8 with a scale per output column *)
d_model == 576
dkv == 192
ffn == 1536
F32(name) == Section(name, 4 * d_model)
I8(name, n) == Section(name, n)

write_layer_bin ==
    <<F32("rms_attn"), I8("Wq", d_model * d_model), I8("Wk", d_model * dkv), I8("Wv", d_model * dkv),
      I8("Wo", d_model * d_model), F32("rms_ffn"), I8("ffn_up", d_model * ffn), I8("ffn_gate", d_model * ffn),
      I8("ffn_down", ffn * d_model)>>
\* merge_layers concatenates whole files in this order.
file_names == <<"rms_attn", "Wq", "Wk", "Wv", "Wo", "rms_ffn", "ffn_up", "ffn_gate", "ffn_down">>
sm_setup_ptrs ==
    LET s == <<d_model * 4, d_model * d_model, d_model * dkv, d_model * dkv, d_model * d_model,
               d_model * 4, d_model * ffn, d_model * ffn, ffn * d_model>>
    IN  [i \in 1..9 |-> Section(file_names[i], s[i])]
\* convert_i4 reads the sections one after the other, and names them by its own order.
mat_rows == <<d_model, d_model, d_model, d_model, d_model, d_model, ffn>>
mat_cols == <<d_model, dkv, dkv, d_model, ffn, ffn, d_model>>
convert_i4 ==
    LET mats == <<"Wq", "Wk", "Wv", "Wo", "ffn_up", "ffn_gate", "ffn_down">>
        Mat(i) == I8(mats[i], mat_rows[i] * mat_cols[i])
    IN  <<F32("rms_attn")>> \o [i \in 1..4 |-> Mat(i)] \o <<F32("rms_ffn")>> \o [i \in 1..3 |-> Mat(i + 4)]
I4Bytes(n, g) == n \div 2 + (n \div g) * 2
Packs(i, ffn_only) == i > 4 \/ ~ffn_only
I4Total(g, ffn_only) ==
    LET Size(i) == IF Packs(i, ffn_only) THEN I4Bytes(mat_rows[i] * mat_cols[i], g) ELSE mat_rows[i] * mat_cols[i]
    IN  2 * 4 * d_model + FoldLeft(LAMBDA sum, i : sum + Size(i), 0, <<1, 2, 3, 4, 5, 6, 7>>)
\* The scales of a layer, and where sm_layer_forward looks for them.
l_scales == <<Section("wq", d_model), Section("wk", dkv), Section("wv", dkv), Section("wo", d_model),
              Section("up", ffn), Section("gate", ffn), Section("down", d_model)>>
ls == [wq |-> 0, wk |-> d_model, wv |-> d_model + dkv, wo |-> d_model + 2 * dkv,
       up |-> d_model * 2 + 2 * dkv, gate |-> d_model * 2 + 2 * dkv + ffn,
       down |-> d_model * 2 + 2 * dkv + ffn + ffn]
ls_pl == d_model + dkv + dkv + d_model + ffn + ffn + d_model

-----------------------------------------------------------------------------
Same(file, other) == Named(file) = Named(other)
    /\ \A name \in Named(file) : OffsetOf(file, name) = OffsetOf(other, name) /\ SizeOf(file, name) = SizeOf(other, name)
Probes(n) == {0, 1, n \div 2, n - 1}

\* Every program finds each section, each scale and each nibble where the converters put
\* it: the pointers of both engines, the cache of the scales (from which region to which),
\* the prefetcher's table (whose longest entry fits a slot and whose offsets suit
\* O_DIRECT), the rms vectors, the tiles of the vector kernel after the transposition,
\* the chunks of down, the rows of rsafe.bin, and the INT4 packer of SmolLM2.
LayoutAgrees ==
    /\ Same(parse_layer, pack_kaligned)
    /\ \A i \in 1..7 :
          /\ GscOffset[i] = OffsetOf(pack_kaligned, <<MATS[i], "gsc">>)
          /\ GscSize(MATS[i]) = SizeOf(pack_kaligned, <<MATS[i], "gsc">>)
          /\ gsc_ion_apply[i] = OffsetOf(gsc_layer_load, MATS[i])
          /\ g_mat_off[i] = OffsetOf(pack_kaligned, <<MATS[i], "nib">>) /\ g_mat_off[i] % 512 = 0
          /\ g_mat_len[i] = SizeOf(pack_kaligned, <<MATS[i], "nib">>) /\ g_mat_len[i] % 512 = 0
          /\ g_mat_len[i] <= SD_BUF_SZ
    /\ \A rms \in {"rms_attn", "rms_ffn"} : RmsOffsets(Bytes(pack_kaligned))[rms] = OffsetOf(pack_kaligned, <<rms, "f32">>)
    /\ \A i \in 1..7 : \A g \in Probes(KG(MATS[i])), off \in {0, 608}, n \in {0, 1, 127}, j \in 0..15 :
          off + n < N(MATS[i]) =>
             /\ unpack_mat(MATS[i], g, off + n, j) = Packed(MATS[i], g, off + n, j)
             /\ dequant(MATS[i], g, off, n, j) = Relayout(MATS[i], g, off + n, j)
    /\ \A c \in 0..4, g \in 0..23, n \in Probes(D), j \in 0..15 :
          LET block == (1024 * c) \div G + g
          IN  /\ DownChunk(1024 * c, g, 0, n, j) = Relayout("down", block, n, j)
              /\ DownScale(1024 * c, g, n) = block * D + n
    /\ \A mi \in 0..6, c \in 0..4 :
          RsafeRow[rsh_lookup(mi, c) + 1] = (IF mi = 6 THEN <<"d0", "d1", "d2", "d3", "d4">>[c + 1] ELSE MATS[mi + 1])
    /\ Same(sm_setup_ptrs, write_layer_bin) /\ Same(convert_i4, write_layer_bin)
    /\ [i \in 1..9 |-> write_layer_bin[i].name] = file_names
    /\ \A name \in DOMAIN ls : ls[name] = OffsetOf(l_scales, name)
    /\ ls_pl = Bytes(l_scales)
    /\ I4Total(64, FALSE) = 1884672 /\ I4Total(64, TRUE) = 2299392

\* The documented file is not the written one: it has rms_ffn after Wo, and not at the
\* end, so that whoever reads by it looks for up, gate and down one vector too late.
HeaderMisplaces ==
    \A i \in 1..7, part \in {"nib", "gsc"} :
        OffsetOf(layerN_kal, <<MATS[i], part>>) = OffsetOf(pack_kaligned, <<MATS[i], part>>) + (IF i > 4 THEN 4 * D ELSE 0)
=============================================================================
