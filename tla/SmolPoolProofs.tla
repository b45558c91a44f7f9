--------------------------- MODULE SmolPoolProofs ---------------------------
(* What TLAPS proves of SmolPool, for every context, prompt file, length of    *)
(* answer, size of the embedding cache and every read that stops early: the     *)
(* regions of the pool keep apart, and rows and chunks of the embedding are     *)
(* taken from where they are.                                                   *)
EXTENDS SmolPool, FiniteSetTheorems, WellFoundedInduction, TLAPS

Block == D * 1024

\* What main was started with: a choice of Args, the prompt cut so that the answer fits.
Started ==
    /\ pc \in {"start", "pool", "load", "kv", "prefill", "decode", "end", "exit"}
    /\ args \in Args /\ use_mbox \in BOOLEAN
    /\ pc # "start" => prompt \in Nat \ {0} /\ prompt + args.new <= args.seq
    /\ pc \in {"load", "kv", "prefill", "decode"} => prompt <= args.file
    /\ pc \in {"start", "pool", "load", "kv"} => max_seq = args.seq /\ ~expanded /\ start = 0
    /\ ~expanded => rows = {} /\ ion = 0

\* The 24 MB, once they are divided: the slots end below the keys and values, which have
\* room for the whole context that is left.
Divided ==
    pc \in {"prefill", "decode"} \/ expanded =>
        /\ mode \in 1..3 /\ slots = 2 * mode
        /\ pc \in {"prefill", "decode", "end", "exit"} /\ prompt \in Nat /\ max_seq = prompt + args.new
        /\ per_layer = PerLayer(max_seq) /\ kv_start \in Nat
        /\ slots * sm_layer_bytes <= kv_start

\* The embedding: a part in DDR, all of it loaded; when the pool has been divided, whole
\* blocks of 1024 rows there and whole blocks after them in ION.
Embedded ==
    /\ ddr \in 0 .. 2 * MB
    /\ pc \in {"kv", "prefill", "decode"} => loaded \in Nat /\ ddr <= loaded
    /\ expanded => /\ ddr % Block = 0
                   /\ ion_off = slots * sm_layer_bytes /\ from = ddr
                   /\ ion \in Nat /\ ion % Block = 0
                   /\ ion_off + ion <= kv_start
                   /\ filled \in 0 .. ion

\* The cache has been filled from the first row on, and every token but the first comes from
\* a row of its own.
Filling ==
    /\ start \in Nat /\ n_gen \in 0 .. Generated
    /\ rows \subseteq 0 .. start - 1
    /\ pc # "start" => start <= prompt + args.new
    /\ pc = "prefill" => start < prompt
    /\ pc = "decode" => start >= prompt /\ n_gen <= start - prompt + 1

PInv == Started /\ Divided /\ Embedded /\ Filling

-----------------------------------------------------------------------------
(* Sizes                                                                     *)

LEMMA Sizes ==
    /\ D = 576 /\ Dkv = 192 /\ V = 49152 /\ L = 30 /\ MB = 1048576 /\ Block = 589824 /\ Generated = 256
    /\ ION_POOL_SZ = 25165824 /\ sm_layer_bytes = 3543552 /\ EmbedTotal = 28311552 /\ CHUNK_PREFILL = 10
  BY DEF D, Dkv, V, L, MB, Block, Generated, ION_POOL_SZ, sm_layer_bytes, EmbedTotal, CHUNK_PREFILL, F

LEMMA Megabytes ==
    /\ MB \in Nat /\ 2 * MB \in Nat /\ EmbedTotal = 27 * MB /\ ION_POOL_SZ = 24 * MB
    /\ D \in Nat /\ V \in Nat /\ EmbedTotal = V * D
  BY Sizes, SMT

\* The keys of a layer have room for every row, and more rows need no less room.
LEMMA PerLayerFacts ==
    ASSUME NEW a \in Nat
    PROVE  /\ PerLayer(a) \in Nat /\ a * 192 <= PerLayer(a)
           /\ \A b \in Nat : a <= b => PerLayer(a) <= PerLayer(b)
<1>1. \A n \in Nat : n \div 256 \in Nat /\ (n \div 256) * 256 <= n /\ n < (n \div 256) * 256 + 256
  OBVIOUS
<1>2. ASSUME NEW n \in Nat
      PROVE  /\ PerLayer(n) = ((n * 192 + 255) \div 256) * 256 /\ PerLayer(n) \in Nat
             /\ n * 192 <= PerLayer(n) /\ PerLayer(n) <= n * 192 + 255
  BY <1>1 DEF PerLayer, Dkv
<1>3. ASSUME NEW b \in Nat, a <= b PROVE PerLayer(a) <= PerLayer(b)
  <2>1. PICK p \in Nat, q \in Nat : p = (a * 192 + 255) \div 256 /\ q = (b * 192 + 255) \div 256
    BY <1>1
  <2>2. p * 256 <= a * 192 + 255 /\ b * 192 + 255 < q * 256 + 256
    BY <1>1, <2>1
  <2>3. p <= q
    BY <1>3, <2>2
  <2> QED
    BY <1>2, <2>1, <2>3
<1> QED
  BY <1>2, <1>3

\* C's division of what is left.
LEMMA QuotFacts ==
    ASSUME NEW a \in Int, NEW b \in Nat \ {0}
    PROVE  /\ Quot(a, b) \in Int
           /\ a >= 0 => Quot(a, b) \in Nat /\ Quot(a, b) * b <= a
           /\ a < 0 => Quot(a, b) <= 0
<1>1. ASSUME NEW c \in Nat PROVE c \div b \in Nat /\ c % b \in 0..b-1 /\ c = (b * (c \div b)) + (c % b)
  OBVIOUS
<1>2. CASE a >= 0
  <2>1. PICK q \in Nat, r \in Nat : q = a \div b /\ r = a % b /\ a = (b * q) + r
    BY <1>1, <1>2
  <2>2. Quot(a, b) = q
    BY <1>2, <2>1 DEF Quot
  <2>3. PICK p \in Nat : p = b * q /\ p = q * b
    BY <2>1
  <2>4. p <= a
    BY <2>1, <2>3
  <2> QED
    BY <1>2, <2>2, <2>3, <2>4
<1>3. CASE a < 0
  <2>1. PICK c \in Nat : c = -a
    BY <1>3
  <2>2. Quot(a, b) = -(c \div b)
    BY <1>3, <2>1 DEF Quot
  <2>3. PICK q \in Nat : q = c \div b
    BY <1>1, <2>1
  <2> QED
    BY <1>3, <2>2, <2>3
<1> QED
  BY <1>2, <1>3

\* What the arguments are.
LEMMA ArgsFacts ==
    ASSUME args \in Args
    PROVE  /\ args.seq \in Nat \ {0} /\ args.file \in Nat /\ args.new \in Nat /\ args.force \in 0..3
           /\ args.new < args.seq /\ args.new < 256
           /\ args.kb # None => args.kb \in Int
           /\ Room(args, IF args.force = 0 THEN 1 ELSE args.force)
<1>1. args \in [seq : Contexts, file : Files, new : News, force : 0..3, kb : CacheKbs] /\ Sensible(args)
  BY DEF Args
<1>2. args.seq \in Contexts /\ args.file \in Files /\ args.new \in News /\ args.force \in 0..3 /\ args.kb \in CacheKbs
  BY <1>1
<1>3. args.new < args.seq /\ args.new < 256 /\ Room(args, IF args.force = 0 THEN 1 ELSE args.force)
  BY <1>1 DEF Sensible, Generated
<1>4. args.seq \in Nat \ {0} /\ args.file \in Nat /\ args.new \in Nat
  BY <1>2, SmolPoolAssumption
<1>5. args.kb # None => args.kb \in Int
  BY <1>2, SmolPoolAssumption
<1> QED
  BY <1>2, <1>3, <1>4, <1>5

-----------------------------------------------------------------------------
(* Setting up                                                                *)

LEMMA InitInv == Init => PInv
<1> SUFFICES ASSUME Init PROVE PInv
  OBVIOUS
<1>1. Started
  BY DEF Init, Started
<1>2. Divided /\ Embedded /\ Filling
  <2>1. pc = "start" /\ ~expanded /\ ddr = 0 /\ start = 0 /\ rows = {} /\ n_gen = 0
    BY DEF Init
  <2>2. 0 \in 0 .. 2 * MB /\ 0 \in 0 .. Generated
    BY Megabytes DEF Generated
  <2> QED
    BY <2>1, <2>2 DEF Divided, Embedded, Filling
<1> QED
  BY <1>1, <1>2 DEF PInv

\* Main stops before the pool is divided, or after.
LEMMA StopInv ==
    ASSUME PInv, UNCHANGED <<setup, cache, mode, slots, loop>>, pc' \in {"exit", "end"}, pc # "start"
    PROVE  PInv'
<1>1. /\ UNCHANGED <<args, prompt, max_seq, use_mbox, kv_start, per_layer>>
      /\ UNCHANGED <<ddr, embed_fd, loaded, expanded, ion_off, ion, from, filled>>
      /\ UNCHANGED <<mode, slots, start, rows, n_gen>>
  BY DEF setup, cache, loop
<1>2. Started'
  BY <1>1 DEF PInv, Started
<1>3. Divided'
  BY <1>1 DEF PInv, Divided
<1>4. Embedded'
  BY <1>1 DEF PInv, Embedded
<1>5. Filling'
  BY <1>1 DEF PInv, Filling
<1> QED
  BY <1>2, <1>3, <1>4, <1>5 DEF PInv

LEMMA ReadPromptInv ==
    ASSUME PInv, ReadPrompt
    PROVE  PInv'
<1>1. /\ pc = "start" /\ pc' = "pool"
      /\ prompt' = IF Min2(args.file, args.seq - args.new) < 1 THEN 1 ELSE Min2(args.file, args.seq - args.new)
      /\ UNCHANGED <<args, max_seq, use_mbox, kv_start, per_layer>>
      /\ UNCHANGED <<ddr, embed_fd, loaded, expanded, ion_off, ion, from, filled>>
      /\ UNCHANGED <<mode, slots, start, rows, n_gen>>
  BY DEF ReadPrompt, cache, loop
<1>2. args.seq \in Nat /\ args.file \in Nat /\ args.new \in Nat /\ args.new < args.seq
  BY ArgsFacts DEF PInv, Started
<1>3. PICK s \in Nat, f \in Nat, n \in Nat : s = args.seq /\ f = args.file /\ n = args.new /\ n < s
  BY <1>2
<1>4. prompt' \in Nat \ {0} /\ prompt' + n <= s
  BY <1>1, <1>3 DEF Min2
<1>5. ~expanded /\ start = 0 /\ pc' # "prefill" /\ pc' # "decode"
  BY <1>1 DEF PInv, Started
<1>6. Started'
  BY <1>1, <1>3, <1>4, <1>5 DEF PInv, Started
<1>7. Divided' /\ Embedded'
  BY <1>1, <1>5 DEF PInv, Divided, Embedded
<1>8. Filling'
  <2>1. start' <= prompt' + args'.new
    BY <1>1, <1>3, <1>4, <1>5
  <2> QED
    BY <1>1, <2>1 DEF PInv, Filling
<1> QED
  BY <1>6, <1>7, <1>8 DEF PInv

\* The DDR part is cut to two megabytes and to SM_EMBED_DDR_KB.
LEMMA PoolInitInv ==
    ASSUME PInv, pool_init
    PROVE  PInv'
<1>1. /\ pc = "pool" /\ args.file >= prompt /\ pc' = "load" /\ use_mbox' \in BOOLEAN
      /\ \E got \in {DDR_POOL_TRY, DDR_POOL_MIN} : ddr' = ddr_embed_max(got)
      /\ UNCHANGED <<args, prompt, max_seq, kv_start, per_layer>>
      /\ UNCHANGED <<loaded, expanded, ion_off, ion, from, filled>>
      /\ UNCHANGED <<mode, start, rows, n_gen>>
  BY DEF pool_init, loop
<1>2. ~expanded /\ args.file \in Nat /\ prompt \in Nat /\ (args.kb # None => args.kb \in Int)
  BY <1>1, ArgsFacts DEF PInv, Started
<1>3. ddr' \in 0 .. 2 * MB
  <2>1. PICK got : got \in {DDR_POOL_TRY, DDR_POOL_MIN} /\ ddr' = ddr_embed_max(got)
    BY <1>1
  <2>2. Min2(Min2(EmbedTotal, got), EMBED_DDR_DEFAULT) = 2 * MB
    <3>1. DDR_POOL_TRY = 12 * MB /\ DDR_POOL_MIN = 4 * MB /\ EMBED_DDR_DEFAULT = 2 * MB
      BY DEF DDR_POOL_TRY, DDR_POOL_MIN, EMBED_DDR_DEFAULT
    <3>2. EmbedTotal = 27 * MB /\ MB \in Nat
      BY Sizes, SMT
    <3> QED
      BY <2>1, <3>1, <3>2, SMT DEF Min2
  <2>3. CASE args.kb = None
    <3>1. ddr' = 2 * MB
      BY <2>1, <2>2, <2>3 DEF ddr_embed_max
    <3> QED
      BY <3>1, Megabytes, SMT
  <2>4. CASE args.kb # None
    <3>1. PICK c \in Int : c = args.kb
      BY <1>2, <2>4
    <3>2. ddr' = IF c * 1024 >= 0 /\ c * 1024 < 2 * MB THEN c * 1024 ELSE 2 * MB
      BY <2>1, <2>2, <2>4, <3>1 DEF ddr_embed_max
    <3> QED
      BY <3>2, Megabytes, SMT
  <2> QED
    BY <2>3, <2>4
<1>4. Started'
  BY <1>1, <1>2 DEF PInv, Started
<1>5. Divided' /\ Embedded'
  BY <1>1, <1>2, <1>3 DEF PInv, Divided, Embedded
<1>6. Filling'
  BY <1>1 DEF PInv, Filling
<1> QED
  BY <1>4, <1>5, <1>6 DEF PInv

LEMMA LoadInv ==
    ASSUME PInv, pool_load_embed_and_init_layers
    PROVE  PInv'
<1>1. /\ pc = "load" /\ pc' = "kv" /\ loaded' = ddr
      /\ UNCHANGED <<args, prompt, max_seq, use_mbox, kv_start, per_layer>>
      /\ UNCHANGED <<ddr, expanded, ion_off, ion, from, filled>>
      /\ UNCHANGED <<mode, slots, start, rows, n_gen>>
  BY DEF pool_load_embed_and_init_layers, setup, loop
<1>2. ~expanded
  BY <1>1 DEF PInv, Started
<1>3. Started'
  BY <1>1 DEF PInv, Started
<1>4. Divided'
  BY <1>1, <1>2 DEF Divided
<1>5. Embedded'
  BY <1>1, <1>2 DEF PInv, Embedded
<1>6. Filling'
  BY <1>1 DEF PInv, Filling
<1> QED
  BY <1>3, <1>4, <1>5, <1>6 DEF PInv

\* The slots fit below the keys and values: the mode is calculated so, or the arguments
\* leave room for one.
LEMMA ModeFits ==
    ASSUME args \in Args, NEW p \in Nat, p <= args.file, NEW s \in Nat, s = p + args.new, s <= args.seq,
           NEW free \in Nat, free = ION_POOL_SZ - 2 * L * PerLayer(s),
           NEW m, m = IF args.force # 0 THEN args.force ELSE pool_calc_pipeline_mode(free)
    PROVE  m \in 1..3 /\ 2 * m * sm_layer_bytes <= free
<1>1. /\ args.seq \in Nat /\ args.file \in Nat /\ args.new \in Nat /\ args.force \in 0..3
      /\ Room(args, IF args.force = 0 THEN 1 ELSE args.force)
  BY ArgsFacts
<1>2. PICK w \in Nat : w = Min2(args.seq, args.file + args.new) /\ s <= w
  <2>1. PICK a \in Nat, f \in Nat, n \in Nat : a = args.seq /\ f = args.file /\ n = args.new
    BY <1>1
  <2> QED
    BY <2>1 DEF Min2
<1>3. PerLayer(s) \in Nat /\ PerLayer(w) \in Nat /\ PerLayer(s) <= PerLayer(w)
  BY <1>2, PerLayerFacts
<1>4. PICK i \in Nat, b \in Nat \ {0}, u \in Nat, v \in Nat :
          i = ION_POOL_SZ /\ b = sm_layer_bytes /\ u = PerLayer(s) /\ v = PerLayer(w) /\ u <= v
          /\ L = 30
  <2>1. ION_POOL_SZ \in Nat /\ sm_layer_bytes \in Nat \ {0} /\ L = 30
    BY Sizes, SMT
  <2> QED
    BY <1>3, <2>1
<1>5. free = i - 60 * u
  BY <1>4
<1>6. ASSUME NEW k \in 1..3, Room(args, k) PROVE 2 * k * b <= free
  <2>1. 2 * k * b <= i - 60 * v
    BY <1>2, <1>4, <1>6 DEF Room
  <2>2. 2 * k * b \in Nat
    BY <1>4
  <2> QED
    BY <1>4, <1>5, <2>1, <2>2
<1>7. CASE args.force # 0
  <2>1. m = args.force /\ m \in 1..3 /\ Room(args, m)
    BY <1>1, <1>7
  <2> QED
    BY <1>4, <1>6, <2>1
<1>8. CASE args.force = 0
  <2>1. 2 * 1 * b <= free
    BY <1>1, <1>6, <1>8
  <2>2. PICK fit \in Int : fit = Quot(free - 2 * MB, b)
    <3>1. free - 2 * MB \in Int
      BY Megabytes
    <3> QED
      BY <1>4, <3>1, QuotFacts
  <2>3. m = IF fit >= 6 THEN 3 ELSE IF fit >= 4 THEN 2 ELSE 1
    BY <1>4, <1>8, <2>2 DEF pool_calc_pipeline_mode
  <2>4. ASSUME NEW k \in {4, 6}, fit >= k PROVE k * b <= free
    <3>1. PICK a \in Int : a = free - 2 * MB /\ a <= free
      BY Megabytes
    <3>2. a >= 0 /\ fit * b <= a
      <4>1. fit = Quot(a, b)
        BY <2>2, <3>1
      <4>2. (a >= 0 => fit * b <= a) /\ (a < 0 => fit <= 0)
        BY <1>4, <4>1, QuotFacts
      <4>3. a >= 0
        BY <2>4, <4>2
      <4> QED
        BY <4>2, <4>3
    <3>3. PICK e \in Nat : fit = k + e
      <4>1. fit - k \in Nat /\ fit = k + (fit - k)
        BY <2>4
      <4> QED
        BY <4>1
    <3>4. fit * b = k * b + e * b /\ e * b \in Nat /\ k * b \in Nat
      BY <1>4, <3>3
    <3>5. PICK g \in Nat, h \in Nat : g = k * b /\ h = e * b /\ g + h <= a
      BY <3>2, <3>4
    <3> QED
      BY <3>1, <3>5
  <2>5. CASE fit >= 6
    BY <1>4, <2>3, <2>4, <2>5
  <2>6. CASE ~(fit >= 6) /\ fit >= 4
    BY <1>4, <2>3, <2>4, <2>6
  <2>7. CASE ~(fit >= 4)
    BY <1>4, <2>1, <2>3, <2>7
  <2> QED
    BY <2>5, <2>6, <2>7
<1> QED
  BY <1>7, <1>8

LEMMA KvInv ==
    ASSUME PInv, sm_kv_alloc_ion
    PROVE  PInv'
<1>1. /\ pc = "kv" /\ pc' = "prefill" /\ kv_start' >= 0 /\ slots' = 2 * mode'
      /\ max_seq' = Min2(max_seq, prompt + args.new) /\ per_layer' = PerLayer(max_seq')
      /\ kv_start' = ION_POOL_SZ - 2 * L * PerLayer(max_seq')
      /\ mode' = IF args.force # 0 THEN args.force ELSE pool_calc_pipeline_mode(kv_start')
      /\ UNCHANGED <<args, prompt, use_mbox>>
      /\ UNCHANGED <<ddr, embed_fd, loaded, expanded, ion_off, ion, from, filled>>
      /\ UNCHANGED <<start, rows, n_gen>>
  BY DEF sm_kv_alloc_ion, cache, loop
<1>2. /\ args \in Args /\ prompt \in Nat \ {0} /\ prompt + args.new <= args.seq /\ prompt <= args.file
      /\ max_seq = args.seq /\ ~expanded /\ start = 0
  BY <1>1 DEF PInv, Started
<1>3. PICK q \in Nat, n \in Nat, p \in Nat \ {0} : q = args.seq /\ n = args.new /\ p = prompt /\ p + n <= q
  BY <1>2, ArgsFacts
<1>4. max_seq' = p + n /\ p + n \in Nat
  BY <1>1, <1>2, <1>3 DEF Min2
<1>5. kv_start' \in Nat
  <2>1. PICK u \in Nat : u = PerLayer(max_seq')
    BY <1>4, PerLayerFacts
  <2>2. ION_POOL_SZ \in Nat /\ L = 30
    BY Sizes, SMT
  <2>3. kv_start' \in Int
    BY <1>1, <2>1, <2>2
  <2> QED
    BY <1>1, <2>3
<1>6. mode' \in 1..3 /\ 2 * mode' * sm_layer_bytes <= kv_start'
  <2>1. PICK free \in Nat : free = kv_start'
    BY <1>5
  <2>2. PICK m : m = mode'
    OBVIOUS
  <2>3. PICK s \in Nat : s = p + n
    BY <1>3
  <2>4. free = ION_POOL_SZ - 2 * L * PerLayer(s)
    BY <1>1, <1>4, <2>1, <2>3
  <2>5. m = IF args.force # 0 THEN args.force ELSE pool_calc_pipeline_mode(free)
    BY <1>1, <2>1, <2>2
  <2>6. m \in 1..3 /\ 2 * m * sm_layer_bytes <= free
    BY <1>2, <1>3, <2>3, <2>4, <2>5, ModeFits
  <2> QED
    BY <2>1, <2>2, <2>6
<1>7. Started'
  BY <1>1, <1>2 DEF PInv, Started
<1>8. Divided'
  <2>1. slots' * sm_layer_bytes <= kv_start'
    BY <1>1, <1>6
  <2> QED
    BY <1>1, <1>2, <1>3, <1>4, <1>5, <1>6, <2>1 DEF Divided
<1>9. Embedded'
  BY <1>1, <1>2 DEF PInv, Embedded
<1>10. Filling'
  <2>1. start' < prompt'
    BY <1>1, <1>2
  <2> QED
    BY <1>1, <2>1 DEF PInv, Filling
<1> QED
  BY <1>7, <1>8, <1>9, <1>10 DEF PInv

-----------------------------------------------------------------------------
(* Passes                                                                    *)

\* Whole blocks.
LEMMA WholeBlocks ==
    ASSUME NEW q \in Nat
    PROVE  q * Block \in Nat /\ (q * Block) % Block = 0
<1>1. Block = 589824
  BY Sizes
<1>2. q * 589824 \in Nat /\ (q * 589824) % 589824 = 0
  BY SMT
<1> QED
  BY <1>1, <1>2, SMT

\* Dividing the pool cuts the DDR part to whole blocks, and takes no more of the ION than
\* lies between the slots and the keys and values.
LEMMA ExpandFacts ==
    ASSUME PInv, pc \in {"prefill", "decode"}, pool_ion_expand_for_batch, UNCHANGED <<setup, mode>>
    PROVE  /\ expanded' /\ slots' = slots /\ Embedded'
           /\ UNCHANGED <<args, prompt, max_seq, use_mbox, kv_start, per_layer, mode>>
<1>1. /\ UNCHANGED <<args, prompt, max_seq, use_mbox, kv_start, per_layer, mode>>
      /\ ddr \in 0 .. 2 * MB /\ loaded \in Nat /\ ddr <= loaded
      /\ mode \in 1..3 /\ slots = 2 * mode /\ kv_start \in Nat /\ slots * sm_layer_bytes <= kv_start
  BY DEF setup, PInv, Divided, Embedded
<1>2. CASE expanded
  <2>1. UNCHANGED <<ddr, embed_fd, loaded, expanded, ion_off, ion, from, filled, slots>>
    BY <1>2 DEF pool_ion_expand_for_batch, cache
  <2> QED
    BY <1>1, <1>2, <2>1 DEF PInv, Embedded
<1>3. CASE ~expanded
  <2>1. /\ slots' = 2 * mode /\ ion_off' = 2 * mode * sm_layer_bytes /\ ddr' = Kept /\ ion' = IonBytes(mode)
        /\ from' = Kept /\ expanded' /\ loaded' = loaded
        /\ filled' \in (IF ion' > 0 /\ embed_fd THEN {0, Min2(ReadUnit, ion'), ion'} ELSE {0})
    BY <1>3 DEF pool_ion_expand_for_batch, Fill
  <2>2. PICK b \in Nat \ {0}, c \in Nat, d \in Nat, h \in Nat : b = Block /\ c = sm_layer_bytes /\ d = ddr /\ h = kv_start
    <3>1. Block \in Nat \ {0} /\ sm_layer_bytes \in Nat
      BY Sizes, SMT
    <3> QED
      BY <1>1, <3>1, Megabytes
  <2>3. PICK q \in Nat : Kept = q * b /\ q * b <= d
    <3>1. d \div b \in Nat /\ d % b \in 0..b-1 /\ d = (b * (d \div b)) + (d % b)
      BY <2>2
    <3>2. PICK q \in Nat : q = d \div b
      BY <3>1
    <3>3. Kept = q * b
      BY <2>2, <3>2 DEF Kept, Block
    <3>4. PICK p \in Nat : p = q * b /\ p = b * q
      BY <2>2, <3>2
    <3>5. p <= d
      BY <2>2, <3>1, <3>2, <3>4
    <3> QED
      BY <3>2, <3>3, <3>4, <3>5
  <2>4. PICK k \in Nat : k = q * b /\ k = Kept /\ k % Block = 0 /\ k <= d
    BY <2>2, <2>3, WholeBlocks
  <2>5. ddr' \in 0 .. 2 * MB /\ ddr' <= loaded' /\ ddr' % Block = 0 /\ from' = ddr'
    BY <1>1, <2>1, <2>2, <2>4, Megabytes
  <2>6. slots' = slots /\ ion_off' = slots' * sm_layer_bytes
    BY <1>1, <2>1
  <2>7. PICK o \in Nat : o = ion_off' /\ o <= h
    <3>1. slots \in Nat
      BY <1>1
    <3>2. slots * c \in Nat
      BY <2>2, <3>1
    <3> QED
      BY <1>1, <2>2, <2>6, <3>2
  <2>8. PICK a \in Nat : a = Min2(EmbedTotal - Kept, kv_start - 2 * mode * sm_layer_bytes) /\ a <= h - o
    <3>1. EmbedTotal - k \in Nat
      <4>1. PICK t \in Nat : t = MB /\ EmbedTotal = 27 * t /\ d <= 2 * t
        BY <1>1, <2>2, Megabytes
      <4> QED
        BY <2>4, <4>1
    <3>2. kv_start - 2 * mode * sm_layer_bytes = h - o
      BY <2>1, <2>2, <2>7
    <3>3. PICK u \in Nat, v \in Nat : u = EmbedTotal - k /\ v = h - o
      <4>1. h - o \in Nat
        <5>1. o <= h
          BY <2>7
        <5> QED
          BY <5>1
      <4> QED
        BY <3>1, <4>1
    <3> QED
      BY <2>4, <3>2, <3>3 DEF Min2
  <2>9. PICK r \in Nat : ion' = r * b /\ r * b <= a
    <3>1. PICK r \in Nat : r = Quot(a, b) /\ r * b <= a
      BY QuotFacts
    <3>2. ion' = r * b
      BY <2>1, <2>2, <2>8, <3>1 DEF IonBytes, Block
    <3> QED
      BY <3>1, <3>2
  <2>10. ion' \in Nat /\ ion' % Block = 0 /\ ion_off' + ion' <= kv_start'
    <3>1. PICK e \in Nat : e = r * b /\ e % Block = 0
      BY <2>2, <2>9, WholeBlocks
    <3>2. o + e <= h
      <4>1. e <= a
        BY <2>9, <3>1
      <4>2. a <= h - o
        BY <2>8
      <4>3. h - o \in Nat
        <5>1. o <= h
          BY <2>7
        <5> QED
          BY <5>1
      <4> QED
        BY <4>1, <4>2, <4>3
    <3> QED
      BY <1>1, <2>2, <2>7, <2>9, <3>1, <3>2
  <2>11. filled' \in 0 .. ion'
    <3>1. PICK e \in Nat : e = ion'
      BY <2>10
    <3>2. ReadUnit \in Nat
      BY SMT DEF ReadUnit
    <3>3. PICK f \in Nat : f = ReadUnit
      BY <3>2
    <3>4. filled' \in {0, Min2(f, e), e}
      BY <2>1, <3>1, <3>3
    <3> QED
      BY <3>1, <3>4 DEF Min2
  <2> QED
    BY <1>1, <2>1, <2>5, <2>6, <2>10, <2>11 DEF Embedded
<1> QED
  BY <1>2, <1>3

\* A pass of n tokens, all within what is left of the context.
LEMMA ForwardInv ==
    ASSUME PInv, pc \in {"prefill", "decode"}, pool_ion_expand_for_batch, UNCHANGED <<setup, mode>>,
           NEW n \in Nat, rows' = rows \cup (start .. start + n - 1), start' = start + n,
           start + n <= prompt + args.new, n_gen' \in 0 .. Generated,
           pc' \in {"prefill", "decode", "end", "exit"},
           pc' = "prefill" => start' < prompt,
           pc' = "decode" => start' >= prompt /\ n_gen' <= start' - prompt + 1
    PROVE  PInv'
<1>1. /\ expanded' /\ slots' = slots /\ Embedded'
      /\ args' = args /\ prompt' = prompt /\ max_seq' = max_seq /\ use_mbox' = use_mbox
      /\ kv_start' = kv_start /\ per_layer' = per_layer /\ mode' = mode
  BY ExpandFacts
<1>2. Started'
  BY <1>1 DEF PInv, Started
<1>3. Divided'
  BY <1>1 DEF PInv, Divided
<1>4. Filling'
  <2>1. start \in Nat /\ rows \subseteq 0 .. start - 1
    BY DEF PInv, Filling
  <2>2. start' \in Nat /\ rows' \subseteq 0 .. start' - 1
    BY <2>1
  <2>3. pc' # "start" => start' <= prompt' + args'.new
    BY <1>1
  <2> QED
    BY <1>1, <2>2, <2>3 DEF Filling
<1> QED
  BY <1>1, <1>2, <1>3, <1>4 DEF PInv

LEMMA PassInv ==
    ASSUME PInv, Prefill \/ DecodeStep \/ ForwardFails
    PROVE  PInv'
<1>1. pc \in {"prefill", "decode"} /\ pool_ion_expand_for_batch /\ UNCHANGED <<setup, mode>>
  BY DEF Prefill, DecodeStep, ForwardFails, Forward
<1>2. /\ args \in Args /\ prompt \in Nat \ {0} /\ start \in Nat /\ n_gen \in 0 .. Generated
      /\ start <= prompt + args.new /\ (pc = "prefill" => start < prompt)
      /\ pc = "decode" => start >= prompt /\ n_gen <= start - prompt + 1
  BY <1>1 DEF PInv, Started, Filling
<1>3. PICK new \in Nat : new = args.new /\ new < 256
  BY <1>2, ArgsFacts
<1>4. CASE Prefill
  <2>1. PICK n \in Nat : n = Min2(CHUNK_PREFILL, prompt - start) /\ start + n <= prompt
    BY <1>2, <1>4 DEF Prefill, Min2, CHUNK_PREFILL
  <2>2. /\ rows' = rows \cup (start .. start + n - 1) /\ start' = start + n
        /\ n_gen' = IF start' >= prompt THEN 1 ELSE 0
        /\ pc' = IF start' >= prompt THEN "decode" ELSE "prefill"
    BY <1>4, <2>1 DEF Prefill, Forward
  <2>3. start + n <= prompt + args.new /\ n_gen' \in 0 .. Generated
        /\ (pc' = "prefill" => start' < prompt)
        /\ (pc' = "decode" => start' >= prompt /\ n_gen' <= start' - prompt + 1)
    BY <1>2, <1>3, <2>1, <2>2 DEF Generated
  <2> QED
    BY <1>1, <2>2, <2>3, ForwardInv
<1>5. CASE DecodeStep
  <2>1. /\ pc = "decode" /\ start - prompt < new
        /\ rows' = rows \cup (start .. start + 1 - 1) /\ start' = start + 1
        /\ n_gen' = n_gen \/ n_gen' = n_gen + 1
        /\ pc' \in {"decode", "end"}
    BY <1>3, <1>5 DEF DecodeStep, Forward
  <2>2. start + 1 <= prompt + args.new /\ n_gen' \in 0 .. Generated
        /\ start' >= prompt /\ n_gen' <= start' - prompt + 1
    BY <1>2, <1>3, <2>1 DEF Generated
  <2> QED
    BY <1>1, <2>1, <2>2, ForwardInv
<1>6. CASE ForwardFails
  <2>1. UNCHANGED <<start, rows, n_gen>> /\ pc' \in {"exit", "end"}
    BY <1>6 DEF ForwardFails, loop
  <2>2. rows' = rows \cup (start .. start + 0 - 1) /\ start' = start + 0
    <3>1. start .. start + 0 - 1 = {}
      BY <1>2
    <3> QED
      BY <1>2, <2>1, <3>1
  <2>3. start + 0 <= prompt + args.new /\ n_gen' \in 0 .. Generated
    BY <1>2, <1>3, <2>1
  <2> QED
    BY <1>1, <2>1, <2>2, <2>3, ForwardInv
<1> QED
  BY <1>4, <1>5, <1>6

LEMMA NextInv ==
    ASSUME PInv, [Next]_vars
    PROVE  PInv'
<1>1. CASE ReadPrompt
  BY <1>1, ReadPromptInv
<1>2. CASE pool_init
  BY <1>2, PoolInitInv
<1>3. CASE pool_load_embed_and_init_layers
  BY <1>3, LoadInv
<1>4. CASE sm_kv_alloc_ion
  BY <1>4, KvInv
<1>5. CASE Prefill \/ DecodeStep \/ ForwardFails
  BY <1>5, PassInv
<1>6. CASE NoPrompt \/ SetUpFails \/ Enough
  <2>1. UNCHANGED <<setup, cache, mode, slots, loop>> /\ pc' \in {"exit", "end"} /\ pc # "start"
    BY <1>6 DEF NoPrompt, SetUpFails, Enough, Exit
  <2> QED
    BY <2>1, StopInv
<1>7. CASE UNCHANGED vars
  <2>1. /\ UNCHANGED <<args, prompt, max_seq, use_mbox, kv_start, per_layer>>
        /\ UNCHANGED <<ddr, embed_fd, loaded, expanded, ion_off, ion, from, filled>>
        /\ UNCHANGED <<pc, mode, slots, start, rows, n_gen>>
    BY <1>7 DEF vars, setup, cache, loop
  <2>2. Started' /\ Divided'
    BY <2>1 DEF PInv, Started, Divided
  <2>3. Embedded' /\ Filling'
    BY <2>1 DEF PInv, Embedded, Filling
  <2> QED
    BY <2>2, <2>3 DEF PInv
<1> QED
  BY <1>1, <1>2, <1>3, <1>4, <1>5, <1>6, <1>7 DEF Next, Ended

THEOREM Inductive == Spec => []PInv
  BY InitInv, NextInv, PTL DEF Spec

-----------------------------------------------------------------------------
(* What follows                                                              *)

\* The chunk of the LM head is cut until four of them fit into the slots.
LEMMA ChunkFits ==
    ASSUME slots \in {2, 4, 6}
    PROVE  Chunk \in {512, 1024, 2048, 4096} /\ 4 * D * Chunk <= slots * sm_layer_bytes
<1>1. D = 576 /\ 4 * 576 * 512 <= slots * sm_layer_bytes
  BY Sizes, SMT
<1> DEFINE Fits(c) == c * D * 4 <= slots * sm_layer_bytes
<1>2. \A c \in {512, 1024, 2048, 4096} : Fits(c) => 4 * D * c <= slots * sm_layer_bytes
  BY <1>1, SMT
<1>3. Fits(512)
  BY <1>1, SMT
<1>4. ASSUME NEW c, c = IF use_mbox THEN 2048 ELSE 4096
      PROVE  /\ c \in {2048, 4096} /\ c \div 2 \in {1024, 2048} /\ c \div 4 \in {512, 1024}
             /\ Chunk = IF Fits(c) THEN c ELSE IF Fits(c \div 2) THEN c \div 2 ELSE IF Fits(c \div 4) THEN c \div 4 ELSE 512
  <2>1. c \in {2048, 4096} /\ c \div 2 \in {1024, 2048} /\ c \div 4 \in {512, 1024}
    BY <1>4, SMT
  <2> QED
    BY <1>4, <2>1 DEF Chunk
<1> HIDE DEF Fits
<1>5. Chunk \in {512, 1024, 2048, 4096} /\ Fits(Chunk)
  BY <1>3, <1>4, SMT
<1> QED
  BY <1>2, <1>5

\* Slots, the chunks of the LM head, the embedding in ION and the keys and values never
\* overlap; no pass needs a row of the cache that is not there, and generated[256] suffices:
\* pool_init, pool_calc_pipeline_mode, sm_kv_alloc_ion and pool_ion_expand_for_batch agree.
THEOREM Apart == Spec => []MemoryApart
<1>1. PInv => MemoryApart
  <2> SUFFICES ASSUME PInv PROVE MemoryApart
    OBVIOUS
  <2>1. ASSUME expanded
        PROVE  /\ slots * sm_layer_bytes <= kv_start
               /\ ion > 0 => slots * sm_layer_bytes <= ion_off /\ ion_off + ion <= kv_start
               /\ 4 * D * Chunk <= slots * sm_layer_bytes
    <3>1. /\ mode \in 1..3 /\ slots = 2 * mode /\ slots * sm_layer_bytes <= kv_start
          /\ ion_off = slots * sm_layer_bytes /\ ion_off + ion <= kv_start
      BY <2>1 DEF PInv, Divided, Embedded
    <3>2. slots \in {2, 4, 6}
      BY <3>1
    <3>3. slots * sm_layer_bytes <= ion_off
      <4>1. sm_layer_bytes \in Nat
        BY Sizes, SMT
      <4>2. PICK c \in Nat : c = slots * sm_layer_bytes
        BY <3>2, <4>1
      <4> QED
        BY <3>1, <4>2
    <3> QED
      BY <3>1, <3>2, <3>3, ChunkFits
  <2>2. ASSUME NEW r \in rows
        PROVE  (r + 1) * Dkv <= per_layer /\ r < max_seq
    <3>1. rows \subseteq 0 .. start - 1 /\ start \in Nat /\ expanded
      BY <2>2 DEF PInv, Filling, Started
    <3>2. /\ max_seq = prompt + args.new /\ per_layer = PerLayer(max_seq) /\ prompt \in Nat
          /\ args \in Args /\ start <= prompt + args.new
      BY <3>1 DEF PInv, Divided, Started, Filling
    <3>3. PICK s \in Nat : s = max_seq /\ start <= s
      BY <3>2, ArgsFacts
    <3>4. r \in Nat /\ r < s
      BY <3>1, <3>3
    <3>5. PICK p \in Nat : p = per_layer /\ s * 192 <= p
      BY <3>2, <3>3, PerLayerFacts
    <3>6. (r + 1) * 192 <= s * 192
      BY <3>3, <3>4
    <3>7. (r + 1) * 192 <= p
      BY <3>3, <3>4, <3>5, <3>6
    <3> QED
      BY <3>3, <3>4, <3>5, <3>7 DEF Dkv
  <2>3. n_gen <= Generated
    BY DEF PInv, Filling, Generated
  <2> QED
    BY <2>1, <2>2, <2>3 DEF MemoryApart
<1> QED
  BY <1>1, Inductive, PTL

\* A row is taken from where its own bytes are, or from none.
LEMMA RowRight ==
    ASSUME PInv, pc \in {"prefill", "decode"}, NEW t \in 0 .. V - 1
    PROVE  \/ pool_get_embed_row(t) = t * D
           \/ ~expanded /\ t * D < ddr /\ t * D + D > ddr
           \/ expanded /\ filled < ion /\ t * D + D > ddr + filled
<1>1. D = 576 /\ V \in Nat
  BY Sizes, SMT
<1>2. PICK o \in Nat : o = t * D /\ o = t * 576
  BY <1>1
<1>3. PICK d \in Nat, w \in Nat : d = ddr /\ w = loaded /\ d <= w
  BY Megabytes DEF PInv, Embedded
<1>4. pool_get_embed_row(t) =
        IF o < d THEN IF o + 576 <= w THEN o ELSE None
        ELSE IF ion > 0 /\ o < d + ion THEN IF o - d + 576 <= filled THEN from + (o - d) ELSE None
        ELSE o
  BY <1>1, <1>2, <1>3 DEF pool_get_embed_row
<1>5. CASE ~expanded
  <2>1. ion = 0
    BY <1>5 DEF PInv, Started
  <2>2. CASE o < d
    <3>1. CASE o + 576 <= w
      BY <1>2, <1>4, <2>2, <3>1
    <3>2. CASE ~(o + 576 <= w)
      <4>1. o + 576 > d
        BY <1>3, <3>2
      <4> QED
        BY <1>1, <1>2, <1>3, <1>5, <2>2, <4>1
    <3> QED
      BY <3>1, <3>2
  <2>3. CASE ~(o < d)
    BY <1>2, <1>4, <2>1, <2>3
  <2> QED
    BY <2>2, <2>3
<1>6. CASE expanded
  <2>1. PICK i \in Nat, f \in Nat : /\ i = ion /\ f = filled /\ f <= i /\ from = d
                                   /\ d % 589824 = 0 /\ i % 589824 = 0
    <3>1. Block = 589824
      BY Sizes
    <3>2. ion \in Nat /\ filled \in 0 .. ion /\ from = ddr /\ ddr % Block = 0 /\ ion % Block = 0
      BY <1>6 DEF PInv, Embedded
    <3> QED
      BY <1>3, <3>1, <3>2, SMT
  <2>2. (o < d => o + 576 <= d) /\ (o < d + i => o + 576 <= d + i)
    <3>1. ASSUME NEW e \in Nat, e % 589824 = 0, o < e PROVE o + 576 <= e
      <4>1. PICK q \in Nat : e = q * 589824
        BY <3>1, SMT
      <4> QED
        BY <1>2, <3>1, <4>1, SMT
    <3>2. d + i \in Nat /\ (d + i) % 589824 = 0
      BY <2>1, SMT
    <3> QED
      BY <2>1, <3>1, <3>2, SMT
  <2>3. CASE o < d
    <3>1. o + 576 <= w
      BY <1>3, <2>2, <2>3
    <3> QED
      BY <1>2, <1>4, <2>3, <3>1
  <2>4. CASE ~(o < d) /\ i > 0 /\ o < d + i
    <3>1. CASE o - d + 576 <= f
      <4>1. pool_get_embed_row(t) = d + (o - d)
        BY <1>4, <2>1, <2>4, <3>1
      <4>2. d + (o - d) = o
        BY <1>2, <1>3
      <4> QED
        BY <1>2, <4>1, <4>2
    <3>2. CASE ~(o - d + 576 <= f)
      <4>1. o + 576 > d + f /\ f < i
        BY <2>1, <2>2, <2>4, <3>2
      <4> QED
        BY <1>1, <1>2, <1>3, <1>6, <2>1, <4>1
    <3> QED
      BY <3>1, <3>2
  <2>5. CASE ~(o < d) /\ ~(i > 0 /\ o < d + i)
    BY <1>2, <1>4, <2>1, <2>5
  <2> QED
    BY <2>3, <2>4, <2>5
<1> QED
  BY <1>5, <1>6

\* So is a chunk of rows.
LEMMA ChunkRight ==
    ASSUME PInv, pc \in {"prefill", "decode"}, expanded, NEW v \in Nat, v < V
    PROVE  \/ LoadChunk(v) = v * D
           \/ filled < ion /\ (v + Chunk) * D > ddr + filled
<1>1. D = 576 /\ V \in Nat
  BY Sizes, SMT
<1>2. PICK o \in Nat : o = v * D /\ o = v * 576
  BY <1>1
<1>3. PICK d \in Nat, i \in Nat, f \in Nat : d = ddr /\ i = ion /\ f = filled /\ f <= i /\ from = d
  BY Megabytes DEF PInv, Embedded
<1>4. PICK c \in Nat : c = Chunk
  <2>1. slots \in {2, 4, 6}
    BY DEF PInv, Divided
  <2> QED
    BY <2>1, ChunkFits
<1>5. PICK e \in Nat : e = D * Min2(Chunk, V - v) /\ o + e <= (v + c) * 576
  <2>1. PICK m \in Nat : m = Min2(c, V - v) /\ m <= c
    BY <1>1 DEF Min2
  <2>2. PICK e \in Nat : e = 576 * m
    BY <2>1
  <2>3. o + e <= (v + c) * 576
    BY <1>2, <2>1, <2>2
  <2> QED
    BY <1>1, <1>4, <2>1, <2>2, <2>3
<1>6. LoadChunk(v) =
        IF o + e <= d THEN o
        ELSE IF i > 0 /\ o >= d /\ o + e <= d + i THEN IF o - d + e <= f THEN d + (o - d) ELSE None
        ELSE o
  BY <1>2, <1>3, <1>5 DEF LoadChunk
<1>7. d + (o - d) = o
  BY <1>2, <1>3
<1>8. CASE ~(o + e <= d) /\ i > 0 /\ o >= d /\ o + e <= d + i /\ ~(o - d + e <= f)
  <2>1. PICK g \in Nat : g = (v + c) * 576
    BY <1>4
  <2>2. f < i /\ g > d + f
    <3>1. o + e <= g
      BY <1>5, <2>1
    <3>2. o + e > d + f
      BY <1>2, <1>3, <1>5, <1>8
    <3> QED
      BY <1>3, <1>5, <1>8, <3>1, <3>2
  <2> QED
    BY <1>1, <1>3, <1>4, <2>1, <2>2
<1>9. CASE ~(~(o + e <= d) /\ i > 0 /\ o >= d /\ o + e <= d + i /\ ~(o - d + e <= f))
  BY <1>2, <1>6, <1>7, <1>9
<1> QED
  BY <1>8, <1>9

\* Every row and every chunk of the embedding comes from its own bytes of embed.i8, before
\* and after pool_ion_expand_for_batch, but for the row across the end of the DDR part and
\* what a read that stopped early has left out.
THEOREM RowsRight == Spec => []EmbeddingRight
<1>1. PInv => EmbeddingRight
  <2> SUFFICES ASSUME PInv, pc \in {"prefill", "decode"}
               PROVE  /\ \A t \in Edges :
                            \/ pool_get_embed_row(t) = t * D
                            \/ ~expanded /\ t * D < ddr /\ t * D + D > ddr
                            \/ expanded /\ filled < ion /\ t * D + D > ddr + filled
                      /\ expanded => \A k \in 0 .. V \div Chunk :
                            LET v == k * Chunk IN
                            v < V => \/ LoadChunk(v) = v * D
                                     \/ filled < ion /\ (v + Chunk) * D > ddr + filled
    BY DEF EmbeddingRight
  <2>1. \A t \in Edges : t \in 0 .. V - 1
    BY DEF Edges
  <2>2. ASSUME expanded, NEW k \in 0 .. V \div Chunk, k * Chunk < V
        PROVE  \/ LoadChunk(k * Chunk) = k * Chunk * D
               \/ filled < ion /\ (k * Chunk + Chunk) * D > ddr + filled
    <3>1. slots \in {2, 4, 6}
      BY <2>2 DEF PInv, Divided
    <3>2. Chunk \in Nat
      BY <3>1, ChunkFits
    <3>3. PICK v \in Nat : v = k * Chunk
      BY <3>2
    <3> QED
      BY <2>2, <3>3, ChunkRight
  <2> QED
    BY <2>1, <2>2, RowRight
<1> QED
  BY <1>1, Inductive, PTL

-----------------------------------------------------------------------------
(* The choice of the token: loops over all the scores                         *)

\* Min of a set of numbers is its least.
LEMMA LeastNat ==
    ASSUME NEW S \in SUBSET Nat, S # {}
    PROVE  Min(S) \in S /\ \A k \in S : Min(S) <= k
<1>1. PICK m \in S : \A k \in S : <<k, m>> \notin OpToRel(<, Nat)
  BY NatLessThanWellFounded, WFMin
<1>2. \A k \in S : m <= k
  <2> SUFFICES ASSUME NEW k \in S PROVE m <= k
    OBVIOUS
  <2>1. ~(k < m)
    BY <1>1 DEF OpToRel
  <2> QED
    BY <2>1
<1> QED
  BY <1>2 DEF Min

\* Induction over the numbers of a set: no operator parameter, and so within the provers' reach.
LEMMA SetInduction ==
    ASSUME NEW G, 0 \in G, \A k \in Nat : k \in G => k + 1 \in G
    PROVE  \A k \in Nat : k \in G
<1> SUFFICES ASSUME NEW j \in Nat, j \notin G PROVE FALSE
  OBVIOUS
<1> DEFINE B == {k \in Nat : k \notin G}
           m == Min(B)
<1>1. m \in B /\ \A k \in B : m <= k
  <2>1. B \in SUBSET Nat /\ B # {}
    OBVIOUS
  <2> HIDE DEF B
  <2> QED
    BY <2>1, LeastNat
<1> HIDE DEF m
<1>2. m \in Nat /\ m # 0
  BY <1>1
<1>3. m - 1 \in Nat /\ m - 1 \in G
  BY <1>1, <1>2
<1>4. (m - 1) + 1 \in G
  BY <1>3
<1> QED
  BY <1>1, <1>2, <1>4

\* A loop over 1..n whose body is a function on the set X of what it carries along.
LoopBody(n, X, Step) == Step \in [1..n -> [X -> X]]
HasLoop(n, X, base, Step) ==
    \E f \in [0..n -> X] : f[0] = base /\ \A i \in 1..n : f[i] = Step[i][f[i - 1]]

\* Such a loop has a result: what a recursive function over 1..n computes is there to reason about.
LEMMA LoopExists ==
    ASSUME NEW n \in Nat, NEW X, NEW base \in X, NEW Step, LoopBody(n, X, Step)
    PROVE  HasLoop(n, X, base, Step)
<1> USE DEF LoopBody, HasLoop
<1> DEFINE Is(f, m) == f = [i \in 0..m |-> IF i = 0 THEN base ELSE Step[i][f[i - 1]]]
           G == {m \in Nat : m <= n => \E f \in [0..m -> X] : Is(f, m)}
<1>1. 0 \in G
  <2> DEFINE f == [i \in 0..0 |-> base]
  <2>1. f \in [0..0 -> X] /\ \A i \in 0..0 : i = 0
    OBVIOUS
  <2>2. Is(f, 0)
    OBVIOUS
  <2> QED
    BY <2>1, <2>2
<1>2. ASSUME NEW m \in Nat, m \in G PROVE m + 1 \in G
  <2> SUFFICES ASSUME m + 1 <= n PROVE \E f \in [0..m+1 -> X] : Is(f, m + 1)
    OBVIOUS
  <2>1. PICK g \in [0..m -> X] : Is(g, m)
    BY <1>2
  <2> DEFINE f == [i \in 0..m+1 |-> IF i <= m THEN g[i] ELSE Step[i][g[m]]]
  <2>2. f \in [0..m+1 -> X]
    <3>1. ASSUME NEW i \in 0..m+1 PROVE f[i] \in X
      OBVIOUS
    <3> QED
      BY <3>1
  <2>3. \A i \in 0..m+1 : f[i] = IF i = 0 THEN base ELSE Step[i][f[i - 1]]
    <3> SUFFICES ASSUME NEW i \in 0..m+1 PROVE f[i] = IF i = 0 THEN base ELSE Step[i][f[i - 1]]
      OBVIOUS
    <3>1. CASE i <= m
      <4>1. i \in 0..m /\ g[i] = IF i = 0 THEN base ELSE Step[i][g[i - 1]]
        BY <2>1, <3>1
      <4>2. f[i] = g[i] /\ (i # 0 => f[i - 1] = g[i - 1])
        BY <3>1
      <4> QED
        BY <4>1, <4>2
    <3>2. CASE ~(i <= m)
      <4>1. i = m + 1 /\ i # 0 /\ i - 1 = m /\ f[i] = Step[i][g[m]] /\ f[m] = g[m]
        BY <3>2
      <4> HIDE DEF f
      <4> QED
        BY <4>1
    <3> QED
      BY <3>1, <3>2
  <2>4. Is(f, m + 1)
    <3> DEFINE u == [i \in 0..m+1 |-> IF i = 0 THEN base ELSE Step[i][f[i - 1]]]
    <3>1. f = u
      <4>1. DOMAIN f = 0..m+1 /\ DOMAIN u = 0..m+1 /\ \A i \in 0..m+1 : f[i] = u[i]
        BY <2>3
      <4>2. f = [i \in 0..m+1 |-> f[i]]
        OBVIOUS
      <4> QED
        BY <4>1, <4>2
    <3> QED
      BY <3>1
  <2> QED
    BY <2>2, <2>4
<1> HIDE DEF G
<1>3. n \in G
  BY <1>1, <1>2, SetInduction
<1>4. PICK f \in [0..n -> X] : Is(f, n)
  BY <1>3 DEF G
<1>5. f[0] = base /\ \A i \in 1..n : f[i] = Step[i][f[i - 1]]
  BY <1>4
<1> QED
  BY <1>5

\* What the K best tokens are after i tokens.
TopTyped(top, K) == top \in [1..K -> [v : Int, id : Int]]
TopOwn(top, i, scores, K) ==
    /\ \A k \in 1..K : k <= i => top[k].id \in 1..i /\ top[k].v = scores[top[k].id]
    /\ \A k \in 1..K : k > i => top[k].id = -1 /\ top[k].v = -1
Beats(a, b) == a.v > b.v \/ (a.v = b.v /\ a.id < b.id)
TopOrdered(top, i, K) == \A j, k \in 1..K : j < k /\ k <= i => Beats(top[j], top[k])
TopKept(top, i, scores, K) ==
    \A c \in 1..i : (\E k \in 1..K : top[k].id = c) \/ scores[c] <= top[K].v
TopSoFar(top, i, scores, K) ==
    /\ TopTyped(top, K)
    /\ TopOwn(top, i, scores, K)
    /\ TopOrdered(top, i, K)
    /\ TopKept(top, i, scores, K)

\* One more token keeps the K best of those before it and itself, in order.
LEMMA InsertKeeps ==
    ASSUME NEW n \in Nat, NEW scores \in [1..n -> Int], \A c \in 1..n : scores[c] > -1,
           NEW K \in Nat \ {0}, NEW i \in Nat, i < n, NEW top, TopSoFar(top, i, scores, K)
    PROVE  TopSoFar(Insert(top, K, [id |-> i + 1, v |-> scores[i + 1]]), i + 1, scores, K)
<1> DEFINE row == [id |-> i + 1, v |-> scores[i + 1]]
           beaten == {k \in 1..K : row.v > top[k].v}
           new == Insert(top, K, row)
<1>1. row.v = scores[i + 1] /\ row.id = i + 1 /\ row \in [v : Int, id : Int] /\ row.v > -1 /\ row.v \in Int
  OBVIOUS
<1>2. \A k \in 1..K : top[k] \in [v : Int, id : Int] /\ top[k].v \in Int /\ top[k].id \in Int
  BY DEF TopSoFar, TopTyped
<1>3. \A k \in 1..K : k <= i => top[k].id \in 1..i /\ top[k].v = scores[top[k].id]
  BY DEF TopSoFar, TopOwn
<1>4. \A k \in 1..K : k > i => top[k].id = -1 /\ top[k].v = -1
  BY DEF TopSoFar, TopOwn
<1>5. \A j, k \in 1..K : j < k /\ k <= i => Beats(top[j], top[k])
  BY DEF TopSoFar, TopOrdered
<1>6. \A c \in 1..i : (\E k \in 1..K : top[k].id = c) \/ scores[c] <= top[K].v
  BY DEF TopSoFar, TopKept
<1>7. \A k \in 1..K : top[k].v >= -1
  <2> SUFFICES ASSUME NEW k \in 1..K PROVE top[k].v >= -1
    OBVIOUS
  <2>1. CASE k <= i
    <3>1. top[k].id \in 1..i /\ top[k].v = scores[top[k].id]
      BY <1>3, <2>1
    <3>2. scores[top[k].id] > -1
      <4>1. top[k].id \in 1..n
        BY <3>1
      <4> QED
        BY <4>1
    <3> QED
      BY <1>2, <3>1, <3>2
  <2>2. CASE k > i
    BY <1>4, <2>2
  <2> QED
    BY <2>1, <2>2
<1>8. CASE beaten = {}
  <2>1. new = top
    BY <1>8 DEF Insert
  <2>2. i >= K
    <3> SUFFICES ASSUME i < K PROVE FALSE
      OBVIOUS
    <3>1. i + 1 \in 1..K /\ i + 1 > i
      OBVIOUS
    <3>2. top[i + 1].v = -1
      BY <1>4, <3>1
    <3>3. i + 1 \in beaten
      BY <1>1, <3>1, <3>2
    <3> QED
      BY <1>8, <3>3
  <2>3. row.v <= top[K].v
    <3>1. K \notin beaten
      BY <1>8
    <3> HIDE DEF row
    <3> QED
      BY <1>1, <1>2, <3>1
  <2> HIDE DEF row, new, beaten
  <2>4. TopOwn(top, i + 1, scores, K)
    <3>1. \A k \in 1..K : k <= i + 1 => top[k].id \in 1..i+1 /\ top[k].v = scores[top[k].id]
      <4> SUFFICES ASSUME NEW k \in 1..K PROVE top[k].id \in 1..i+1 /\ top[k].v = scores[top[k].id]
        OBVIOUS
      <4>1. k <= i
        BY <2>2
      <4>2. top[k].id \in 1..i /\ top[k].v = scores[top[k].id]
        BY <1>3, <4>1
      <4> QED
        BY <4>2
    <3>2. \A k \in 1..K : ~(k > i + 1)
      BY <2>2
    <3> QED
      BY <3>1, <3>2 DEF TopOwn
  <2>5. TopOrdered(top, i + 1, K)
    <3>1. \A k \in 1..K : k <= i
      BY <2>2
    <3> QED
      BY <1>5, <3>1 DEF TopOrdered
  <2>6. TopKept(top, i + 1, scores, K)
    <3>1. \A c \in 1..i+1 : c \in 1..i \/ c = i + 1
      OBVIOUS
    <3>2. scores[i + 1] <= top[K].v
      BY <1>1, <2>3
    <3> QED
      BY <1>6, <3>1, <3>2 DEF TopKept
  <2>7. TopSoFar(top, i + 1, scores, K)
    BY <2>4, <2>5, <2>6 DEF TopSoFar
  <2> QED
    BY <2>1, <2>7 DEF new, row
<1>9. CASE beaten # {}
  <2> DEFINE at == Min(beaten)
  <2>1. at \in beaten /\ \A k \in beaten : at <= k
    <3>1. beaten \in SUBSET Nat
      OBVIOUS
    <3> HIDE DEF beaten
    <3> QED
      BY <1>9, <3>1, LeastNat
  <2>2. new = [k \in 1..K |-> IF k < at THEN top[k] ELSE IF k = at THEN row ELSE top[k - 1]]
    BY <1>9 DEF Insert
  <2> HIDE DEF at, new, row
  <2>3. at \in 1..K /\ row.v > top[at].v
    BY <2>1
  <2>4. ASSUME NEW k \in 1..K, k < at PROVE row.v <= top[k].v
    <3>1. k \notin beaten
      BY <2>1, <2>3, <2>4
    <3>2. ~(row.v > top[k].v)
      BY <3>1
    <3>3. row.v \in Int /\ top[k].v \in Int
      BY <1>1, <1>2
    <3> QED
      BY <3>2, <3>3
  <2> HIDE DEF beaten
  <2>5. at <= i + 1
    <3> SUFFICES ASSUME at > i + 1 PROVE FALSE
      BY <2>3
    <3>1. i + 1 \in 1..K /\ i + 1 > i /\ i + 1 < at
      BY <2>3
    <3>2. top[i + 1].v = -1
      BY <1>4, <3>1
    <3>3. row.v <= top[i + 1].v
      BY <2>4, <3>1
    <3> QED
      BY <1>1, <3>2, <3>3
  <2>6. \A k \in 1..K : k < at => new[k] = top[k]
    BY <2>2
  <2>7. new[at] = row
    BY <2>2, <2>3
  <2>8. \A k \in 1..K : k > at => new[k] = top[k - 1] /\ k - 1 \in 1..K
    BY <2>2, <2>3
  <2>9. TopTyped(new, K)
    <3>1. ASSUME NEW k \in 1..K PROVE new[k] \in [v : Int, id : Int]
      <4>1. CASE k < at
        BY <1>2, <2>6, <4>1
      <4>2. CASE k = at
        BY <1>1, <2>7, <4>2
      <4>3. CASE k > at
        BY <1>2, <2>8, <4>3
      <4> QED
        BY <2>3, <4>1, <4>2, <4>3
    <3>2. new = [k \in 1..K |-> new[k]]
      BY <2>2
    <3> QED
      BY <3>1, <3>2 DEF TopTyped
  <2>10. ASSUME NEW k \in 1..K, k <= i + 1
         PROVE  new[k].id \in 1..i+1 /\ new[k].v = scores[new[k].id]
    <3>1. CASE k < at
      <4>1. new[k] = top[k] /\ k <= i
        BY <2>3, <2>5, <2>6, <3>1
      <4>2. top[k].id \in 1..i /\ top[k].v = scores[top[k].id]
        BY <1>3, <4>1
      <4> QED
        BY <4>1, <4>2
    <3>2. CASE k = at
      <4>1. row.id \in 1..i+1 /\ row.v = scores[row.id]
        BY <1>1
      <4> QED
        BY <2>7, <3>2, <4>1
    <3>3. CASE k > at
      <4>1. new[k] = top[k - 1] /\ k - 1 \in 1..K /\ k - 1 <= i
        BY <2>8, <2>10, <3>3
      <4>2. top[k - 1].id \in 1..i /\ top[k - 1].v = scores[top[k - 1].id]
        BY <1>3, <4>1
      <4> QED
        BY <4>1, <4>2
    <3> QED
      BY <2>3, <3>1, <3>2, <3>3
  <2>11. ASSUME NEW k \in 1..K, k > i + 1
         PROVE  new[k].id = -1 /\ new[k].v = -1
    <3>1. k > at /\ k - 1 > i
      BY <2>3, <2>5, <2>11
    <3>2. new[k] = top[k - 1] /\ k - 1 \in 1..K
      BY <2>8, <3>1
    <3> QED
      BY <1>4, <3>1, <3>2
  <2>12. TopOwn(new, i + 1, scores, K)
    BY <2>10, <2>11 DEF TopOwn
  <2>13. ASSUME NEW j \in 1..K, NEW k \in 1..K, j < k, k <= i + 1
         PROVE  Beats(new[j], new[k])
    <3>1. CASE k < at
      <4>1. j < at /\ k <= i
        BY <2>3, <2>5, <2>13, <3>1
      <4>2. new[j] = top[j] /\ new[k] = top[k]
        BY <2>6, <3>1, <4>1
      <4> QED
        BY <1>5, <2>13, <4>1, <4>2
    <3>2. CASE k = at
      <4>1. new[j] = top[j] /\ new[k] = row /\ j <= i /\ j < at
        BY <2>3, <2>5, <2>6, <2>7, <2>13, <3>2
      <4>2. row.v <= top[j].v /\ top[j].id \in 1..i
        BY <1>3, <2>4, <4>1
      <4>3. Beats(top[j], row)
        <5>1. top[j].v \in Int /\ row.v \in Int /\ row.v <= top[j].v
          BY <1>1, <1>2, <4>2
        <5>2. top[j].id < row.id
          <6>1. row.id = i + 1 /\ top[j].id \in 1..i
            BY <1>1, <4>2
          <6> QED
            BY <6>1
        <5> QED
          BY <5>1, <5>2 DEF Beats
      <4> QED
        BY <4>1, <4>3
    <3>3. CASE k > at
      <4>1. new[k] = top[k - 1] /\ k - 1 \in 1..K /\ k - 1 <= i /\ at <= k - 1
        BY <2>3, <2>8, <2>13, <3>3
      <4>2. CASE j < at
        <5>1. new[j] = top[j]
          BY <2>6, <4>2
        <5>2. j < k - 1
          BY <2>3, <4>1, <4>2
        <5> QED
          BY <1>5, <4>1, <5>1, <5>2
      <4>3. CASE j = at
        <5>1. top[k - 1].v <= top[at].v
          <6>1. CASE at = k - 1
            BY <1>2, <2>3, <6>1
          <6>2. CASE at < k - 1
            <7>1. Beats(top[at], top[k - 1])
              BY <1>5, <2>3, <4>1, <6>2
            <7>2. top[at].v \in Int /\ top[k - 1].v \in Int
              BY <1>2, <2>3, <4>1
            <7> QED
              BY <7>1, <7>2 DEF Beats
          <6> QED
            BY <2>3, <4>1, <6>1, <6>2
        <5>2. top[at].v \in Int /\ top[k - 1].v \in Int
          BY <1>2, <2>3, <4>1
        <5>3. row.v > top[k - 1].v
          BY <1>1, <2>3, <5>1, <5>2
        <5> QED
          BY <2>7, <4>1, <4>3, <5>3 DEF Beats
      <4>4. CASE j > at
        <5>1. new[j] = top[j - 1] /\ j - 1 \in 1..K /\ j - 1 < k - 1
          BY <2>8, <2>13, <4>4
        <5> QED
          BY <1>5, <4>1, <5>1
      <4> QED
        BY <2>3, <4>2, <4>3, <4>4
    <3> QED
      BY <2>3, <3>1, <3>2, <3>3
  <2>14. TopOrdered(new, i + 1, K)
    BY <2>13 DEF TopOrdered
  <2>15. top[K].v <= new[K].v /\ top[K].v \in Int /\ new[K].v \in Int
    <3>1. K \in 1..K /\ top[K].v \in Int /\ new[K].v \in Int
      BY <1>2, <2>9 DEF TopTyped
    <3>2. CASE at = K
      BY <1>1, <2>3, <2>7, <3>1, <3>2
    <3>3. CASE at < K
      <4>1. new[K] = top[K - 1] /\ K - 1 \in 1..K
        BY <2>3, <2>8, <3>3, <3>1
      <4>0. top[K - 1].v \in Int
        BY <1>2, <4>1
      <4>2. CASE i < K
        <5>1. top[K].v = -1 /\ top[K - 1].v >= -1
          BY <1>4, <1>7, <3>1, <4>1, <4>2
        <5> QED
          BY <3>1, <4>1, <4>0, <5>1
      <4>3. CASE i >= K
        <5>1. Beats(top[K - 1], top[K])
          BY <1>5, <3>1, <4>1, <4>3
        <5> QED
          BY <3>1, <4>1, <4>0, <5>1 DEF Beats
      <4> QED
        BY <4>2, <4>3
    <3> QED
      BY <2>3, <3>2, <3>3, <3>1
  <2>16. ASSUME NEW c \in 1..i+1
         PROVE  (\E k \in 1..K : new[k].id = c) \/ scores[c] <= new[K].v
    <3>1. CASE c = i + 1
      <4>1. new[at].id = c
        BY <1>1, <2>7, <3>1
      <4> QED
        BY <2>3, <4>1
    <3>2. CASE c # i + 1
      <4>1. c \in 1..i
        BY <3>2
      <4>2. CASE scores[c] <= top[K].v
        <5>1. scores[c] \in Int
          BY <4>1
        <5> QED
          BY <2>15, <4>2, <5>1
      <4>3. ASSUME NEW k \in 1..K, top[k].id = c
            PROVE  (\E m \in 1..K : new[m].id = c) \/ scores[c] <= new[K].v
        <5>1. CASE k < at
          BY <2>6, <4>3, <5>1
        <5>2. CASE k >= at /\ k < K
          <6>1. k + 1 \in 1..K /\ k + 1 > at /\ (k + 1) - 1 = k
            BY <2>3, <5>2
          <6>2. new[k + 1] = top[k]
            BY <2>8, <6>1
          <6> QED
            BY <4>3, <6>1, <6>2
        <5>3. CASE k = K
          <6>1. k <= i
            <7>1. ~(k > i)
              BY <1>4, <4>1, <4>3
            <7> QED
              BY <7>1
          <6>2. scores[c] = top[K].v
            BY <1>3, <4>3, <5>3, <6>1
          <6> QED
            BY <2>15, <6>2
        <5> QED
          BY <2>3, <5>1, <5>2, <5>3
      <4> QED
        BY <1>6, <4>1, <4>2, <4>3
    <3> QED
      BY <3>1, <3>2
  <2>17. TopKept(new, i + 1, scores, K)
    BY <2>16 DEF TopKept
  <2>18. TopSoFar(new, i + 1, scores, K)
    BY <2>9, <2>12, <2>14, <2>17 DEF TopSoFar
  <2> QED
    BY <2>18 DEF new, row
<1> QED
  BY <1>8, <1>9

\* Insert returns K entries for K entries.
LEMMA InsertTyped ==
    ASSUME NEW K \in Nat \ {0}, NEW top, TopTyped(top, K), NEW row \in [v : Int, id : Int]
    PROVE  TopTyped(Insert(top, K, row), K)
<1> DEFINE beaten == {k \in 1..K : row.v > top[k].v}
           new == Insert(top, K, row)
<1>1. CASE beaten = {}
  BY <1>1 DEF Insert
<1>2. CASE beaten # {}
  <2> DEFINE at == Min(beaten)
  <2>1. at \in beaten
    <3>1. beaten \in SUBSET Nat
      OBVIOUS
    <3> HIDE DEF beaten
    <3> QED
      BY <1>2, <3>1, LeastNat
  <2>2. new = [k \in 1..K |-> IF k < at THEN top[k] ELSE IF k = at THEN row ELSE top[k - 1]]
    BY <1>2 DEF Insert
  <2>3. at \in 1..K
    BY <2>1
  <2> HIDE DEF at, new, beaten
  <2>4. ASSUME NEW k \in 1..K
        PROVE  (IF k < at THEN top[k] ELSE IF k = at THEN row ELSE top[k - 1]) \in [v : Int, id : Int]
    <3>1. \A j \in 1..K : top[j] \in [v : Int, id : Int]
      BY DEF TopTyped
    <3>2. k < at \/ k = at \/ (~(k < at) /\ k # at /\ k - 1 \in 1..K)
      BY <2>3
    <3> QED
      BY <3>1, <3>2
  <2>5. new \in [1..K -> [v : Int, id : Int]]
    BY <2>2, <2>4
  <2> QED
    BY <2>5 DEF new, TopTyped
<1> QED
  BY <1>1, <1>2

\* Sampling (sample_softmax) keeps exactly the K best tokens, for any number of tokens and
\* any scores above the -1 that marks an empty place, as exponentials are.
THEOREM SampleAlwaysBest ==
    ASSUME NEW n \in Nat, NEW K \in Nat \ {0}, K <= n,
           NEW scores \in [1..n -> Int], \A c \in 1..n : scores[c] > -1
    PROVE  SampleBest(scores, K)
<1> DEFINE none == [m \in 1..K |-> [id |-> -1, v |-> -1]]
           Row(i) == [id |-> i, v |-> scores[i]]
           X == [1..K -> [v : Int, id : Int]]
           Step == [i \in 1..n |-> [p \in X |-> Insert(p, K, Row(i))]]
           Is(f) == f = [i \in 0..n |-> IF i = 0 THEN none ELSE Insert(f[i - 1], K, Row(i))]
           Top == CHOOSE top : top = [i \in 0..Len(scores) |->
                     IF i = 0 THEN [m \in 1..K |-> [id |-> -1, v |-> -1]]
                     ELSE Insert(top[i - 1], K, [id |-> i, v |-> scores[i]])]
<1>1. Len(scores) = n
  OBVIOUS
<1>2. TopK(scores, K) = Top[n]
  BY <1>1 DEF TopK
<1>3. none \in X
  OBVIOUS
<1>4. \A i \in 1..n : Row(i) \in [v : Int, id : Int]
  OBVIOUS
<1>5. Step \in [1..n -> [X -> X]]
  <2>1. ASSUME NEW i \in 1..n, NEW p \in X PROVE Insert(p, K, Row(i)) \in X
    <3>1. TopTyped(p, K)
      BY DEF TopTyped
    <3>2. TopTyped(Insert(p, K, Row(i)), K)
      BY <1>4, <3>1, InsertTyped
    <3> QED
      BY <3>2 DEF TopTyped
  <2> HIDE DEF X
  <2> QED
    BY <2>1
<1> HIDE DEF none
<1>6. \E f : Is(f)
  <2>1. PICK f \in [0..n -> X] : f[0] = none /\ \A i \in 1..n : f[i] = Step[i][f[i - 1]]
    <3>1. none \in X /\ LoopBody(n, X, Step)
      BY <1>3, <1>5 DEF LoopBody
    <3> HIDE DEF Step, X
    <3>2. HasLoop(n, X, none, Step)
      BY <3>1, LoopExists
    <3> QED
      BY <3>2 DEF HasLoop
  <2>2. ASSUME NEW i \in 1..n
        PROVE  f[i] = Insert(f[i - 1], K, Row(i))
    <3>1. f[i - 1] \in X
      <4> HIDE DEF X
      <4> QED
        OBVIOUS
    <3>2. Step[i][f[i - 1]] = Insert(f[i - 1], K, Row(i))
      BY <3>1
    <3> QED
      BY <2>1, <3>2
  <2> DEFINE u == [i \in 0..n |-> IF i = 0 THEN none ELSE Insert(f[i - 1], K, Row(i))]
  <2>3. \A i \in 0..n : u[i] = f[i]
    BY <2>1, <2>2
  <2>4. DOMAIN u = 0..n /\ DOMAIN f = 0..n /\ f = [i \in 0..n |-> f[i]] /\ u = [i \in 0..n |-> u[i]]
    OBVIOUS
  <2>5. f = u
    BY <2>3, <2>4
  <2> QED
    BY <2>5
<1>7. Is(Top)
  BY <1>1, <1>6 DEF none
<1>8. Top[0] = none /\ \A i \in 1..n : Top[i] = Insert(Top[i - 1], K, Row(i))
  <2> HIDE DEF Top
  <2> QED
    BY <1>7
<1> HIDE DEF Top
<1> DEFINE G == {i \in Nat : i <= n => TopSoFar(Top[i], i, scores, K)}
<1>9. 0 \in G
  BY <1>8, <1>3 DEF TopSoFar, TopTyped, TopOwn, TopOrdered, TopKept, none
<1>10. ASSUME NEW i \in Nat, i \in G PROVE i + 1 \in G
  <2> SUFFICES ASSUME i + 1 <= n PROVE TopSoFar(Top[i + 1], i + 1, scores, K)
    OBVIOUS
  <2>1. TopSoFar(Top[i], i, scores, K) /\ i < n
    BY <1>10
  <2>2. i + 1 \in 1..n /\ (i + 1) - 1 = i
    OBVIOUS
  <2>3. Top[i + 1] = Insert(Top[i], K, Row(i + 1))
    BY <1>8, <2>2
  <2> QED
    BY <2>1, <2>3, InsertKeeps
<1> HIDE DEF G
<1>11. \A i \in Nat : i \in G
  BY <1>9, <1>10, SetInduction
<1> DEFINE top == Top[n]
<1>12. TopSoFar(top, n, scores, K)
  BY <1>11 DEF G
<1> HIDE DEF top
<1>13. \A j \in 1..K : j <= n
  OBVIOUS
<1>14. \A j \in 1..K : top[j].id \in 1..n /\ top[j].v = scores[top[j].id] /\ top[j].v \in Int
  BY <1>12, <1>13 DEF TopSoFar, TopOwn, TopTyped
<1>15. \A j, k \in 1..K : j < k => Beats(top[j], top[k])
  BY <1>12, <1>13 DEF TopSoFar, TopOrdered
<1>16. \A c \in 1..n : (\E j \in 1..K : top[j].id = c) \/ scores[c] <= top[K].v
  BY <1>12 DEF TopSoFar, TopKept
<1> DEFINE s == {top[j].id : j \in 1..K}
<1>17. sample_softmax(scores, K) = s
  <2>1. TopK(scores, K) = top
    BY <1>2 DEF top
  <2>2. \A j \in 1..K : top[j].id # -1
    BY <1>14
  <2> QED
    BY <2>1, <2>2 DEF sample_softmax
<1>18. Cardinality(s) = K
  <2> DEFINE ids == [j \in 1..K |-> top[j].id]
  <2>1. ids \in Surjection(1..K, s)
    BY DEF Surjection
  <2>2. ASSUME NEW j \in 1..K, NEW k \in 1..K, ids[j] = ids[k] PROVE j = k
    <3>1. ASSUME NEW a \in 1..K, NEW b \in 1..K, a < b, top[a].id = top[b].id PROVE FALSE
      <4>1. Beats(top[a], top[b]) /\ top[a].v = top[b].v /\ top[a].id \in Int
        BY <1>14, <1>15, <3>1
      <4>2. top[a].v \in Int /\ top[b].v \in Int /\ top[a].id \in Int /\ top[b].id \in Int
        BY <1>14
      <4> QED
        BY <3>1, <4>1, <4>2 DEF Beats
    <3>2. top[j].id = top[k].id
      BY <2>2
    <3> QED
      BY <3>1, <3>2
  <2>3. IsFiniteSet(1..K) /\ Cardinality(1..K) = K
    <3>1. 1 \in Int /\ K \in Int /\ ~(1 > K) /\ K - 1 + 1 = K
      OBVIOUS
    <3> QED
      BY <3>1, FS_Interval
  <2> HIDE DEF s
  <2>4. ids \in Bijection(1..K, s)
    BY <2>1, <2>2 DEF Bijection, Injection, Surjection, IsInjective
  <2> HIDE DEF ids
  <2> QED
    BY <2>3, <2>4, FS_Bijection DEF ExistsBijection
<1>19. ASSUME NEW c \in s, NEW d \in 1..n PROVE c \in 1..n /\ (d \in s \/ scores[c] >= scores[d])
  <2>1. PICK j \in 1..K : c = top[j].id
    OBVIOUS
  <2>2. K \in 1..K /\ top[j].v \in Int /\ top[K].v \in Int /\ scores[c] = top[j].v /\ c \in 1..n
    BY <1>14, <2>1
  <2>3. top[j].v >= top[K].v
    <3>1. j = K \/ Beats(top[j], top[K])
      BY <1>15, <2>2
    <3> QED
      BY <2>2, <3>1 DEF Beats
  <2>4. d \in s \/ scores[d] <= top[K].v
    BY <1>16
  <2>5. scores[d] \in Int
    OBVIOUS
  <2> HIDE DEF s
  <2> QED
    BY <2>2, <2>3, <2>4, <2>5
<1>20. DOMAIN scores = 1..n
  OBVIOUS
<1> HIDE DEF s
<1> QED
  BY <1>17, <1>18, <1>19, <1>20 DEF SampleBest

\* Greedy choice (sample_argmax) finds the first of the best tokens, for any number of tokens and any scores.
THEOREM GreedyAlwaysBest ==
    ASSUME NEW n \in Nat \ {0}, NEW scores \in [1..n -> Int]
    PROVE  GreedyBest(scores)
<1> DEFINE X == 1..n
           Step == [i \in 1..n |-> [p \in X |-> Better(scores, p, i)]]
           Is(f) == f = [i \in 0..n |-> IF i = 0 THEN 1 ELSE Better(scores, f[i - 1], i)]
           Best == CHOOSE best : best = [i \in 0..Len(scores) |-> IF i = 0 THEN 1 ELSE Better(scores, best[i - 1], i)]
<1>1. Len(scores) = n
  OBVIOUS
<1>2. sample_argmax(scores) = Best[n]
  BY <1>1 DEF sample_argmax
<1>3. Step \in [1..n -> [X -> X]]
  BY DEF Better
<1>4. \E f : Is(f)
  <2>1. PICK f \in [0..n -> X] : f[0] = 1 /\ \A i \in 1..n : f[i] = Step[i][f[i - 1]]
    <3>0. 1 \in X
      OBVIOUS
    <3> HIDE DEF Step, X
    <3>1. LoopBody(n, X, Step)
      BY <1>3 DEF LoopBody
    <3>2. HasLoop(n, X, 1, Step)
      BY <3>0, <3>1, LoopExists
    <3> QED
      BY <3>2 DEF HasLoop
  <2>2. ASSUME NEW i \in 1..n PROVE f[i] = Better(scores, f[i - 1], i)
    <3>1. f[i - 1] \in X
      <4> HIDE DEF X
      <4> QED
        OBVIOUS
    <3>2. Step[i][f[i - 1]] = Better(scores, f[i - 1], i)
      BY <3>1
    <3> QED
      BY <2>1, <3>2
  <2> DEFINE u == [i \in 0..n |-> IF i = 0 THEN 1 ELSE Better(scores, f[i - 1], i)]
  <2>3. \A i \in 0..n : u[i] = f[i]
    BY <2>1, <2>2
  <2>4. DOMAIN u = 0..n /\ DOMAIN f = 0..n /\ f = [i \in 0..n |-> f[i]] /\ u = [i \in 0..n |-> u[i]]
    OBVIOUS
  <2>5. f = u
    BY <2>3, <2>4
  <2> QED
    BY <2>5
<1>5. Is(Best)
  BY <1>1, <1>4
<1>6. Best[0] = 1 /\ \A i \in 1..n : Best[i] = Better(scores, Best[i - 1], i)
  <2> HIDE DEF Best
  <2> QED
    BY <1>5
<1> HIDE DEF Best
<1> DEFINE Foremost(b, i) == b \in 1..n /\ \A k \in 1..i : scores[k] < scores[b] \/ (scores[k] = scores[b] /\ b <= k)
           G == {i \in Nat : i <= n => /\ Foremost(Best[i], i)
                                       /\ Best[i] <= i \/ Best[i] = 1}
<1>7. 0 \in G
  BY <1>6
<1>8. ASSUME NEW i \in Nat, i \in G PROVE i + 1 \in G
  <2> SUFFICES ASSUME i + 1 <= n
               PROVE  Foremost(Best[i + 1], i + 1) /\ (Best[i + 1] <= i + 1 \/ Best[i + 1] = 1)
    OBVIOUS
  <2> DEFINE b == Best[i]
  <2>1. b \in 1..n /\ Foremost(b, i) /\ (b <= i \/ b = 1)
    BY <1>8
  <2>2. i + 1 \in 1..n /\ (i + 1) - 1 = i
    OBVIOUS
  <2>3. Best[i + 1] = IF scores[i + 1] > scores[b] THEN i + 1 ELSE b
    BY <1>6, <2>2 DEF Better
  <2> HIDE DEF b
  <2>4. \A k \in 1..i+1 : k \in 1..i \/ k = i + 1
    OBVIOUS
  <2>5. \A k \in 1..n : scores[k] \in Int
    OBVIOUS
  <2>6. CASE scores[i + 1] > scores[b]
    <3>1. \A k \in 1..i : k \in 1..n /\ scores[k] < scores[i + 1]
      BY <2>1, <2>2, <2>5, <2>6
    <3> QED
      BY <2>2, <2>3, <2>4, <2>6, <3>1
  <2>7. CASE ~(scores[i + 1] > scores[b])
    <3>1. scores[i + 1] < scores[b] \/ (scores[i + 1] = scores[b] /\ b <= i + 1)
      BY <2>1, <2>2, <2>5, <2>7
    <3> QED
      BY <2>1, <2>3, <2>4, <2>7, <3>1
  <2> QED
    BY <2>6, <2>7
<1>9. n \in G
  <2> HIDE DEF G
  <2> QED
    BY <1>7, <1>8, SetInduction
<1>10. DOMAIN scores = 1..n
  OBVIOUS
<1> QED
  BY <1>2, <1>9, <1>10 DEF GreedyBest

\* The token chosen is always one the scores allow, by greedy choice and by sampling.
THEOREM TokensAlwaysPicked == Spec => []TokensPicked
<1>1. ASSUME NEW scores \in [1..5 -> 0..2] PROVE GreedyBest(scores)
  <2>1. scores \in [1..5 -> Int] /\ 5 \in Nat \ {0}
    OBVIOUS
  <2> QED
    BY <2>1, GreedyAlwaysBest
<1>2. ASSUME NEW scores \in [1..5 -> 0..2], NEW k \in 1..3 PROVE SampleBest(scores, k)
  <2>1. scores \in [1..5 -> Int] /\ \A c \in 1..5 : scores[c] > -1
    OBVIOUS
  <2>2. k \in Nat \ {0} /\ k <= 5 /\ 5 \in Nat
    OBVIOUS
  <2> QED
    BY <2>1, <2>2, SampleAlwaysBest
<1>3. TokensPicked
  BY <1>1, <1>2 DEF TokensPicked
<1> QED
  BY <1>3, PTL
=============================================================================
