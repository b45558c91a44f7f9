------------------------------ MODULE SmolPool ------------------------------
(* The pool of the SmolLM2 engine from main's first line to its last: how the   *)
(* 24 MB of ION are divided between the slots of the layers, the embedding and  *)
(* the keys and values, where a row or a chunk of the embedding is taken from   *)
(* before and after pool_ion_expand_for_batch, and the loop of prompt chunks    *)
(* and decode steps that fills the cache.  Sizes are the real ones in bytes; a  *)
(* byte of the embedding is its offset in embed.i8.  What a pass computes is in *)
(* SmolForward, TpuBatch and LmHead.                                            *)
EXTENDS Integers, Sequences, FiniteSets, SequencesExt

CONSTANTS
    Contexts,   \* max_seq, from config.bin or SM_MAX_SEQ
    Files,      \* lengths in tokens of the token file
    News,       \* max_new, the third argument
    CacheKbs,   \* LM_EMB_DDR_KB, None when it is not set
    None
ASSUME SmolPoolAssumption ==
    Contexts \subseteq Nat \ {0} /\ Files \subseteq Nat /\ News \subseteq Nat /\ CacheKbs \ {None} \subseteq Int

D == 576
Dkv == 192
F == 1536
V == 49152
L == 30
MB == 1048576
ION_POOL_SZ == 24 * MB
DDR_POOL_TRY == 12 * MB
DDR_POOL_MIN == 4 * MB
EMBED_DDR_DEFAULT == 2 * MB
ION_MAX_SLOTS == 7
CHUNK_PREFILL == 10
Generated == 256                                \* int generated[256]
ReadUnit == 262144                              \* what one read asks for

VARIABLES
    args,       \* the arguments, environment and files of this run
    pc,         \* where main is
    prompt, max_seq,    \* prompt_len and max_seq as they end up
    ddr, embed_fd, use_mbox,    \* bytes of the embedding in DDR, the open file, the mailbox
    loaded,     \* bytes of it that were read into DDR
    kv_start, per_layer,    \* the cache of keys and values: its offset, bytes per layer and half
    mode, slots,        \* pipeline_mode, ion_n_slots
    expanded, ion_off, ion, \* ion_expanded, embed_ion_offset, embed_ion_bytes
    from, filled,       \* where the read of the ION part began and how far it came
    start,      \* first position of the next pass
    rows,       \* rows of the cache that were written
    n_gen       \* tokens generated
setup == <<args, prompt, max_seq, use_mbox, kv_start, per_layer>>
cache == <<ddr, embed_fd, loaded, expanded, ion_off, ion, from, filled>>
loop == <<start, rows, n_gen>>
vars == <<pc, setup, cache, mode, slots, loop>>

Min2(a, b) == IF a < b THEN a ELSE b
sm_layer_bytes == 2 * (D * 4) + 2 * (D * D) + 2 * (D * Dkv) + 3 * (D * F)
EmbedTotal == D * V
\* C's division cuts towards zero.
Quot(a, b) == IF a >= 0 THEN a \div b ELSE -((-a) \div b)

\* The contexts each way to start the program has room for: at most 255 new tokens, fewer
\* than the context; and slots that end below the keys and values, which nothing checks.
PerLayer(seq) == ((seq * Dkv + 255) \div 256) * 256
Room(e, m) == 2 * m * sm_layer_bytes <= ION_POOL_SZ - 2 * L * PerLayer(Min2(e.seq, e.file + e.new))
Sensible(e) ==
    /\ e.new < e.seq /\ e.new < Generated
    /\ Room(e, IF e.force = 0 THEN 1 ELSE e.force)
    /\ e.kb # None \/ e.new > 100 => e.force = 0       \* fewer combinations
    /\ e.kb # None => e.new <= 100
Args == {e \in [seq : Contexts, file : Files, new : News, force : 0..3, kb : CacheKbs] : Sensible(e)}

Init ==
    /\ args \in Args
    /\ pc = "start" /\ prompt = 0 /\ max_seq = args.seq
    /\ ddr = 0 /\ embed_fd = FALSE /\ use_mbox = FALSE /\ loaded = 0
    /\ kv_start = ION_POOL_SZ /\ per_layer = 0 /\ mode = 0 /\ slots = 0
    /\ expanded = FALSE /\ ion_off = 0 /\ ion = 0 /\ from = 0 /\ filled = 0
    /\ start = 0 /\ rows = {} /\ n_gen = 0

Exit == pc' = "exit" /\ UNCHANGED <<setup, cache, mode, slots, loop>>

-----------------------------------------------------------------------------
(* Setting up *)

\* The prompt is cut so that the answer fits, down to one token.
ReadPrompt ==
    /\ pc = "start"
    /\ LET cut == Min2(args.file, args.seq - args.new)
       IN  prompt' = IF cut < 1 THEN 1 ELSE cut
    /\ pc' = "pool"
    /\ UNCHANGED <<args, max_seq, use_mbox, kv_start, per_layer, cache, mode, slots, loop>>
NoPrompt == pc = "pool" /\ args.file < prompt /\ Exit

\* malloc gives as much DDR as there is in steps of a megabyte, and the cache takes a
\* part of it; a cap that is negative or larger than that is ignored.
ddr_embed_max(got) ==
    LET bytes == Min2(Min2(EmbedTotal, got), EMBED_DDR_DEFAULT)
        cap == args.kb * 1024
    IN  IF args.kb # None /\ cap >= 0 /\ cap < bytes THEN cap ELSE bytes
pool_init ==
    /\ pc = "pool" /\ args.file >= prompt
    /\ \E got \in {DDR_POOL_TRY, DDR_POOL_MIN} : ddr' = ddr_embed_max(got)
    /\ use_mbox' \in BOOLEAN /\ embed_fd' \in BOOLEAN
    /\ slots' = Min2(ION_POOL_SZ \div sm_layer_bytes, ION_MAX_SLOTS)
    /\ pc' = "load"
    /\ UNCHANGED <<args, prompt, max_seq, kv_start, per_layer, loaded, expanded, ion_off, ion, from, filled, mode, loop>>
\* No ION, no DDR, no work buffers, or a file that cannot be read.
SetUpFails == pc \in {"pool", "load", "kv"} /\ Exit

pool_load_embed_and_init_layers ==
    /\ pc = "load"
    /\ loaded' = ddr /\ pc' = "kv"
    /\ UNCHANGED <<setup, ddr, embed_fd, expanded, ion_off, ion, from, filled, mode, slots, loop>>

pool_calc_pipeline_modeBug(free) ==
    LET fit == Quot(free - 2 * MB, sm_layer_bytes)
    IN  IF fit >= 5 THEN 3 ELSE IF fit >= 4 THEN 2 ELSE 1
pool_calc_pipeline_mode(free) ==
    LET fit == Quot(free - 2 * MB, sm_layer_bytes)
    IN  IF fit >= 6 THEN 3 ELSE IF fit >= 4 THEN 2 ELSE 1
sm_kv_alloc_ion ==
    /\ pc = "kv"
    /\ LET seq == Min2(max_seq, prompt + args.new)
           total == 2 * L * PerLayer(seq)
       IN  /\ max_seq' = seq /\ per_layer' = PerLayer(seq)
           /\ kv_start' = ION_POOL_SZ - total
           /\ mode' = IF args.force # 0 THEN args.force ELSE pool_calc_pipeline_mode(ION_POOL_SZ - total)
    /\ kv_start' >= 0
    /\ slots' = 2 * mode' /\ pc' = "prefill"
    /\ UNCHANGED <<args, prompt, use_mbox, cache, loop>>

-----------------------------------------------------------------------------
(* The embedding *)

\* Whole chunks of 1024 rows stay in DDR and as many as fit go to ION; the read of the
\* latter may stop early, or never begin without the file, and is believed to be complete.
Kept == (ddr \div (D * 1024)) * (D * 1024)
IonBytes(m) == Quot(Min2(EmbedTotal - Kept, kv_start - 2 * m * sm_layer_bytes), D * 1024) * (D * 1024)
FillBug ==
    /\ from' = ddr
    /\ filled' \in (IF ion' > 0 /\ embed_fd THEN {0, Min2(ReadUnit, ion'), ion'} ELSE {0})
Fill ==
    /\ from' = Kept
    /\ filled' \in (IF ion' > 0 /\ embed_fd THEN {0, Min2(ReadUnit, ion'), ion'} ELSE {0})
pool_ion_expand_for_batch ==
    IF expanded THEN UNCHANGED <<cache, slots>>
    ELSE /\ slots' = 2 * mode /\ ion_off' = 2 * mode * sm_layer_bytes
         /\ ddr' = Kept /\ ion' = IonBytes(mode) /\ Fill
         /\ expanded' = TRUE /\ UNCHANGED <<embed_fd, loaded>>

\* Which bytes of embed.i8 the row of a token comes from: all of them, or what an earlier
\* use has left in memory.  The card is the last resort, a row of zeroes after that.
pool_get_embed_row(t) ==
    LET off == t * D
    IN  IF off < ddr THEN IF off + D <= loaded THEN off ELSE None
        ELSE IF ion > 0 /\ off < ddr + ion
        THEN IF off - ddr + D <= filled THEN from + (off - ddr) ELSE None
        ELSE off
\* LM_LOAD_CHUNK: a chunk that lies in neither cache is read from the card.
Chunk ==
    LET Fits(c) == c * D * 4 <= slots * sm_layer_bytes
        c == IF use_mbox THEN 2048 ELSE 4096
    IN  IF Fits(c) THEN c ELSE IF Fits(c \div 2) THEN c \div 2 ELSE IF Fits(c \div 4) THEN c \div 4 ELSE 512
LoadChunk(v) ==
    LET off == v * D
        len == D * Min2(Chunk, V - v)
    IN  IF off + len <= ddr THEN off
        ELSE IF ion > 0 /\ off >= ddr /\ off + len <= ddr + ion
        THEN IF off - ddr + len <= filled THEN from + (off - ddr) ELSE None
        ELSE off

-----------------------------------------------------------------------------
(* Passes *)

\* sm_forward_pool looks the rows up, expands the pool and, if all goes well, stores the
\* keys and values of its tokens.
Forward(n) ==
    /\ pool_ion_expand_for_batch
    /\ rows' = rows \cup (start .. start + n - 1)
    /\ start' = start + n
Prefill ==
    /\ pc = "prefill" /\ start < prompt
    /\ Forward(Min2(CHUNK_PREFILL, prompt - start))
    /\ n_gen' = IF start' >= prompt THEN 1 ELSE 0
    /\ pc' = IF start' >= prompt THEN "decode" ELSE "prefill"
    /\ UNCHANGED <<setup, mode>>
DecodeStep ==
    /\ pc = "decode" /\ start - prompt < args.new
    /\ Forward(1)
    /\ \E t \in {"token", "eos", "none"} :          \* what sample_softmax picks
          /\ n_gen' = IF t = "none" THEN n_gen ELSE n_gen + 1
          /\ pc' = IF t = "token" THEN "decode" ELSE "end"
    /\ UNCHANGED <<setup, mode>>
\* A pass fails: a prompt chunk ends the program, a decode step ends the answer.
ForwardFails ==
    /\ pc \in {"prefill", "decode"} /\ (pc = "decode" => start - prompt < args.new)
    /\ pool_ion_expand_for_batch
    /\ pc' = IF pc = "prefill" THEN "exit" ELSE "end"
    /\ UNCHANGED <<setup, mode, loop>>
Enough == pc = "decode" /\ start - prompt = args.new /\ pc' = "end" /\ UNCHANGED <<setup, cache, mode, slots, loop>>

Ended == pc \in {"end", "exit"} /\ UNCHANGED vars
Next == ReadPrompt \/ NoPrompt \/ pool_init \/ SetUpFails \/ pool_load_embed_and_init_layers \/ sm_kv_alloc_ion
          \/ Prefill \/ DecodeStep \/ ForwardFails \/ Enough \/ Ended
Spec == Init /\ [][Next]_vars

-----------------------------------------------------------------------------
(* Choosing a token, from scores in the order of the tokens *)

Better(scores, best, i) == IF scores[i] > scores[best] THEN i ELSE best
sample_argmax(scores) ==
    LET best[i \in 0..Len(scores)] == IF i = 0 THEN 1 ELSE Better(scores, best[i - 1], i)
    IN  best[Len(scores)]
\* A token goes in front of the first it beats, the others move down and the last one out.
InsertBug(top, k, row) ==
    LET beaten == {m \in 1..k : row.v > top[m].v}
    IN  IF beaten = {} THEN top ELSE [top EXCEPT ![Min(beaten)] = row]
Insert(top, k, row) ==
    LET beaten == {m \in 1..k : row.v > top[m].v}
    IN  IF beaten = {} THEN top
        ELSE [m \in 1..k |-> IF m < Min(beaten) THEN top[m] ELSE IF m = Min(beaten) THEN row ELSE top[m - 1]]
TopK(scores, k) ==
    LET top[i \in 0..Len(scores)] ==
            IF i = 0 THEN [m \in 1..k |-> [id |-> -1, v |-> -1]]
            ELSE Insert(top[i - 1], k, [id |-> i, v |-> scores[i]])
    IN  top[Len(scores)]
\* Any of the k best, as the random number falls; their exponentials are positive.
sample_softmax(scores, k) == {TopK(scores, k)[m].id : m \in 1..k} \ {-1}

-----------------------------------------------------------------------------
\* Slots, chunk buffers of the LM head, the embedding in ION and the keys and values keep
\* apart in the 24 MB, in every mode and for every context that Sensible admits; rows and
\* answer stay inside their arrays.  The sizes come from four functions and two
\* environment variables.
MemoryApart ==
    /\ expanded =>
          /\ slots * sm_layer_bytes <= kv_start
          /\ ion > 0 => slots * sm_layer_bytes <= ion_off /\ ion_off + ion <= kv_start
          /\ 4 * D * Chunk <= slots * sm_layer_bytes
    /\ \A r \in rows : (r + 1) * Dkv <= per_layer /\ r < max_seq
    /\ n_gen <= Generated

\* Every row and every chunk taken from a cache is that of its token, before and after the
\* pool is divided.  Two cases are excepted, both as the code has it: the row across the
\* end of the DDR part in the first pass, and what a read that stopped early left out.
Edges == (UNION {{b \div D - 1, b \div D, b \div D + 1} : b \in {0, ddr, ddr + ion, ddr + filled, EmbedTotal}}) \cap (0 .. V - 1)
EmbeddingRight ==
    pc \in {"prefill", "decode"} =>
        /\ \A t \in Edges :
              \/ pool_get_embed_row(t) = t * D
              \/ ~expanded /\ t * D < ddr /\ t * D + D > ddr
              \/ expanded /\ filled < ion /\ t * D + D > ddr + filled
        /\ expanded => \A k \in 0 .. V \div Chunk :
              LET v == k * Chunk IN
              v < V => \/ LoadChunk(v) = v * D
                       \/ filled < ion /\ (v + Chunk) * D > ddr + filled

First == CHOOSE e \in Args : TRUE
\* Greedy choice is the first of the best tokens; sampling keeps to the k best, whatever
\* the scores.
GreedyBest(scores) ==
    LET best == sample_argmax(scores)
    IN  best \in DOMAIN scores /\ \A i \in DOMAIN scores :
            scores[i] < scores[best] \/ (scores[i] = scores[best] /\ best <= i)
SampleBest(scores, k) ==
    LET s == sample_softmax(scores, k)
    IN  Cardinality(s) = k /\ \A i \in s, j \in DOMAIN scores : i \in DOMAIN scores /\ (j \in s \/ scores[i] >= scores[j])
TokensPicked ==
    pc = "start" /\ args = First =>
        \A scores \in [1..5 -> 0..2] : GreedyBest(scores) /\ \A k \in 1..3 : SampleBest(scores, k)
=============================================================================
