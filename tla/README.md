# Verification of tpu_bench: on-device LLM inference on the Milk-V Duo

This directory holds TLA+ models of the inference engines and demos of this
repository, the TLC runs that check them and the TLAPS proofs about them.
Short names used below:

- **Q** = `src/experiments/qwen_onboard/qwen_engine_lmhead2.c`, the Qwen2.5-0.5B engine;
- **S** = `src/smollm2_pool_demo.c`, the SmolLM2-135M engine;
- **D** = `src/smollm2_demo.c`, the SmolLM2 engine S was derived from;
- **TR** = `src/transformer_demo.c`, a small transformer with random weights;
- **mha** = the attention demos `src/mha_*.c`.

Run a model with `tlc -config <run>.cfg <module>`, check the proofs with
`tlapm <module>Proofs.tla`.  `PROJECT.json` maps every definition to its source
lines and lists components, runs, findings, hazards and theorems.

## 1. The system

A CV1800B has 64 MB of memory: Linux gets about 28 MB, an ION heap ("carveout") of
28,102,656 bytes is reserved for the TPU.  Neither model's weights fit, so both engines
read them from the SD card for every token.  All concurrency in the
code exists to hide that time; all the budgeting exists because of the carveout.
A second, small core answers commands from a mailbox (copy, fill, transpose, quantize).
CPU, TPU and second core meet in memory through caches nobody keeps coherent: the
programs flush and invalidate by hand.
The rest of the repository prepares weights, benchmarks the TPU and drives the board.

### Inventory

| Component | State it keeps | Operations | What is hard | What makes it correct |
|---|---|---|---|---|
| Qwen ion_db prefetcher (Q 1144–1411) | request ring, two ION slots with `g_sd_midx`/`g_sd_ready`, bounce buffer, `g_pushed_max`, `g_consumed_max`, failure marks, one mutex, two condition variables | `layer_io_mat`, `ion_topup`, `ion_mat_sync`, `ion_prefetch_thread`, `ion_drain`, shutdown | two threads, unlocked reads, released slots still in use, SD failures, numbers that run on over passes | every matmul reads its own matrix; no slot has two writers; nothing queued is lost; the LM head has the SD card to itself; everything ends |
| Qwen start-up (Q 188–463, 857–1042, 1734–1775, 2197–2649) | handles of the neuron memory, scale cache, slots, centroids, pools; `g_use_merged` | pre-checks, allocations, degradations, clean-ups | a figure checked now and used later, refusals at any step, partial caches | optional caches never cost a start; a forward finds what it uses; every handle is freed once, and what `ion_cleanup_exit` should free is |
| Qwen conversations (Q 1540–1661, 1869–2150, 2462–2620) | KV cache rows and scales, `g_kv_len`, the next token | regression prompts, timed decode, chat in chunks of seven | three attentions over one cache, four limits in four constants | a token attends to its own prefix, of its own conversation and layer; no limit is passed |
| Qwen layer reading (Q 1100–1136, 1415–1539) | mapping, read-ahead target, shutdown flag | mmap, `mmap_th`, pread, `B_PREFETCH` | a flag read without the lock, a slow thread at the end | each layer computes with its own file; the thread is joined |
| Qwen two-pass INT4 matmul (Q 272–492, 527–806) | neuron memory, prebuilt commands, accumulators | `eng_matmul`, `eng_matmul_merged` | a cache on one side, tiles, a shift estimated from a first pass | every tile counted once, with its own operands, fresh, rightly shifted |
| Qwen clustered LM head (Q 1690–1863) | centroids, spans, running five | coarse and exact selection | ties, sentinels, boundaries | the best clusters once each, the best rows in order |
| Watchdogs (Q 213–258, S 66–100) | heartbeat, flag | `wd_start`, `wd_kick`, thread loop | preemption between load and clock read, first heartbeat, creation failure | no live process killed; a hung one ended in bounded time |
| SmolLM2 forward (S 860–922, 1609–1797) | two banks of slots, prefetch job, activations, KV cache | batch loop, `pf_start`, `pf_worker`, `pf_wait`, serial fallback | bank swap while a worker reads, short last batch, failure in the middle | every pass goes through every layer once in order; no worker outlives it |
| SmolLM2 TPU batches (S 320–451, 574–860, D) | neuron memory by byte offset, work buffers, command buffer | `tpu_matmul_build`, `CVI_RT_Submit`, `sm_layer_forward` | commands read their operands later than they were written; buffers that overlap on purpose | operands intact at Submit; nothing overwritten while needed |
| SmolLM2 LM head (S 930–1130, 1821–2060) | two pairs of buffers, worker job, descriptor, mailbox | chunk load, transpose by the second core or the CPU, poll, matmul | three parties on two buffer pairs, timeouts, a dying core | every chunk's logits from its own weights; every pass ends |
| SmolLM2 pool and generate loop (S 1199–1598, 2103–2372) | division of 24 MB of ION: slots, embedding, keys and values | `pool_init`, `pool_ion_expand_for_batch`, `sm_kv_alloc_ion`, row and chunk lookup, prefill, decode | overlapping regions, short reads, modes and overrides | regions apart; a row comes from its own bytes |
| Weight files | sections of a layer file | converters in Python and C, readers in five places | two languages, transposed nibbles, equal sizes of old and new layout | everyone finds every section, nibble and scale |
| Attention demos (mha) | neuron memory, heap, descriptor | pipelines, asynchronous product, commands to the second core | caches, late answers, two batches in turn | each output is the attention over its own batch; where the code has it otherwise (section 4), only in the way written down |
| Earlier engines (TR, D, `qwen_engine_24l.c`, `lh2_noinline.c`) | neuron memory, heap, layer buffers, KV cache | whole generations | buffers reused, strides, caches that may fail | each token is computed from the right layers, rows and weights |
| Vendor runtime, second core's firmware | | `common/tpu_bench.h`, `common/rtos_cmdqu.h` | not in the repository | environments of the models |
| Scripts, micro-benchmarks, probes, emulators | | | | not modelled (section 7) |

### How the components interact

`main` of Q starts the watchdog, takes the carveout step by step (**IonCarveout**), then
runs prompts and decode steps over one KV cache (**QwenChat**).  In the ion_db mode each layer asks for its seven matrices one by
one; **IonPrefetch** answers from the slots; **QwenMatmul** multiplies them.  Before the LM head `ion_drain` stops the
prefetch thread, because the LM head reads the SD card itself.

`main` of S starts its watchdog, divides its ION region (**SmolPool**) and runs forwards: the
layer loop (**SmolForward**) computes from one bank while a worker fills the other; within
it, a layer is a sequence of batches of TPU commands (**TpuBatch**); after the loop the
worker must be gone, because the LM head (**LmHead**) uses the slots as its buffers.
Every loop kicks the heartbeat (**Watchdog**).  The assumptions of one module are the properties of another:

- LmHead assumes nobody writes its buffers: `SmolForward!WorkerJoined`; and that slots, embedding, keys and values are apart: `SmolPool!MemoryApart`;
- TpuBatch and SmolForward assume the rows they start from: `SmolPool!EmbeddingRight`; and TpuBatch's limit of ten rows is SmolPool's chunk (`CHUNK_PREFILL`);
- QwenMatmul multiplies what it is given: `IonPrefetch!OwnBytes`, `Int4Numerics!ConversionsAgree`, `WeightLayout!LayoutAgrees`;
- QwenChat assumes a layer's weights are that layer's: `IonPrefetch!StreamSpec`;
- the Qwen LM head assumes a quiet SD card: `IonPrefetch!HeadQuiet`;
- IonPrefetch and the forwards assume their memory: `IonCarveout!ForwardBacked`;
- a deadlock in any of them is what `Watchdog!HungIsEnded` is there for.

The demos and earlier engines share no state with these; **TpuDemos** composes each of them with
the TPU and the second core.

## 2. Modules

| Module | Models | Theorems in |
|---|---|---|
| `WeightStream` | abstract: matrices of a pass multiplied in order, each with its own bytes, closed between passes; `Safe` without fairness, `Spec` with it | |
| `IonPrefetch` (`MCIonPrefetch`) | the ion_db prefetcher | `IonPrefetchProofs` |
| `IonCarveout` | start-up of Q in the carveout | `IonCarveoutProofs` |
| `QwenChat` | conversations of Q, KV cache, the other ways to read a layer, token choice | `QwenChatProofs` |
| `QwenMatmul` | the matrix products of Q through a cache | `QwenMatmulProofs` |
| `Int4Numerics` | functions: nibbles, the converters' INT4 packing, half precision, the two shifts | |
| `WeightLayout` | functions: who writes and reads what where in a layer file | |
| `Watchdog` | both watchdogs | `SmolForwardProofs` |
| `SmolForward` | pipelined layer loop of S | `SmolForwardProofs` |
| `TpuMemory`, `TpuBatch` | one layer of S and D on the TPU | `TpuBatchProofs` |
| `LmHead` | LM head of S | `LmHeadProofs` |
| `SmolPool` | pool, embedding cache and generate loop of S | `SmolPoolProofs` |
| `TpuTerms` | programs for the TPU as data, and what running an instruction does to memory | |
| `MhaPrograms`, `TransformerProgram`, `SmolDemoProgram`, `QwenPrefillProgram` | the demos and the earlier engines as such programs | |
| `TpuDemos` | running them: CPU, TPU, mailbox, second core, failures | |

Operators named `...Bug` are plausible mistakes in a definition next to them.  No
specification uses them: each shows that some property notices the mistake.

### IonPrefetch

*State.* One variable per global of the code, with the code's name
(`sdMidx` = `g_sd_midx`, `pushed` = `g_pushed_max`, ...).  The ring is a sequence, a slot's memory holds which chunk of which matrix was copied
there last, the bounce buffer one such chunk.  `reqWait` and `doneWait` are the threads
blocked on the two condition variables.  `stream` is a history variable.

*Steps.* What a thread does while it holds `g_ion_mtx` is one action.  `open`, each
`pread` into the bounce buffer and each `memcpy` out of it run without the lock and are
actions of their own, which is where the races are.  A `pread` of a matrix larger than the bounce buffer is a
loop (`Chunks`).  `FetchCold`, `FetchPipelined`, `AwaitWoken`, `ClaimWoken`, `Sync...` are `layer_io_mat` and
`ion_mat_sync`; `Sd...` is the prefetch thread; `Drain`, `NextForward`, `Shutdown`, `Join` are the rest of `main`'s part.
A prompt forward multiplies a matrix right after fetching it; a decode forward fetches up and gate
and multiplies both afterwards, as `run_decode_step` does.

*Left out.* Spurious wake-ups (every wait is in a loop that evaluates its condition again; allowing them would
only hide wake-ups the code loses).  The test of `g_ion_shutdown` in the waits of
the main thread: only the main thread sets the flag.  Timing statistics.

*Properties.* `BitExact` (the bytes a matmul reads; decode steps break it), `OwnBytes` (what holds of both kinds of forward: every matmul but that of up in a decode step, until a read fails), `SlotExclusive`, `NothingLost`, `QueueInOrder`, `HeadQuiet`,
`Terminates`, and `StreamSpec`: with `served`, `bytes` and `open` mapped to the history and the
shutdown flag, the prefetcher implements `WeightStream!Spec`, fairness included.  `AwaitAnswered` is stated and does not hold (section 4).

### IonCarveout

*State.* How many bytes this process holds for what (`held`), which of them its handles name (`handles`: a handle is `NULL` where that is 0), how many others hold, the flags that choose a
path, how many layers' scales are in ION and how many are mapped.  Sizes are real byte counts.

*Steps.* One action per allocation in the order of `main`.  A pre-check (`Short`) knows the free figure only
if debugfs can be read (`ion_carveout_free` returns -1 otherwise, and every check passes).  An allocation is
refused when there is no room, and, as a *fault*, in spite of room: the heap may be fragmented
and another process may come between check and allocation.  `OthersMove` lets others take and give back memory at any time.
`CleanupExit` is the guarded frees of `ion_cleanup_exit`, one per handle: a handle somebody forgot to clear is freed again (`stale`), memory whose handle was lost stays held.  The loaders of the scales free and clear theirs when a read fails, and
the exits for want of the pools (`PoolsExit`, Q 2356 and 2371) free the neuron memory and the pools and nothing else.

*Sizes.* `Pool` (142,336) and `Mp` (266,240) come from the measurement the code quotes (Q 2339: pools 1.70 MB, merged pool
0.26 MB); `EstimateAssumption` is what the code's estimates rely on, `SizeAssumption` that sizes are numbers and that the scales kept in ION with ion_db are of some layers and not of all,
and `BudgetAssumption` is the budget of the comment above `GSC_ION_LAYERS` (Q 188), which only `CleanStart` needs.

*Observation.* In the ion_db mode the merged pool is always given up: 2,981,888 bytes remain before the
pools, and pools and merged pool are estimated at 3,145,728.

### QwenChat

*State.* `env` holds the environment variables that choose the path.  A hidden state is which token of which conversation it belongs
to and how many layers it has been through; a row of the cache, whose key it is, at which rotation, of which layer.  `todo` is what is left of a prompt's chunks and of
the decode steps `main` has counted out.  `seen` is what the attention of the layer just computed looked at.

*Steps.* `StartDecode` and `StartChat` are the branches of `main`, with the limits they check; `StartPass` is the head of `run_prompt` or `run_decode_step`, `LayerBegin` and
`Issue` are `layer_io_begin` (the read of `g_pf_target` without the lock is in the first, the store under it in the second), `PromptLayer` and `DecodeLayer` a layer with whichever of the three
attentions the code takes, `LmHead2` the choice of the token.  `Check` and `Readahead` are the thread of `mmap_th`.  `ReadFails` is any `exit(2)`.

*Functions.* `lmhead_stage1` and `lmhead_stage2` are the selections of the clustered head, on scores that are numbers in order.  `HeadPicks` says of short lists
that they end with the best; `ClustersAlwaysBest` and `RowsAlwaysBest` prove it of lists of any length.  A NaN logit is outside the model
(it leaves `best` at -1, and Q 1815 then writes `sc[-1]`).

### QwenMatmul, Int4Numerics, WeightLayout

`QwenMatmul` has memory twice: `dram`, which the TPU sees, and the lines of the CPU's cache, `dirty` or `clean`.  The cache writes a line back or fetches one whenever it likes
(`Evict`, `Fetch`).  Only the code's flushes and invalidations, with the lengths the code gives them, order the two sides.  A command runs tile by tile: it reads its operands, writes its results and its spare area, while the cache lives on; the pools decide for which rows and widths there is one.  `by` names the function that
multiplies: `eng_matmul` has one tile in hand at a time, `eng_matmul_merged` puts the eight of a block into one command.
`acc` records what was added, and whether anything about it was tainted (`TpuMemory`).  The shift is a symbol: the set of tiles seen before it was chosen.

`Int4Numerics` holds the arithmetic as functions: the nibble kernels (scalar and vector), what `int4_common.c` packs and unpacks, four conversions from half precision and two to it, `Int8RoundDiv`, and the choice of both shifts.  `TwoPassBounded`
bounds the error of a product (`TwoPassFits`, for one block of sums), `ConversionsAgree` is the conjunction of what the kernels and conversions owe one another.

*Packing.* `int4_pack` chooses the nibbles by the scale in single precision (`Scale`, a seventh of the largest magnitude, rounded to 24 bits) and stores that scale in half precision; `int4_unpack` multiplies by what it reads back (`float_to_fp16`, `fp16_to_float`).
`PackAgrees` is about that whole way.

*Half precision.* `HalfAgrees` says of each of the 65,536 numbers what each of the six conversions makes of it.  The engine's widening of the scales (Q 287) and the packer's are exact.  The engine's widening of the centroids (`f16_to_f32`, Q 1696) halves every
subnormal, the LUT demo's makes them zero.  The packer's narrowing leaves an eighth of a subnormal (`int4_common.c:20`, three shifts too many), which no scale of a group of INT8 weights is: those are at least a seventh, or 1.  Pass 1 saturates on purpose (its shift is three bits short, Q 565): the bound for those sums is that of clipping.

`WeightLayout` has the layer files as sequences of sections, once per program that writes or reads them, and `LayoutAgrees` compares them all.  What the header of `convert_qwen_kal.py` says of the file is not among them: `layerN_kal` is that file, and `HeaderMisplaces` holds by how much it differs (section 4).  `WeightsFound` is both.

These facts do not depend on the state; `qwen_matmul` evaluates them in its first states.

### Watchdog

Time is discrete and kept as ages, so that states repeat.  A tick may pass
only if no live main thread and no runnable watchdog thread is overdue.  Loading the heartbeat and reading the clock are two steps.  `engine` picks Q (short poll,
first heartbeat before the thread exists) or S (sleeps a whole timeout, first heartbeat by the thread itself).

Two remarks on documents.  `DESIGN_ION_CLEANUP.md:219` expects S to end a hung process within 30 s; as S sleeps a
whole timeout between two checks it may take nearly 60 s, and `HangBounded` states the bound the code has
(timeout + sleep + delays).  The same line suggests `kill -STOP` as a test: that stops the watchdog thread as well,
a case in which no fairness assumption about the thread holds.

### SmolForward

`x` is the sequence of weights the activations have gone through, so that skipped, repeated, misordered
and half-read layers are all visible; `kv` records, for each layer, what its keys and values were computed from.
`Mode` is the number of layers per batch (1 to 3) and the pool has `2 * Mode` slots, as `main` sets them.  The serial loop is entered
only after a failure; `main` never configures fewer slots than the pipeline needs.

### TpuMemory and TpuBatch

`TpuMemory` keeps memory as a set of intact values: a write destroys every value it overlaps, a value computed from one that is no longer
there is tainted, and taint is handed on.  `TpuBatch` is `sm_layer_forward` of S and of D (`engine`) on such a memory: neuron memory and work buffers at their
real offsets and sizes.  Numbers are abstracted to which values a value is computed from.

*Products.* `Products(s)` lists the products of a stage with operands, scratch area and result.  `Build` is `tpu_matmul_build` (copy, queue),
`Submit` is `CVI_RT_Submit` with the copies that follow, `Matmul` is `tpu_matmul`, which does all of it at once.  `Columns` is the tile search.
The remaining actions are the CPU's steps in between, in the order of the code.

*Submit.* The queued commands run in order and read their operands only then, as `common/tpu_bench.h:62` ("Submit accumulated TIU/TDMA commands") and
D 300 ("build matmul cmds into cmdbuf WITHOUT Submit") describe the library, which is not in the repository.
On that reading the KV groups of S share one scratch area (S 707) although they are submitted together, against the comment that it matches D; and
the tiled path of both engines is wrong: all tiles of a product are copied to one place before the one Submit (S 433, D 355).
The model does what the code does; `OperandsHeld` excepts the groups of S, and tiled results are marked *torn*: only the library can tell.

*Limits.* The layout and the tile search work up to exactly 10 tokens and 85 rows of context: `tpu_batch` fails with
`MaxRows` = 11 (`LayerAnswers`: no tile for the down projection) and with `MaxKv` = 86 (`NothingLost`: the values of the last
group destroy the scores of the first).  `README.md:19` and `:271` of the repository promise 156 tokens, to be had through `SM_MAX_SEQ`.
D 1132 says that more than one token does not fit the down projection; by its own tile search ten do.

### LmHead

`src` and `dst` hold the number of the chunk a buffer contains, or `Bad` while it is being written.  The second core
takes a command from a mailbox, reads the descriptor when it does, writes the destination, stores the result;
it may refuse, and it may die at any moment.  The mailbox is the number of commands in it.

Memory is coherent here.  The code is not always careful about that: a cached chunk is handed to the second core without
a flush (S 1889).  A failure of the matmul is left out: its tile search succeeds for every pass size the engine uses.
`short` and `slow` mark the two cases in which the code does produce wrong logits: `ef_wait`'s result is ignored, and
a command given up after a timeout may still be carried out.  The properties except exactly these.

### SmolPool

`main` of S from its arguments to its last token, with sizes in bytes: `args` is a choice of context, token file, `max_new`, forced mode and cache size; an area is an offset into the 24 MB; a byte of the
embedding is its offset in `embed.i8`, so that `pool_get_embed_row` and `LoadChunk` return where a row or a chunk really comes from.  `Fill` is the read of the ION part, which may stop early (S 1470): the code then believes
it complete, and `EmbeddingRight` excepts the rows concerned.  It also excepts, before the pool is divided, the one row that crosses the end of the DDR part (S 1453, S 1523: 64 bytes of it are never loaded).
`Sensible` names the starts that are modelled: fewer than 256 new tokens and fewer than the context (`generated[256]` and the cache are not checked against `max_new`, S 2162), and slots that end below the keys and values
(nothing checks that: mode 1 overlaps for contexts above 1569, mode 3 forced through the environment above 338; `MemoryApart` is therefore about the contexts and modes `Sensible` admits).  `sample_argmax` and `sample_softmax` are functions of a list of scores; the run looks at short lists, the proofs at all.

### TpuTerms, the programs, TpuDemos

A program is a sequence of instructions on byte areas: compute, copy, flush, invalidate, product (through its scratch area, tiled if need be), asynchronous product, wait, read a file, command to the second core, poll.
Memory is a set of areas, each with the *term* that was computed into it, who sees it (`seen`), and what went wrong on the way (`taint`: stale, torn, junk, unread).  Two programs compute the same if they end with the same
terms; a value and its quantization have the same term, which is why a wrong scale is a term of its own (`misscaled`).

`MhaPrograms` writes eight demos as such programs with the layout of `common/mha_descriptor.h`; `TransformerProgram` TR and its `--ref`; `SmolDemoProgram` D; `QwenPrefillProgram` the first two Qwen engines.
`TpuDemos` runs them; the program is part of the state (`demo`), so that a failed preload can replace it, and TLC's `VIEW` keeps only its name, which determines it: the instruction counter is the CPU; an asynchronous product is executed at any moment before it is waited for; the second core takes a command and answers it at any moment, late, or never; commands run as they are
issued, or at Submit only (`deferred`).  `Check` gives a value that is as it should be a name, so that terms stay small; one that is not becomes `wrong`.

What the programs *really* compute was part of writing them down.  A demo's `outs` (`...Outputs`) are the results that are what its own reference computes; its `odd` (`...Odd`) are those that are not, with what they are instead: queries of another batch or of unset memory,
heads in the wrong order, another batch's scale.  `Answers` checks both, so that it says of the odd ones only that keys, values, weights and everything after the queries are right and that nothing *else* is wrong.  Of `pingPong1` it claims only that its weights overlap (`WeightsOverlap`), of `blocks` only which
block is left (`RingInOrder`), of the default prompt of TR that it goes wrong (`PromptSpoilt`).  What the comments promise of these cases is stated at the end of `TpuDemos`, and refuted by TLC (section 4).  After an answer of the second core that came too late (`lapse`) it claims nothing.

## 3. Runs

| Run | Module | Properties | Shows |
|---|---|---|---|
| `ion_prompt` | MCIonPrefetch | TypeOK QueueInOrder HeadQuiet Terminates StreamSpec | prefill without failures is right, ends, implements WeightStream |
| `ion_faults` | MCIonPrefetch | SlotExclusive NothingLost OwnBytes | with failing opens and reads, prefill and decode |
| `ion_decode_race` | MCIonPrefetch | BitExact **violated** | finding: up's slot is overwritten while up is multiplied |
| `ion_carveout` | IonCarveout | CachesYield CleanStart ForwardBacked FreedOnce | start-up in every mode, with every way out |
| `qwen_chat` | QwenChat | AttendsOwnPrefix MemoryHeld HeadPicks Ends | prompts, chunks, decode and chat over one cache, in every read mode |
| `qwen_matmul` | QwenMatmul | MatmulWhole WeightsFound ShiftsBounded KernelsAgree | products through a cache; layouts and arithmetic |
| `watchdog` | Watchdog | NoFalseKill HangBounded HungIsEnded | both watchdogs |
| `smol_forward` | SmolForward | TypeOK ExactUnlessRestarted BankExclusive WorkerJoined PassAnswers | the layer pipeline under every failure |
| `tpu_batch` | TpuBatch | OperandsHeld NothingLost LayerAnswers | both engines' layouts are right up to 10 tokens and 85 rows |
| `lm_head` | LmHead | LogitsExact BufferExclusive WorkerJoined PassEnds | the LM head over every failure |
| `smol_pool` | SmolPool | MemoryApart EmbeddingRight TokensPicked | the pool of S from start to end |
| `tpu_demos` | TpuDemos | Answers Coherent | demos and earlier engines: each output is its reference's, or the deviation written down for it; nothing read from behind a cache |

### Bounds, and why they are enough

- **ion_***: the real `SD_NSLOT` = 2, `SD_QCAP` = 16, `SD_LOOKAHEAD` = 10, `NMAT` = 7.  Two layers instead of 24: 14 matrices
  exceed the lookahead, so that the queue fills, is limited by the lookahead and is limited by the end of the pass, and the file changes once;
  two passes restart the numbering.  The wide matrices need two bounce-buffer loads, the others one.  `ion_faults` has one
  layer and two failures, enough to fail once in each thread or twice in one.
- **ion_carveout**: real sizes.  `Others` holds 0 and both sides of every amount at which some check or allocation changes its answer.  Two failures: one to degrade, one in the path that follows.
- **qwen_chat**: three layers (first, middle, last; a read-ahead of two and of more than there are).  `KvCap` = 17 instead of 192: two whole chunks of seven and a rest, and both sides of every limit in `Headers` and `Steps`; `MaxSeq` = 19, above it as in the code.
  The selections are compared with their definition for every choice of 5 and 7 scores from 3 values.
- **qwen_matmul**: real widths, tiles, offsets and row counts.  Two blocks of 28 or 32: the second begins in the memory, cache and counters the first leaves, and a later one does as the second.  Two products, for the same reason.
  Two lines moved by the cache of its own accord.  Half-precision conversions are compared on all 65,536 numbers, the nibble kernels on all bytes, packing for every largest magnitude and every value up to it, shifts around every multiple of 32 times the largest weight.
- **watchdog**: timeout 6, gap 4, delay 2, so `MaxGap + Delay = Timeout`, the tightest case allowed; a heartbeat never stored is older (30) than any timeout.
- **smol_forward**: three layers per batch, ten layers: four batches, the last of one layer (30 layers have no short batch in
  mode 3; other layer counts have).  Two passes, two failures.
- **tpu_batch**: the real dimensions; every pass of up to 10 tokens (`CHUNK_PREFILL`; D has one) over every context it can meet up to 85, the longest that works (`max_seq` is 64 as shipped).
- **lm_head**: four chunks: first, two middle ones (the pipeline's three stages all busy), last; every division into
  cached and uncached chunks; two passes, since the descriptor and the mailbox survive a pass.
- **smol_pool**: real sizes.  `Contexts` has the shipped 64, both limits at which modes stop fitting (338, 1569) and 2048; `Files` both sides of the chunk of ten and far more than the context; `News` none, some, the most.
- **tpu_demos**: the default sizes of every demo, and one small one each for the paths they miss (one head; no tiles).  Four batches: both areas used twice.  One failure.  Qwen engines: 2 layers of 24, real matrices; D: 8 layers, 7 of them in its layer cache;
  TR: a prompt of four and two tokens after it.  Each demo is nearly sequential, so that almost all 113,914 states are steps of some program.

Deadlock is checked where it can be (`tpu_batch`, `lm_head`, `ion_decode_race`, `ion_carveout`, `ion_prompt`, `qwen_chat` and `smol_pool`, which have an
explicit final step).  It is off in `ion_faults`, where `exit(2)` and the hang of section 4 stop the system;
in `watchdog`, where a process may run unwatched with nothing left to measure; in `smol_forward` and `qwen_matmul`, which stop after their last pass or product; and in `tpu_demos`, whose programs end.

### Fairness

`WF` of each thread's step: POSIX threads are scheduled and a mutex that is free is obtained in the end; SD reads and TPU submits return, possibly
with an error; a second core that is alive answers (`LmHead` only; it may die, and its answer may come after the timeout); time passes (`Watchdog`).
`QwenChat` needs it of the main thread and of the reading thread, which the system schedules as it does any other; failures need none.
The main thread of `Watchdog` has no fairness: it may hang.  The other modules state safety only.

## 4. Findings

One run expects a violation: **decode multiplies a released slot** (Q 2094, `ion_decode_race`, `BitExact`).  Fetching gate releases up's slot, and up is multiplied afterwards; the prefetch thread may load down into it.
Line 1144 says that the bytes are right by construction, line 1357 that the previous matrix has been consumed.

In the following the code does something else than what is written about it.  A passing run holds what the code does, and the promise is stated next to it; TLC refutes each promise when it takes the place of the INVARIANT of the run's `.cfg` (for `TpuDemos` already with
`MaxFault` = 0: all happens on a board on which everything works, `FallbackHolds` on one whose second core is late once).

| The code | What is said of it | Held by | Promise |
|---|---|---|---|
| Q 2356, Q 2371: the two exits for want of the pools free neuron memory and pools, not scales, slots and centroids | Q 2197: failures of ION allocations have one cleanup, which frees first | `FreedOnce` (`ion_carveout`) | `UnifiedCleanup` |
| Q 1696: the exponent of a subnormal is one too small, which halves it | Q 1671: "fp16 upcast"; Q 287 does it rightly | `KernelsAgree` (`qwen_matmul`) | `CentroidsUpcast` |
| `convert_qwen_kal.py:171`: `rms_ffn` is written last, where the engine reads it | `:14` to `:23`: it lies between Wo and up | `WeightsFound` (`qwen_matmul`) | |
| `mha_attention.c:470`: the asynchronous product is never fetched from its scratch area, `Q_i8` is what the memory held | `:481`: the result is already in `Q_i8` | `AttentionOdd` in `Answers` (`tpu_demos`) | `QueriesFetched` |
| `mha_multi_batch.c:225`: the same; `Q_i8` holds the quantized input | `:223`: the queries are the product | `BatchOdd`, same run | `QueriesProjected` |
| `mha_multi_batch_pipeline.c:354`: the same; the queries are those of the batch two before, rotated again | `:352`: the queries are the product | `PingPongOdd`, same run | `QueriesOwn` |
| the weights lie 0x4000 apart, which is 128 columns; 512 is the default | `mha_descriptor.h:45`: a whole weight is at each offset | `WeightsOverlap`, same run | `WeightsKept` |
| `mha_sdcard_full.c:513`: heads are multiplied one after another | the reference interleaves them, and so says `mha_attention.c:590` | `SdOdd`, same run | `HeadsInterleaved` |
| `mha_sdcard_pipeline.c:414`: every block's rows are copied in one piece, over the other blocks' | `:357`: the columns of each block | `RingInOrder`, same run | `ColumnsKept` |
| TR 361: 128 bytes are four rows of queries; "Hello" has five | TR 347: all heads are extracted before they are multiplied | `PromptSpoilt`, same run | `HeadsKept` |
| `mha_multi_batch_pipeline.c:739`: the one descriptor is reused after a timeout, while the core still has the command | `:61`, `:741`: the fallback and the shared area are safe | nothing: `lapse` | `FallbackHolds` |

The following were met while modelling.  Each is in the model as the code has it, and a property names it as an exception or a bound stops short of it.

*Qwen engine.*

- One bounce buffer for two threads: the fallback read after a failed prefetch (Q 1249) does not take the lock.  `OwnBytes` is therefore about executions up to the first failed read.
- That fallback can wait for a slot for ever (Q 1395): the prefetch thread fills all slots with later matrices, which only main's progress frees.  `AwaitAnswered` states what should hold; with `Faults = {"read"}` TLC refutes it.
- A failed open in the prefetch thread drops the request without a mark or a signal (Q 1311); `NothingLost` excepts such matrices.
- The exits for want of the pools leave caches to the kernel, which frees them if it does; what is freed is freed once (`FreedOnce`).
- The two layouts of the layer file, old (`convert_qwen_kal.py`) and new (`convert_qwen_kal_b2.py`), have the same size and the same name; an engine of one reads a file of the other without complaint.

*SmolLM2 engine.*

- After a failed prefetch the serial fallback starts again at layer 0 with activations that have been through the first batches (S 1760).  `ForwardExact` states what should hold, `ExactUnlessRestarted` excepts it.
- KV groups share a scratch area, tiles share a place, 86 rows of context are too many: see *TpuMemory and TpuBatch*.
- Short reads of the embedding, contexts above 1569 or 338, more than 255 new tokens: see *SmolPool*.  `pool_init` frees the work buffers twice when its last allocation fails (S 1325).
- `ef_wait`'s result is ignored (S 1931), a late answer of the second core is not guarded against (S 2046), and there are no flushes around its transpose (S 1889).

*Numerics.*

- The packer's narrowing divides subnormals by eight (`int4_common.c:20`).  No scale of INT8 weights is subnormal; the function is called with nothing else.

*Demos and earlier engines* (`...Odd` of the modules; the first are in the table above).

- The asynchronous query product of three demos, heads not interleaved in all of them (with one head the result is the reference's), weights and blocks that overlap, late answers, TR's five tokens.
- `mha_attention.c`'s own reference rotates whole rows and agrees only for one head.
- `mha_sdcard_multi.c` quantizes all inputs with the first one's table (`MultiOdd`).
- `--ref` of TR reads files nobody writes (`layer%d_Wq.i8`), and adds the FFN to the rows before the norm where the engine adds it to the rows after.
- Unchecked reads leave what a buffer held (`unread`), in several demos and in TR.

## 5. Proofs

All theorems hold for every value of the constants that satisfies the named assumptions of their module.

| Theorem | States | Inductive invariant, and why it is needed |
|---|---|---|
| `IonPrefetchProofs!TypeCorrect` | `Spec => []TypeOK` | `TypeInv` = `TypeOK` and one part per thread, since `TypeOK` alone is not inductive: `g_busy` stays in 0..1 only because it is 1 exactly while the thread has a request; the cached descriptor, position and slot are typed only relative to the program counters |
| `IonPrefetchProofs!OneWriter` | `Spec => []SlotExclusive` | `SlotInv`: whoever writes a slot has it marked as being read, and only empty slots can be marked; exclusion alone says nothing about the mark |
| `IonPrefetchProofs!RingInOrder`, `IdleAtHead` | `[]QueueInOrder`, `[]HeadQuiet` | `QInv` = `Order` (the numbers in the ring are those between what has left it and `g_pushed_max`), `Numbers` (where a number below or above those can be), `Once` (a matrix is in one place: slot, thread, failure mark or main's re-read), `Stages` (`ion_drain` leaves nothing) |
| `IonPrefetchProofs!NoneForgotten` | `[]NothingLost` | `HeldInv` over `QInv`: every number between what was handed over and what has left the ring is in a slot, being read, marked failed or dropped by a failed open |
| `IonPrefetchProofs!OwnMatrix` | `[]OwnBytes` | `BytesInv`: until a read fails, `ReadInv` (main reads the SD card only for the cold start, and the slot of the matrix it fetched last still has its number; that is the one it multiplies, or up comes first) and `DataInv` (how much of the matrix each copy in progress has brought; `OneWriter` and the bounce buffer's single user keep it) |
| `IonPrefetchProofs!Exact` | `[]BitExact` if `Forwards = {"prompt"}` and `"read" \notin Faults` | the same; in a prompt `UpFirst` never holds |
| `IonPrefetchProofs!ImplementsStream` | `Spec => Stream!Safe`, same hypotheses | `ServedInv`: as many matrices were multiplied as main's position says; with `Exact` each `UseEnd` is a `Multiply`, `Shutdown` a `Close`, every other step a stutter |
| `QwenChatProofs!OwnPrefix`, `RoomForAll` | `[]AttendsOwnPrefix`, `[]MemoryHeld` | `IInv` = `Kinds` and: `PlanInv` (the passes to come: chunks one after the other up to the end of the prompt, then decode steps, as many as there is room for), `FirstInv` (the next one begins at `g_kv_len`, and up to there the cache is this conversation's), `PassInv` (which rows of which layers the pass has written), `HandInv` (what a pass leaves to the next), `SeenInv`, `PoolInv`, `AheadInv`; the properties speak only of the attention in hand, the invariant of everything it may find later |
| `QwenMatmulProofs!ProductsWhole` | `[]MatmulWhole` | `CtrlInv` (where in a block the CPU is), `MemInv` (the values in memory do not overlap, nor do the lines the CPU has written; those end below the results), `OperandInv` (an operand is dirty until it is flushed; from then on the TPU finds it and no line is left that could be written back over it), `ResultInv` (the results of the tiles already run are in memory, and lines of them the CPU holds agree with it), `ShiftInv` (the tiles the shift was chosen from), `AccInv` (what was added, entry by entry); the property speaks of the sums only, which every cache line can spoil at a distance |
| `QwenMatmulProofs!TwoPassSound` | for every largest weight in 0..8 and every nonempty set of integers as the sums of a block: `TwoPassFits` | none: arithmetic.  Both shifts are minima over finite sets (`LeastNat`, from the well-foundedness of `<`); the first is 4 or 5 (`RSafeIs`), the second at most one more (`ROptIs`), because pass 1 leaves at most 128 |
| `QwenMatmulProofs!ShiftsAlways`, `KernelsAlways` | `[]ShiftsBounded`, `[]KernelsAgree` | instances of `TwoPassSound` and of `NibblesAgree`, `StripsCover` (windows of any width), `UnpackersAgree` (any product), `PackedBack` (packing, with scales rounded to 24 and stored in 11 bits: how far off they may be moves no nibble by more than half a step) and `HalfIs` (each of the six conversions on every number, subnormals by how far their leading bit must move) |
| `SmolForwardProofs!TypeCorrect`, `BanksApart`, `NoOrphan` | `[]TypeOK`, `[]BankExclusive`, `[]WorkerJoined` | `WorkerInv`: a worker exists only while its job is awaited, reads into the bank not computed from, within its job; `LoopInv`: bounds of the loop counter at each place |
| `SmolForwardProofs!PassExactly` | `[]ExactUnlessRestarted` | `ExactInv`: what is left of the batch is in its bank (`BankInv`), the worker reads the batch that follows (`JobInv`), and a serial loop begun late makes the activations longer than L layers for good (`SerialLoopInv`, `AnswerInv`) |
| `LmHeadProofs!TypeCorrect`, `NoOrphan`, `BuffersApart` | `[]TypeOK`, `[]WorkerJoined`, `[]BufferExclusive` | `JobInv` (which buffer a worker may fill, where), `PollInv` (what the main thread waits for), `OneCommand` (while no command was given up there is at most one: in the mailbox, carried out or answered) |
| `LmHeadProofs!EveryChunkRight` | `[]LogitsExact` | `ChunkInv`, as long as no command was given up: chunks arrive two ahead of the matmul (`SourceInv`), are transposed one ahead (`DestInv`), and the core's answer is about the chunk main waits for (`CoreInv`) |
| `SmolPoolProofs!Apart`, `RowsRight` | `[]MemoryApart`, `[]EmbeddingRight` | `PInv`: prompt and answer fit the context (`Started`), the slots of the mode end below the keys and values (`Divided`), the parts of the embedding are whole blocks of 1024 rows that continue one another (`Embedded`), one row per token (`Filling`) |
| `SmolPoolProofs!GreedyAlwaysBest`, `SampleAlwaysBest` | for every number of tokens: the greedy token is the first of the best, whatever the logits; `sample_softmax` keeps the `k` best, each once, of any positive values (they are exponentials) | loop invariants over the tokens looked at: the best so far, and `TopSoFar` = `TopTyped` (`k` places), `TopOwn` (each with its own token's value), `TopOrdered` (descending, the earlier token first among equals), `TopKept` (a token looked at and not kept is beaten by the last place) |
| `SmolPoolProofs!TokensAlwaysPicked` | `[]TokensPicked` | an instance of the two |
| `QwenChatProofs!ClustersAlwaysBest`, `RowsAlwaysBest` | for every number of centroids or rows and any scores above the sentinel: stage 1 selects `Kc` clusters that no other beats, stage 2 ends with the five best rows in order | loop invariants: `PicksSoFar` (what was taken has the sentinel for a score, so that it is not taken again, and beats what was not) and `RowsSoFar`, the same four parts as `TopSoFar` |
| `QwenChatProofs!HeadAlwaysPicks` | `[]HeadPicks` | an instance of the two |
| `TpuBatchProofs!OperandsAlwaysHeld` | `[]OperandsHeld` if `GroupsFit` | `OInv` = `Typed`, `Control` (the place in the stage), `Queued` (the queue is the first products of the stage, each with a tile that fits) and `Held` (left operand and last tile of each are in memory).  The property does not say which products are queued, and only that shows that the next one is copied behind them: what fits the 32 KB of two lanes is at most 64 KB, the distance of the scratch areas (`Extent`); the groups have 16 KB each, enough by `GroupsFit` (`ScratchOrder`) |
| `TpuBatchProofs!LayerAlwaysAnswers` | `[]LayerAnswers` if `SmolLM2` | the same; a tile of 16 columns fits beside ten rows of 1536 or thirty of 1024 (`NarrowTile`) |
| `SmolForwardProofs!LiveNeverKilled`, `HangDetected` | `[]NoFalseKill`, `[]HangBounded` of `Watchdog` (`WdSpec`) | `Fresh` bounds the age of heartbeat and loaded value by the main thread's gap; `Checked` bounds the age of a heartbeat that passed the last check |
| `IonCarveoutProofs!OnlyForPools` | `[]CachesYield` | `Yield`: after a cache was taken the estimate of the pools is still free, and from the pre-check on what is left of it; `Stages`: what cannot be held yet; `Sized`: pools come in whole numbers |
| `IonCarveoutProofs!Backed`, `NothingLeft`, `BudgetSuffices` | `[]ForwardBacked`, `[]FreedOnce`, `[]CleanStart` | `SInv` = `Scales`, `Slots`, `Pools` (exactly what each stage of the start holds) and `Budget` (in a clean start the estimate of the pools is free when they are built); for `FreedOnce`, `Handled`: the handles that are not `NULL` name exactly what is held, after every free of main and of the loaders; the cleanup frees by handle, and only this says what its frees leave |

*Hypotheses of `Exact` and `ImplementsStream`.* They are those of the run `ion_prompt`, with failing opens allowed besides, and neither can be dropped: a decode forward
multiplies a released slot (`ion_decode_race`), and after a failed read main and the prefetch thread share the bounce buffer (section 4).  Every other theorem of the
prefetcher holds for prompts and decode and for every fault (`OwnMatrix` says in its property where a failed read ends it).

*Hypotheses about `TpuBatch`.* `GroupsFit`: a quarter of a scratch area (`GroupStride`) holds the operands of a group, if D is among the engines; with SmolLM2's sizes that is so up to 244 rows of
context, beyond the 85 at which the results overlap and far beyond the 64 of `max_seq`.  `SmolLM2`: the sizes of the shipped model, `MaxRows <= 10` and `MaxKv <= 1024`.

*How they hang together.* In `IonPrefetchProofs` `OwnMatrix` uses `OneWriter` and `RingInOrder`'s invariant, `Exact` and `ImplementsStream` use `OwnMatrix`'s.  `PassExactly` uses `BanksApart`'s
invariant, `EveryChunkRight` that of `BuffersApart`; `RoomForAll` and `OwnPrefix` share one invariant, since a decode step finds its rows only because the steps were counted.
The lemmas a reader may want to use again are about operators: `PosOf`, `DivUnique` (`IonPrefetchProofs`, places of a running number in a pass), `Cell`, `CellsApart` and `ChunksCut`
(`QwenChatProofs`, the cache as one array; how a prompt is cut), `PerLayerFacts`, `QuotFacts` and `ChunkFits` (`SmolPoolProofs`, rounding up to 256, C's division, the chunk of the LM head),
`AfterRuns`, `AfterKeeps` and `CopiedKeeps` (`TpuBatchProofs`, what a sequence of assignments leaves in memory), and `LeastNat`, `SetInduction` and `LoopExists`.  These three replace the library's induction
theorems, whose operator parameter the provers cannot instantiate: a set of natural numbers has a least element because `<` is well-founded, so a set that contains 0 and every successor is all of `Nat`,
so a recursive function such as the list after `i` rows exists and satisfies its equation.  The selections are such functions, and their loop invariants are proved over them.

The theorems of `Watchdog` share a module with those of `SmolForward`, whose engine is one of the two it guards; its specification is called `WdSpec` so that one module can extend both.

Assumptions that matter: `Watchdog!GapAssumption` (`MaxGap + Delay <= Timeout`: the timeout covers the longest gap between two heartbeats and the delay of the watchdog thread, as the comment on
`WD_TIMEOUT_SEC` says), `IonCarveout!EstimateAssumption` (estimates are upper bounds) and `BudgetAssumption` (the sums of the comment above `GSC_ION_LAYERS`; only `BudgetSuffices` uses it), `SmolForward!SizeAssumption` (`2 * Mode <= L`),
`QwenChat!QwenChatAssumption` (`KvCap` holds a chunk and is below `MaxSeq`, as 192 and 256 are).  TLC evaluates them all.

Only model-checked:

- all liveness (`Terminates`, `PassAnswers`, `PassEnds`, `HungIsEnded`, `Ends`) and the fairness part of `StreamSpec`: fairness and ENABLED are outside the prover's reach;
- `WeightsFound`: the layouts of the real files, a fact about particular numbers that TLC evaluates, through folds the provers do not unfold;
- statements about particular programs, whose layouts are data of the model: `Answers` and `Coherent` of `TpuDemos`, `NothingLost` of `TpuBatch`.  They hold for the byte offsets
  and up to the row counts of the code and for no larger ones (section 2); TLC looks at every row count and context up to those at the real dimensions, so that there is nothing to generalize over but the
  path through one program.

## 6. Plan

The system is modelled as far as section 7 allows, and the invariants of its threads, buffers, caches and budgets are proved.  What could follow:

1. `NothingLost` of `TpuBatch` with the offsets as parameters and the conditions they must satisfy as an assumption: which two values of a layer may never overlap.
2. `WeightsFound` with the sections as functions of the layer and the matrix, without the folds that add them up.

## 7. Not modelled

- **libcviruntime and the second core's firmware**: not in the repository.  They are the environment of the modules, as permissive as the uses in `src/` suggest.  Whether queued commands run when they are issued or at Submit is left open (`deferred`), `CVI_RT_MemInvld` is taken to keep lines the CPU has written.
- **Floating point**: values are terms, symbols or orders.  Quantization error of the KV cache, the scales (a missing `scales.bin` falls back to defaults, silently), softmax and RoPE as numbers are not modelled.
- **Caches around the LM head's second core** (S 1889): `LmHead` is about the order of three parties; its theorems are for coherent memory.
- **Set-up failures of the demos**, the timing comparison of the LUT demo, `mha_sdcard_step0.c` (times reads and keeps nothing), the self-tests of S, `qwen_engine_layer0.c` (one layer of `qwen_engine_24l.c`), the host cross-check (`VERIFY`) of the Qwen engines.
- **End of a generation** in D and TR: a generation that stops early is a prefix of the modelled one.
- **Deployment and chat scripts**: SSH, telnet and terminal I/O; they start and kill the engines and share no other state with them.
- **Micro-benchmarks, probes, emulators, measurement logs** (`01_conv` to `07_pooling`, `cvk_100bench.c`, the ps32 probes, `layer_read_bench.c`, `qwen_emu.py`): experiments about the hardware without protocol or long-lived state.
- **NaN logits**, and out-of-range arguments for which the code overruns an array (`generated[256]`, `generated[128]`, more than six batches): undefined behaviour without a model of what follows.
