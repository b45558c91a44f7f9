------------------------------ MODULE TpuDemos ------------------------------
(* The attention demos and four earlier engines running: the CPU goes through  *)
(* its program, the TPU executes what was submitted asynchronously when it     *)
(* likes, and the secondary core answers the commands in its mailbox, late, or *)
(* not at all.                                                                 *)
EXTENDS TransformerProgram, SmolDemoProgram, QwenPrefillProgram

CONSTANTS
    Batches,    \* n_batches, the fourth argument
    MaxFault    \* failures of reads and ioctls, and the death of the core
ASSUME TpuDemosAssumption == Batches \in 2..6 /\ MaxFault \in Nat

\* outs: where the results are that the program's own reference or its steps promise.
\* odd: what it leaves in the other results instead, as the code has it.
Demo(name, code, outs, odd) == [name |-> name, code |-> code, outs |-> outs, odd |-> odd]
SmolUncached == Demo("smolUncached", SmMain(2, 1, 0), SmOutputs(2, 1), {})
\* The default sizes, and small ones: one head, or no tiles.
AttentionSizes == Config(32, 512, 8)
BatchSizes == Config(16, 128, 4)
PingPongSizes(mode) == IF mode = 1 THEN Config(32, 512, 8) ELSE Config(32, 128, 2)
FullSizes == Config(32, 256, 8)
BlockSizes == BlockConfig(32, 256, 4)
Attending(name, c) == Demo(name, AttentionMain(c), AttentionOutputs(c), AttentionOdd(c))
PingPong(name, mode) ==
    LET c == PingPongSizes(mode) IN Demo(name, PingPongMain(c, Batches, mode), {}, PingPongOdd(c, Batches))
OfCard(name, code, c) == Demo(name, code, SdOutputs(c), SdOdd(c))
Demos ==
    {Attending("attention", AttentionSizes), Attending("attentionOneHead", Config(32, 64, 1)),
     Demo("batch", BatchMain(BatchSizes, Batches), {}, BatchOdd(BatchSizes, Batches)),
     PingPong("pingPong0", 0), PingPong("pingPong1", 1), PingPong("pingPong2", 2),
     OfCard("full", FullMain(FullSizes), FullSizes),
     LET c == Config(32, 64, 1) IN  OfCard("fullOneHead", FullMain(c), c),
     LET c == Config(32, 256, 4) IN  OfCard("lut", LutMain(c), c),
     LET c == Config(32, 128, 2) IN  Demo("multi", MultiMain(c, Batches), {}, MultiOdd(c, Batches)),
     Demo("oneBlock", BlockMain(BlockSizes, 1), {}, BlockOdd(BlockSizes, 1)),
     Demo("blocks", BlockMain(BlockSizes, 8), {}, BlockOdd(BlockSizes, 8)),
     Demo("mailboxTest", TestMain, TestOutputs, {}),
     Demo("transformer", TrMain(4, 2), TrOutputs(4, 2), {}),
     Demo("transformerHello", RefMain(5), TrOutputs(5, 1), RefOutputs(5)),
     Demo("smol", SmMain(2, 1, WCacheLayers), SmOutputs(2, 1), {}),
     SmolUncached,
     Demo("qwenPrefill", QwMain, QwOutputs, {}),
     Demo("qwenClusters", QwClusterMain, QwClusterOutputs, {})}

VARIABLES
    demo,       \* the program that runs; only a failing preload changes it
    deferred,   \* TRUE: the commands run at Submit; FALSE: when they are issued
    pc,         \* the next instruction
    mem,        \* see TpuTerms
    pending,    \* products submitted and not executed
    xq,         \* the pointer x_i8
    core,       \* the secondary core: its mailbox and the command in hand
    alive,
    lapse,      \* what happened that the demo has no answer to
    faults
tpuVars == <<mem, pending>>
coreVars == <<core, alive>>
vars == <<demo, deferred, pc, mem, pending, xq, core, alive, lapse, faults>>
\* What tells two states apart: the name stands for the whole program.
demoView == <<demo.name, deferred, pc, mem, pending, xq, core, alive, lapse, faults>>

Code == demo.code
Ended == pc > Len(Code)
Instr == Code[pc]
Is(op) == ~Ended /\ Instr.op = op
Advance == pc' = pc + 1

Init ==
    /\ demo \in Demos /\ deferred \in BOOLEAN
    /\ pc = 1 /\ mem = {} /\ pending = <<>> /\ xq = 0
    /\ core = [inbox |-> <<>>, job |-> <<>>] /\ alive = TRUE
    /\ lapse = {} /\ faults = 0

Fault == faults < MaxFault /\ faults' = faults + 1

-----------------------------------------------------------------------------
(* The CPU.                                                                    *)
Drained(m) == FoldLeft(LAMBDA a, p : Executed(a, p, deferred), m, pending)
Pointed(p) == IF p.left.lo = ThroughX(0).lo THEN [p EXCEPT !.left.lo = xq] ELSE p

Plainest ==
    /\ ~Ended /\ Instr.op \in {"cpu", "flush", "invalidate", "init"}
    /\ mem' = Done(mem, Instr) /\ Advance
    /\ UNCHANGED <<demo, deferred, pending, xq, coreVars, lapse, faults>>

\* CVI_RT_Submit: the TPU has executed everything when it returns.
Multiply ==
    /\ Is("mul")
    /\ LET p == Pointed(Instr)
       IN  mem' = Fetched(Executed(Drained(Staged(mem, p)), p, deferred), p)
    /\ pending' = <<>> /\ Advance
    /\ UNCHANGED <<demo, deferred, xq, coreVars, lapse, faults>>

\* qwen_engine_24l and lh2_noinline: each of a block's commands has run when its call returns.
MultiplyBlock ==
    /\ Is("block")
    /\ IF Picks(Instr) THEN mem' = BlockDone(mem, Instr) /\ Advance
       ELSE pc' = Len(Code) + 1 /\ UNCHANGED mem     \* exit(4)
    /\ UNCHANGED <<demo, deferred, pending, xq, coreVars, lapse, faults>>

\* CVI_RT_SubmitAsync.
Submitted ==
    /\ Is("async")
    /\ mem' = Staged(mem, Pointed(Instr)) /\ pending' = Append(pending, Pointed(Instr)) /\ Advance
    /\ UNCHANGED <<demo, deferred, xq, coreVars, lapse, faults>>

WaitForAsync ==
    /\ Is("wait")
    /\ mem' = Drained(mem) /\ pending' = <<>> /\ Advance
    /\ UNCHANGED <<demo, deferred, xq, coreVars, lapse, faults>>

ReadFile ==
    /\ Is("read")
    /\ \/ mem' = Done(mem, Copy(Instr.from, Instr.to)) /\ Advance /\ UNCHANGED faults
       \/ /\ Fault
          /\ IF Instr.checked THEN pc' = Len(Code) + 1 /\ UNCHANGED mem
             ELSE /\ LET left == Get(mem, Instr.to, "cpu")
                     IN  mem' = Put(mem, Instr.to, [left EXCEPT !.taint = @ \cup {"unread"}], "cpu")
                  /\ Advance
    /\ UNCHANGED <<demo, deferred, pending, xq, coreVars, lapse>>

\* After a failure the cache is freed and the program goes on as without one: from the
\* start, as nothing has been computed yet.
PreloadLayer ==
    /\ Is("preload")
    /\ \/ mem' = Done(mem, Copy(Instr.from, Instr.to)) /\ Advance /\ UNCHANGED <<demo, faults>>
       \/ Fault /\ demo' = SmolUncached /\ pc' = 1 /\ mem' = {}
    /\ UNCHANGED <<deferred, pending, xq, coreVars, lapse>>

Point ==
    /\ Is("point") /\ xq' = Instr.at.lo /\ Advance
    /\ UNCHANGED <<demo, deferred, tpuVars, coreVars, lapse, faults>>

-----------------------------------------------------------------------------
(* The mailbox.                                                                *)
Descriptor(m, at, by) == Get(m, at, by)
\* The core takes the areas from the descriptor it sees in the memory, writes there and
\* marks the descriptor done.
Answered(m, cmd, at) ==
    LET desc == Descriptor(m, at, "dram")
        from == Get(m, desc.term[2], "dram")
        got == [term |-> CASE cmd = <<>> -> from.term
                           [] cmd = <<"filled">> -> cmd
                           [] OTHER -> cmd \o <<from.term>>,
                taint |-> from.taint \cup desc.taint]
        written == IF cmd = <<"none">> THEN m ELSE Put(m, desc.term[3], got, "dram")
    IN  Put(written, at, [term |-> [desc.term EXCEPT ![4] = 0], taint |-> desc.taint], "dram")

\* The ioctl waits for the core.  An error is printed; the core may still find the
\* command.
SendAndWait ==
    /\ Is("sendwait") /\ Advance
    /\ \/ /\ alive /\ core.inbox = <<>>
          /\ mem' = Answered(mem, Instr.cmd, Instr.at)
          /\ UNCHANGED <<core, lapse, faults>>
       \/ /\ Fault /\ UNCHANGED mem
          /\ \/ lapse' = lapse \cup {"refused"} /\ UNCHANGED core
             \/ /\ lapse' = lapse \cup {"late"}
                /\ core' = [core EXCEPT !.inbox = Append(@, [cmd |-> Instr.cmd, at |-> Instr.at])]
    /\ UNCHANGED <<demo, deferred, pending, xq, alive>>

\* Without waiting.  If the ioctl fails the descriptor is marked by the CPU.
Send ==
    /\ Is("send") /\ Advance
    /\ \/ /\ core' = [core EXCEPT !.inbox = Append(@, [cmd |-> Instr.cmd, at |-> Instr.at])]
          /\ UNCHANGED <<mem, faults>>
       \/ /\ Fault /\ UNCHANGED core
          /\ LET desc == Descriptor(mem, Instr.at, "cpu")
             IN  mem' = Put(mem, Instr.at, [desc EXCEPT !.term[4] = -2], "cpu")
    /\ UNCHANGED <<demo, deferred, pending, xq, alive, lapse>>

\* CVI_RT_MemInvld and a look at the result, up to 500 times; then the CPU quantizes
\* the batch itself, whatever the core does later.
PollReady ==
    /\ Is("poll") /\ Advance
    /\ Descriptor(Invalidated(mem), Instr.at, "cpu").term[4] = 0
    /\ mem' = Invalidated(mem) /\ xq' = Instr.there.lo
    /\ UNCHANGED <<demo, deferred, pending, coreVars, lapse, faults>>
PollTimeout ==
    /\ Is("poll") /\ Advance
    /\ Descriptor(Invalidated(mem), Instr.at, "cpu").term[4] # 0
    /\ mem' = Done(Invalidated(mem), Copy(Instr.from, Instr.else)) /\ xq' = Instr.else.lo
    /\ lapse' = IF alive /\ core.inbox \o core.job # <<>> THEN lapse \cup {"late"} ELSE lapse
    /\ UNCHANGED <<demo, deferred, pending, coreVars, faults>>

-----------------------------------------------------------------------------
TpuRuns ==
    /\ pending # <<>>
    /\ mem' = Executed(mem, Head(pending), deferred) /\ pending' = Tail(pending)
    /\ UNCHANGED <<demo, deferred, pc, xq, coreVars, lapse, faults>>

CoreTake ==
    /\ alive /\ core.job = <<>> /\ core.inbox # <<>>
    /\ core' = [inbox |-> Tail(core.inbox), job |-> <<Head(core.inbox)>>]
    /\ UNCHANGED <<demo, deferred, pc, tpuVars, xq, alive, lapse, faults>>
CoreAnswer ==
    /\ alive /\ core.job # <<>>
    /\ mem' = Answered(mem, core.job[1].cmd, core.job[1].at)
    /\ core' = [core EXCEPT !.job = <<>>]
    /\ UNCHANGED <<demo, deferred, pc, pending, xq, alive, lapse, faults>>
CoreDies ==
    /\ alive /\ demo.name = "pingPong2" /\ Fault /\ alive' = FALSE
    /\ UNCHANGED <<demo, deferred, pc, tpuVars, xq, core, lapse>>

Cpu ==
    \/ Plainest \/ Multiply \/ MultiplyBlock \/ Submitted \/ WaitForAsync \/ ReadFile \/ PreloadLayer \/ Point
    \/ SendAndWait \/ Send \/ PollReady \/ PollTimeout
Next == Cpu \/ TpuRuns \/ CoreTake \/ CoreAnswer \/ CoreDies
Spec == Init /\ [][Next]_vars

-----------------------------------------------------------------------------
\* In the pipelined weights the last product is that of the last block.
RingInOrder ==
    (demo.name \in {"blocks", "oneBlock"} /\ Ended) =>
        LET o == LastBlock(BlockSizes, IF demo.name = "blocks" THEN 8 ELSE 1)
        IN  \A cell \in Inside(mem, o.at) : "unread" \in cell.taint \/ cell.term[3] = o.of

\* Nothing that has a name (TpuTerms: Check) was found to be something else, what a file
\* did not deliver excepted.
NamesRight == \A cell \in mem : cell.term[1] = "wrong" => "unread" \in cell.taint

Holds(at) == Inside(mem, at) \cap Around(mem, at)
Gives(at, term) == \A cell \in Holds(at) : cell.term = term

\* The weights of pingPong1 lie 0x4000 apart and are 0x40000 bytes long: the last one was
\* copied over the three before it, of which none is whole.
WeightsOverlap ==
    (demo.name = "pingPong1" /\ Ended /\ faults = 0) => \A w \in 1..3 : Holds(NeuronWeights(PingPongSizes(1))[w]) = {}

\* The queries of five tokens do not fit 128 bytes per head: something of the default
\* prompt is computed from another head's.
PromptSpoilt == (demo.name = "transformerHello" /\ Ended /\ faults = 0) => ~NamesRight

\* Every result is, term by term, what the demo's outs and odd say, whenever the TPU and
\* the core do their work.  In outs that is the program's reference: nothing in it comes
\* from another batch, another block of a weight, another row or another command.  In odd
\* it is not, and these are the deviations: the queries of an asynchronous product are not
\* this batch's (AttentionOdd, BatchOdd, PingPongOdd), the heads are one after the other
\* (AsBuilt), the scale is another batch's (MultiOdd), the reference multiplies what no
\* file holds (RefOutputs); keys, values, weights and everything after the queries are the
\* right ones there too.  Of the results of pingPong1, whose weights overlap, nothing is
\* claimed but that they do (WeightsOverlap), of those of blocks, which overwrite one
\* another, but which is left (RingInOrder), and of the five-token prompt of
\* transformerHello but that it goes wrong (PromptSpoilt) and RefOutputs.  Nor is it after a command that failed or was given up while the core lived
\* (lapse), of what a file did not deliver (unread), and of tiles that were overwritten
\* before Submit when the commands run there (torn).  What the comments of the programs
\* promise of most of these cases is stated below.
Answers ==
    /\ RingInOrder
    /\ WeightsOverlap
    /\ PromptSpoilt
    /\ demo.name # "transformerHello" => NamesRight
    /\ lapse = {} =>
         \A o \in demo.outs \cup demo.odd :
             /\ (Ended /\ faults = 0) => Holds(o.at) # {}
             /\ \A cell \in Holds(o.at) :
                    "unread" \notin cell.taint =>
                        /\ cell.term = o.is
                        /\ cell.taint \subseteq (IF deferred THEN {"torn"} ELSE {})

\* Nobody reads what another device has written and a cache still hides, or what a
\* cache has not yet written back (mha_multi_batch_pipeline.c:681, "in neuron memory
\* for cache coherency").
Coherent == lapse = {} => \A cell \in mem : "stale" \notin cell.taint

-----------------------------------------------------------------------------
(* What comments promise and the programs, without a single failure, do not    *)
(* keep: TLC refutes each of these.                                            *)
Finished(name) == demo.name = name /\ Ended
OwnQueries(c, n, b) == Gives(Output(c, n), AsBuilt(c, X(b), Projected(c, X(b), 1)))

\* "Result already in Q_i8 from the async submit; just WaitForAsync" (mha_attention.c:481):
\* the asynchronous pass computes what the synchronous one does.
QueriesFetched == Finished("attention") => OwnQueries(AttentionSizes, 1, 0)

\* "Step 1: Q = x * Wq (async)" (mha_multi_batch.c:223): the queries are that product.
QueriesProjected == Finished("batch") => \A b \in 0..(Batches - 1) : OwnQueries(BatchSizes, b, b)

\* The same (mha_multi_batch_pipeline.c:352), of a batch and not of the one two before it.
QueriesOwn == Finished("pingPong0") => \A b \in 0..(Batches - 1) : OwnQueries(PingPongSizes(0), b, b)

\* "Wk [d_model, d_model] INT8" at MHA_WK_OFF (mha_descriptor.h:45): the four weights are
\* in memory when the last batch has been computed, at the default size and at a small one.
WeightsKept ==
    \A mode \in {0, 1} :
        Finished(IF mode = 0 THEN "pingPong0" ELSE "pingPong1") =>
            \A w \in 1..4 :
                LET at == NeuronWeights(PingPongSizes(mode))[w]
                IN  Holds(at) # {} /\ Gives(at, PingPongSizes(mode).W[w])

\* "Interleave heads: [h][r][d] -> [r][h*d]" (mha_attention.c:590), the same loop in
\* mha_sdcard_full.c:508, whose result is compared with the reference.
HeadsInterleaved == Finished("full") => Gives(Output(FullSizes, 0), Reference(FullSizes, X(0)))

\* "result_i8[S, D] gets columns from each block's TPU output" (mha_sdcard_pipeline.c:357):
\* nothing of the results of the eight blocks is overwritten by another one's.
ColumnsKept ==
    Finished("blocks") =>
        LET Of(cell) == IF cell.term[1] = "mul" THEN cell.term[3] ELSE <<>>
        IN  Cardinality({Of(cell) : cell \in Inside(mem, I8(Layout(0).o8, Total(BlockSizes)))}) = 8

\* "shares with A_i8 (A_i8 used after input consumed)" (mha_multi_batch_pipeline.c:61), and
\* "local fallback" after a timeout (:741): a batch the CPU had to quantize itself comes out
\* like the others, however late the core is.
FallbackHolds == Finished("pingPong2") => \A o \in demo.odd : Gives(o.at, o.is)

\* "Pre-extracts all heads, quantizes upfront" (transformer_demo.c:347): the queries of all
\* heads are kept until they are multiplied, for the default prompt too.
HeadsKept == demo.name = "transformerHello" => NamesRight
=============================================================================
