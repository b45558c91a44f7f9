----------------------------- MODULE IonCarveout -----------------------------
(* How the Qwen engine starts up in the ION carveout: the neuron memory, then   *)
(* the cache of the scales (gsc), with ion_db the slots of the weight           *)
(* prefetcher, the centroids of the LM head, and the command buffers (pools,    *)
(* merged pool), each after a look at how much is free; what it degrades to     *)
(* when there is too little; and what it frees on the way out.                  *)
(* Sizes are in bytes.                                                          *)
EXTENDS Naturals

CONSTANTS
    Carveout,                   \* size of the carveout heap
    Neuron, Slot, NSlot, Cent,  \* NEURON_SZ, SD_BUF_SZ, SD_NSLOT, CENT_ION_SZ
    GscLayer, L, IonLayers,     \* GSC_LAYER_BYTES, L, GSC_ION_LAYERS
    PoolsEst, MpEst,            \* ION_POOLS_EST, ION_MP_EST
    Pool, Mp,                   \* what one pool and the merged pool really take
    Others,                     \* what other processes may hold
    MaxFault                    \* failures per execution (a bound of the model)

ASSUME SizeAssumption ==
    /\ {Carveout, Neuron, Slot, NSlot, Cent, GscLayer, L, IonLayers, PoolsEst, MpEst,
        Pool, Mp, MaxFault} \subseteq Nat
    /\ 0 < IonLayers /\ IonLayers < L /\ GscLayer > 0 /\ NSlot > 0
    /\ Others \subseteq Nat

\* Half of the twelve pools serve passes of one or three tokens, half those of 5 or 7.
PoolsPerSet == 6

\* The measurement the estimates are based on (the comment above the pre-check).
ASSUME EstimateAssumption == 2 * PoolsPerSet * Pool <= PoolsEst /\ Mp <= MpEst

\* The budget of the comment above GSC_ION_LAYERS: the pools still fit beside the scales of
\* every layer, and with ion_db beside those of 22 layers and the slots.
ASSUME BudgetAssumption ==
    /\ Neuron + L * GscLayer + PoolsEst <= Carveout
    /\ Neuron + IonLayers * GscLayer + NSlot * Slot + PoolsEst <= Carveout

VARIABLES
    pc,         \* where main is
    mode,       \* LW_READ=ion_db, else GSC_ION: "ion_db", "gsc" or "cold"
    centOff,    \* CENT_ION=0
    mergeOff,   \* MERGE=0
    debugfs,    \* the ION summary can be read
    held,       \* bytes of the carveout this process holds, by what for
    handles,    \* bytes its handles name that are not NULL, by what for
    stale,      \* history: something was freed that was not held any more
    other,      \* bytes other processes hold
    grew,       \* others have taken more since the start
    merged,     \* g_use_merged
    gscN,       \* g_gsc_ion_n: layers whose scales are in ION
    ddr,        \* g_gsc_ddr_map: layers after those, mapped
    faults      \* failures so far

envVars == <<mode, centOff, mergeOff, debugfs>>
heap == <<held, handles, stale>>
gscVars == <<gscN, ddr>>
vars == <<pc, envVars, heap, other, grew, merged, gscVars, faults>>

Nothing == [neuron |-> 0, gsc |-> 0, slots |-> 0, cent |-> 0, low |-> 0, high |-> 0, mp |-> 0]
Held == held.neuron + held.gsc + held.slots + held.cent + held.low + held.high + held.mp
Room(n) == Held + other + n <= Carveout

Ended == {"early", "pools", "late", "ok"}

TypeOK ==
    /\ pc \in {"neuron", "stat", "gsc", "gscload", "gscddr", "rms", "slots", "thread", "cent",
               "precheck", "build", "merge", "setup", "prefill", "decode", "cleanup"} \cup Ended
    /\ mode \in {"ion_db", "gsc", "cold"}
    /\ {centOff, mergeOff, debugfs, stale, grew, merged} \subseteq BOOLEAN
    /\ {held, handles} \subseteq [neuron : Nat, gsc : Nat, slots : Nat, cent : Nat, low : Nat, high : Nat, mp : Nat]
    /\ other \in Others
    /\ gscN \in 0..L /\ ddr \in 0..L - IonLayers
    /\ faults \in 0..MaxFault

Init ==
    /\ pc = "neuron" /\ mode \in {"ion_db", "gsc", "cold"}
    /\ centOff \in BOOLEAN /\ mergeOff \in BOOLEAN /\ debugfs \in BOOLEAN
    /\ held = Nothing /\ handles = Nothing /\ stale = FALSE /\ other \in {o \in Others : o <= Carveout} /\ grew = FALSE
    /\ merged = TRUE /\ gscN = 0 /\ ddr = 0 /\ faults = 0

-----------------------------------------------------------------------------
Fault == faults < MaxFault /\ faults' = faults + 1

\* rt_alloc_safe: NULL instead of SIGABRT, when there is no room or, for a failure of
\* its own, no room in one piece.
Take(f, n) ==
    /\ Room(n)
    /\ held' = [held EXCEPT ![f] = @ + n] /\ handles' = [handles EXCEPT ![f] = @ + n]
    /\ UNCHANGED <<stale, faults>>
Refused(n) == IF Room(n) THEN Fault ELSE UNCHANGED faults

\* The pre-checks: ion_carveout_free() says -1 when the summary cannot be read.
Short(n) == debugfs /\ ~Room(n)
PoolsNeed == PoolsEst + (IF merged THEN MpEst ELSE 0)

\* CVI_RT_MemFree through every handle for these that is not NULL, which it becomes.
Left(f, fs) == IF f \in fs THEN held[f] - handles[f] ELSE held[f]
Remaining(fs) == [neuron |-> Left("neuron", fs), gsc |-> Left("gsc", fs), slots |-> Left("slots", fs),
                  cent |-> Left("cent", fs), low |-> Left("low", fs), high |-> Left("high", fs),
                  mp |-> Left("mp", fs)]
FreeBug(fs) ==
    /\ held' = Remaining(fs)
    /\ handles' = handles
    /\ stale' = (stale \/ \E f \in fs : handles[f] > held[f])
Free(fs) ==
    /\ held' = Remaining(fs)
    /\ handles' = [f \in DOMAIN handles |-> IF f \in fs THEN 0 ELSE handles[f]]
    /\ stale' = (stale \/ \E f \in fs : handles[f] > held[f])

\* ion_cleanup_exit: one guarded free for each handle.
CleanupExit ==
    /\ pc = "cleanup" /\ pc' = "early"
    /\ Free({"gsc", "slots", "cent", "neuron"})
    /\ UNCHANGED <<envVars, other, grew, merged, gscVars, faults>>

\* Its failure is the one that needs no cleanup.
AllocNeuron ==
    /\ pc = "neuron"
    /\ \/ Take("neuron", Neuron) /\ pc' = "stat"
       \/ Refused(Neuron) /\ pc' = "early" /\ UNCHANGED heap
    /\ UNCHANGED <<envVars, other, grew, merged, gscVars>>

\* The size of a layer file is asked for.
StatLayer ==
    /\ pc = "stat"
    /\ \/ pc' = (IF mode = "cold" THEN "cent" ELSE "gsc") /\ UNCHANGED <<heap, faults>>
       \/ Fault /\ pc' = "cleanup" /\ UNCHANGED heap
    /\ UNCHANGED <<envVars, other, grew, merged, gscVars>>

-----------------------------------------------------------------------------
(* The scales: 22 layers in ION and 2 mapped (ion_db), or in three tiers.       *)
TierBug ==
    IF ~debugfs \/ Room(L * GscLayer) THEN L
    ELSE IF Room(IonLayers * GscLayer) THEN IonLayers ELSE 0
Tier ==
    IF ~Short(L * GscLayer + PoolsNeed) THEN L
    ELSE IF Room(IonLayers * GscLayer + PoolsNeed) THEN IonLayers ELSE 0
Wanted == IF mode = "ion_db" THEN IonLayers ELSE Tier

\* What follows a cache that cannot be had: the cleanup with ion_db, else cold reads.
WithoutGsc == pc' = IF mode = "ion_db" THEN "cleanup" ELSE "cent"

AllocGsc ==
    /\ pc = "gsc"
    /\ \/ Wanted = 0 /\ WithoutGsc /\ UNCHANGED <<heap, faults>>
       \/ mode = "ion_db" /\ Short(Wanted * GscLayer) /\ WithoutGsc /\ UNCHANGED <<heap, faults>>
       \/ /\ Wanted > 0 /\ ~(mode = "ion_db" /\ Short(Wanted * GscLayer))
          /\ \/ Take("gsc", Wanted * GscLayer) /\ pc' = "gscload"
             \/ Refused(Wanted * GscLayer) /\ WithoutGsc /\ UNCHANGED heap
    /\ UNCHANGED <<envVars, other, grew, merged, gscVars>>

\* The layers are read; g_gsc_ion_n is set when all have been.  Both loaders free the
\* buffer themselves when a read fails, and main's cleanup finds the handle again.
LoadGsc ==
    /\ pc = "gscload"
    /\ \/ /\ gscN' = held.gsc \div GscLayer
          /\ pc' = IF gscN' < L THEN "gscddr" ELSE "cent"
          /\ UNCHANGED <<heap, faults>>
       \/ Fault /\ WithoutGsc /\ Free({"gsc"}) /\ UNCHANGED gscN
    /\ UNCHANGED <<envVars, other, grew, merged, ddr>>

\* The next of the remaining layers is mapped.  gsc_ion_load takes everything back when
\* that fails, gsc_cache_load_b2 leaves it to ion_cleanup_exit.
MapGsc ==
    /\ pc = "gscddr"
    /\ \/ /\ gscN + ddr < L /\ ddr' = ddr + 1
          /\ UNCHANGED <<pc, heap, gscN, faults>>
       \/ /\ gscN + ddr < L /\ Fault /\ WithoutGsc
          /\ IF mode = "ion_db" THEN UNCHANGED <<heap, gscVars>> ELSE Free({"gsc"}) /\ gscN' = 0 /\ ddr' = 0
       \/ /\ gscN + ddr = L
          /\ pc' = IF mode = "ion_db" THEN "rms" ELSE "cent"
          /\ UNCHANGED <<heap, gscVars, faults>>
    /\ UNCHANGED <<envVars, other, grew, merged>>

-----------------------------------------------------------------------------
(* ion_db: the rms cache and the bounce buffer (DDR), the slots, the thread.    *)
LoadRms ==
    /\ pc = "rms"
    /\ \/ pc' = "slots" /\ UNCHANGED <<heap, faults>>
       \/ Fault /\ pc' = "cleanup" /\ UNCHANGED heap
    /\ UNCHANGED <<envVars, other, grew, merged, gscVars>>
AllocSlotsBug ==
    /\ pc = "slots"
    /\ \/ held.slots <= NSlot * Slot /\ Take("slots", Slot) /\ UNCHANGED pc
       \/ held.slots <= NSlot * Slot /\ Refused(Slot) /\ pc' = "cleanup" /\ UNCHANGED heap
       \/ held.slots = (NSlot + 1) * Slot /\ pc' = "thread" /\ UNCHANGED <<heap, faults>>
    /\ UNCHANGED <<envVars, other, grew, merged, gscVars>>
AllocSlots ==
    /\ pc = "slots"
    /\ \/ held.slots < NSlot * Slot /\ Take("slots", Slot) /\ UNCHANGED pc
       \/ held.slots < NSlot * Slot /\ Refused(Slot) /\ pc' = "cleanup" /\ UNCHANGED heap
       \/ held.slots = NSlot * Slot /\ pc' = "thread" /\ UNCHANGED <<heap, faults>>
    /\ UNCHANGED <<envVars, other, grew, merged, gscVars>>
StartThread ==
    /\ pc = "thread"
    /\ \/ pc' = "cent" /\ UNCHANGED <<heap, faults>>
       \/ Fault /\ pc' = "cleanup" /\ UNCHANGED heap
    /\ UNCHANGED <<envVars, other, grew, merged, gscVars>>

-----------------------------------------------------------------------------
\* lmhead2_cent_place: in ION when the summary says that the pools will still fit; else,
\* or when ION refuses, in DDR, where malloc may fail.
PlaceCent ==
    /\ pc = "cent"
    /\ LET inIon == ~centOff /\ debugfs /\ Room(Cent + PoolsNeed) IN
       \/ inIon /\ Take("cent", Cent) /\ pc' = "precheck"
       \/ inIon /\ Refused(Cent) /\ pc' = "precheck" /\ UNCHANGED heap
       \/ ~inIon /\ pc' = "precheck" /\ UNCHANGED <<heap, faults>>
       \/ Fault /\ pc' = "cleanup" /\ UNCHANGED heap
    /\ UNCHANGED <<envVars, other, grew, merged, gscVars>>

\* Without room for both, the merged pool is given up; without room for the pools the
\* neuron memory is freed, and nothing else.
PoolsExit == pc' = "pools" /\ Free({"neuron", "low", "high"})
Precheck ==
    /\ pc = "precheck"
    /\ merged' = (merged /\ ~Short(PoolsNeed))
    /\ IF Short(PoolsEst) THEN PoolsExit ELSE pc' = "build" /\ UNCHANGED heap
    /\ UNCHANGED <<envVars, other, grew, gscVars, faults>>

\* pool_build, for the small passes and then for the large ones.
PoolSet == IF held.low < PoolsPerSet * Pool THEN "low" ELSE "high"
BuildPool ==
    /\ pc = "build"
    /\ IF held.low + held.high = 2 * PoolsPerSet * Pool
       THEN pc' = "merge" /\ UNCHANGED <<heap, faults>>
       ELSE \/ Take(PoolSet, Pool) /\ UNCHANGED pc
            \/ Refused(Pool) /\ PoolsExit
    /\ UNCHANGED <<envVars, other, grew, merged, gscVars>>
BuildMergedBug ==
    /\ pc = "merge" /\ pc' = "setup"
    /\ \/ ~merged /\ UNCHANGED <<heap, merged, faults>>
       \/ merged /\ Take("mp", Mp) /\ UNCHANGED merged
       \/ merged /\ Refused(Mp) /\ UNCHANGED <<heap, merged>>
    /\ UNCHANGED <<envVars, other, grew, gscVars>>
BuildMerged ==
    /\ pc = "merge" /\ pc' = "setup"
    /\ \/ ~merged /\ UNCHANGED <<heap, merged, faults>>
       \/ merged /\ Take("mp", Mp) /\ UNCHANGED merged
       \/ merged /\ Refused(Mp) /\ merged' = FALSE /\ UNCHANGED heap
    /\ UNCHANGED <<envVars, other, grew, gscVars>>

-----------------------------------------------------------------------------
\* The KV cache and the settings, MERGE=0 among them: too late to save the memory.  A
\* failure here, or a bad input file later, is a return that frees nothing.
Setup ==
    /\ pc = "setup"
    /\ \/ pc' = "prefill" /\ merged' = (merged /\ ~mergeOff) /\ UNCHANGED faults
       \/ Fault /\ pc' = "late" /\ UNCHANGED merged
    /\ UNCHANGED <<envVars, heap, other, grew, gscVars>>

\* With ion_db the pools of the large passes are freed before the decode steps.
ToDecode ==
    /\ pc = "prefill"
    /\ \/ /\ pc' = "decode" /\ UNCHANGED faults
          /\ IF mode = "ion_db" THEN Free({"high"}) ELSE UNCHANGED heap
       \/ Fault /\ pc' = "late" /\ UNCHANGED heap
    /\ UNCHANGED <<envVars, other, grew, merged, gscVars>>

\* The end of main; the command buffers go with the process.
Finish ==
    /\ pc \in {"prefill", "decode"} /\ pc' = "ok"
    /\ Free({"neuron", "gsc", "slots", "cent"})
    /\ UNCHANGED <<envVars, other, grew, merged, gscVars, faults>>

\* Other processes come and go.  What they hold no longer matters once this one only frees.
OthersMove ==
    /\ pc \notin Ended \cup {"cleanup"}
    /\ \E o \in Others :
         /\ o # other /\ Held + o <= Carveout
         /\ other' = o /\ grew' = (grew \/ o > other)
    /\ UNCHANGED <<pc, envVars, heap, merged, gscVars, faults>>

Done == pc \in Ended /\ UNCHANGED vars

Next ==
    \/ CleanupExit \/ AllocNeuron \/ StatLayer \/ AllocGsc \/ LoadGsc \/ MapGsc \/ LoadRms \/ AllocSlots \/ StartThread
    \/ PlaceCent \/ Precheck \/ BuildPool \/ BuildMerged \/ Setup \/ ToDecode \/ Finish
    \/ OthersMove \/ Done

Spec == Init /\ [][Next]_vars

-----------------------------------------------------------------------------
\* The caches are optional and leave the pools their room ("留足 pools/mp 余量"): as long
\* as the summary can be read and nobody else takes more, a start without ion_db that
\* stops for want of the pools would have stopped without any cache, too.
CachesYield ==
    pc = "pools" /\ mode # "ion_db" /\ debugfs /\ ~grew /\ faults = 0 =>
        Neuron + other + PoolsEst > Carveout

\* The budget of the comment above GSC_ION_LAYERS: in an empty carveout every
\* configuration starts, as long as nothing fails and no other process appears.
CleanStart == other = 0 /\ faults = 0 => pc \notin {"early", "pools", "late"}

\* Every forward finds what it uses: the neuron memory, the pools of its size, the
\* merged pool if it is to be used, the scales where gsc_ion_apply points; and with
\* ion_db, whose slots hold no scales, those of all the layers.
ForwardBacked ==
    pc \in {"prefill", "decode"} =>
        /\ held.neuron = Neuron /\ held.low = PoolsPerSet * Pool
        /\ pc = "prefill" => held.high = PoolsPerSet * Pool
        /\ merged => held.mp = Mp
        /\ held.gsc = gscN * GscLayer
        /\ gscN + ddr = L \/ (gscN + ddr = 0 /\ mode # "ion_db")
        /\ mode = "ion_db" => held.slots = NSlot * Slot

\* Every way out frees what it should, and once: after ion_cleanup_exit nothing is held,
\* at whichever step the start failed and whatever it had given up before ("free the
\* allocated chunks first, then exit", line 2197); after a run to its end nothing but the
\* command buffers, which go with the process; and nothing is freed again that a failed
\* load or the change to decode has freed before.  The two exits for want of the pools
\* (lines 2356 and 2371) are no part of that cleanup: they free the neuron memory and the
\* pools, and with ion_db leave the slots to the kernel.
FreedOnce ==
    /\ ~stale
    /\ pc = "early" => Held = 0
    /\ pc = "ok" => held.neuron = 0 /\ held.gsc = 0 /\ held.slots = 0 /\ held.cent = 0
    /\ pc = "pools" =>
          /\ held.neuron = 0 /\ held.low = 0 /\ held.high = 0
          /\ mode = "ion_db" => held.slots = NSlot * Slot

\* What that comment says of all failed allocations ("unified cleanup of the ION failure
\* paths"): no exit before the first forward leaves anything.  The two exits for want of
\* the pools do, so that TLC refutes this.
UnifiedCleanup == pc \in {"early", "pools"} => Held = 0
=============================================================================
