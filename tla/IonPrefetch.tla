----------------------------- MODULE IonPrefetch -----------------------------
(***************************************************************************)
(* LW_READ=ion_db of qwen_engine_lmhead2.c: the nibble region of every     *)
(* weight matrix is read from the SD card into one of NSlot ION buffers by *)
(* a prefetch thread ("sd") while the main thread ("main") multiplies.     *)
(*                                                                         *)
(* Steps are as atomic as the locks make them: what one thread does while  *)
(* it holds g_ion_mtx is one action; open(), each pread() into the bounce  *)
(* buffer and each memcpy() out of it happen without the lock and are      *)
(* actions of their own.  pthread_cond_wait releases the lock: the thread  *)
(* is then a member of the wait set of the condition variable until the    *)
(* other thread signals it, and evaluates its loop condition again.        *)
(*                                                                         *)
(* Matrices are numbered as in the code: midx = g_pass_base + l*NMAT + mi, *)
(* never reset between passes; pos = midx - g_pass_base is "rem".          *)
(***************************************************************************)
EXTENDS Integers, Sequences

CONSTANTS
    NSlot,          \* SD_NSLOT
    QCap,           \* SD_QCAP
    Lookahead,      \* SD_LOOKAHEAD
    Layers,         \* L
    NMat,           \* NMAT
    UpMat,          \* index of the up matrix in a layer; gate is the next one
    MaxChunk,       \* bounce-buffer loads of the largest matrix
    Chunks,         \* loads of each matrix: ceil(g_mat_len[mi] / SD_BOUNCE_SZ)
    Forwards,       \* the forwards run: "prompt" (run_prompt), "decode" (run_decode_step)
    Faults,         \* what the SD card may do: "open" and "read" may fail
    MaxFault,       \* bound: failures of one execution
    MaxPass         \* bound: forwards of one execution

ASSUME SlotAssumption == NSlot \in Nat \ {0}
ASSUME QueueAssumption == QCap \in Nat \ {0} /\ Lookahead \in Nat \ {0}
ASSUME ModelAssumption ==
    /\ Layers \in Nat \ {0} /\ NMat \in Nat \ {0} /\ MaxChunk \in Nat \ {0}
    /\ UpMat \in Nat /\ UpMat + 1 < NMat
    /\ Chunks \in [0..NMat-1 -> 1..MaxChunk]
ASSUME WorkloadAssumption ==
    /\ Forwards \in {{"prompt"}, {"prompt", "decode"}}
    /\ Faults \subseteq {"open", "read"}
    /\ MaxFault \in Nat /\ MaxPass \in Nat \ {0}

Slots == 0..NSlot-1
PassLen == Layers * NMat
Free == -1          \* g_sd_midx of an empty slot
Reading == -2       \* g_sd_midx of a slot being filled
Nowhere == -1       \* a NULL nib pointer
Closed == -1        \* g_nib_fd < 0

Layer(pos) == pos \div NMat
Mat(pos) == pos % NMat

\* Chunk c of the file region of matrix pos, and a whole matrix of them.
Chunk(pos, c) == <<pos, c>>
Junk == <<-1, 0>>
Contents == ((0..PassLen-1) \X (1..MaxChunk)) \cup {Junk}
FileBytes(pos) == [c \in 1..Chunks[Mat(pos)] |-> Chunk(pos, c)]

VARIABLES
    sdMidx, sdReady,        \* g_sd_midx, g_sd_ready
    sdData,                 \* what the ION memory of each slot holds
    req,                    \* g_req_q from g_req_head on, g_req_n long
    pushed, consumed,       \* g_pushed_max, g_consumed_max
    pfFail,                 \* the rem with g_pf_fail set
    passBase,               \* g_pass_base
    busy, shutdown,         \* g_busy, g_ion_shutdown
    bounce,                 \* g_bounce, one buffer for both threads
    fd,                     \* g_nib_fd_l, or Closed
    reqWait, doneWait,      \* threads blocked on g_ion_req_cv, g_ion_done_cv
    nib,                    \* LayerRef: the slot each nib pointer points into
    mainPC, sdPC,           \* where the two threads are
    main,                   \* the main thread: kind of forward, position, matrix being
                            \* multiplied, slot and chunk it is filling
    sd,                     \* the prefetch thread: matrix, slot and chunk in flight
    faults,                 \* SD failures so far
    stream                  \* history: matrices multiplied, bytes the last one read,
                            \* matrices the prefetch thread dropped on a failed open

slotVars == <<sdMidx, sdReady, sdData>>
queueVars == <<req, pushed, consumed>>
condVars == <<reqWait, doneWait>>
mainVars == <<mainPC, main>>
sdVars == <<sdPC, sd>>
vars == <<slotVars, queueVars, pfFail, passBase, busy, shutdown, bounce, fd,
          condVars, nib, mainVars, sdVars, faults, stream>>

MainPCs == {"fetch", "cold", "await", "refill", "sync", "pread", "memcpy",
            "place", "use", "drain", "head", "join", "done", "exit"}
SdPCs == {"loop", "open", "nofd", "pread", "memcpy", "publish", "perr", "gone"}

MainState == [kind: Forwards, pos: 0..PassLen-1, use: 0..NMat-1,
              slot: Slots, chunk: 1..MaxChunk+1]
SdState == [midx: Nat, slot: Slots, chunk: 1..MaxChunk+1]

TypeOK ==
    /\ sdMidx \in [Slots -> {Free, Reading} \cup Nat]
    /\ sdReady \in [Slots -> BOOLEAN]
    /\ sdData \in [Slots -> [1..MaxChunk -> Contents]]
    /\ req \in Seq(Nat)
    /\ pushed \in Nat \cup {-1} /\ consumed \in Nat \cup {-1}
    /\ pfFail \subseteq 0..PassLen-1
    /\ passBase \in Nat /\ busy \in 0..1 /\ shutdown \in BOOLEAN
    /\ bounce \in Contents
    /\ fd \in {Closed} \cup 0..Layers-1
    /\ reqWait \subseteq {"main", "sd"} /\ doneWait \subseteq {"main"}
    /\ nib \in [0..NMat-1 -> {Nowhere} \cup Slots]
    /\ mainPC \in MainPCs /\ sdPC \in SdPCs
    /\ main \in MainState /\ sd \in SdState
    /\ faults \in 0..MaxFault

Init ==
    /\ sdMidx = [s \in Slots |-> Free] /\ sdReady = [s \in Slots |-> FALSE]
    /\ sdData = [s \in Slots |-> [c \in 1..MaxChunk |-> Junk]]
    /\ req = <<>> /\ pushed = -1 /\ consumed = -1
    /\ pfFail = {} /\ passBase = 0 /\ busy = 0 /\ shutdown = FALSE
    /\ bounce = Junk /\ fd = Closed
    /\ reqWait = {} /\ doneWait = {}
    /\ nib = [mi \in 0..NMat-1 |-> Nowhere]
    /\ mainPC = "head" /\ sdPC = "loop"
    /\ main = [kind |-> "prompt", pos |-> 0, use |-> 0, slot |-> 0, chunk |-> 1]
    /\ sd = [midx |-> 0, slot |-> 0, chunk |-> 1]
    /\ faults = 0
    /\ stream = [served |-> 0, bytes |-> <<>>, dropped |-> {}]

-----------------------------------------------------------------------------
(* Operators on the shared state, used with the lock held.                 *)

\* Mutants: an operator XxxBug is a plausible bug in the definition Xxx below it, kept
\* to show that the properties notice it; nothing refers to it.
\* slot_find_free: the lowest empty slot; every slot can take every matrix.
FirstFree(sm, s) == sm[s] = Free /\ \A t \in 0..s-1 : sm[t] # Free
NoneFree(sm) == \A s \in Slots : sm[s] # Free

Lower(a, b) == IF a <= b THEN a ELSE b

\* The end of the pass is forgotten.
TopupEndBug(p, c) == Lower(c + Lookahead, p + QCap - Len(req))

\* The matrix topup stops after: the lookahead, the end of the pass, a full queue.
TopupEnd(p, c) ==
    Lower(Lower(c + Lookahead, passBase + PassLen - 1), p + QCap - Len(req))

\* req_push(g_pushed_max++) for req_push(++g_pushed_max).
TopupBug(p, c) ==
    LET n == IF TopupEnd(p, c) > p THEN TopupEnd(p, c) - p ELSE 0 IN
    /\ req' = req \o [i \in 1..n |-> p + i - 1]
    /\ pushed' = p + n

\* ion_topup after matrix c was consumed and p is the last one pushed: push the
\* next ones in order, then signal g_ion_req_cv (only "sd" can be waiting on it,
\* the caller is the main thread).
Topup(p, c) ==
    LET n == IF TopupEnd(p, c) > p THEN TopupEnd(p, c) - p ELSE 0 IN
    /\ req' = req \o [i \in 1..n |-> p + i]
    /\ pushed' = p + n

\* What the thread that runs leaves in the wait set when it signals or broadcasts.
Signalled == {}

-----------------------------------------------------------------------------
(* The main thread: layer_io_mat, ion_mat_sync, the forward pass around it. *)

Midx == passBase + main.pos

\* layer_io_mat returns slot s.  A forward multiplies what it has fetched, except
\* that run_decode_step fetches gate before it multiplies up.
Hand(s) ==
    /\ nib' = [nib EXCEPT ![Mat(main.pos)] = s]
    /\ IF main.kind = "decode" /\ Mat(main.pos) = UpMat
       THEN mainPC' = "fetch" /\ main' = [main EXCEPT !.pos = main.pos + 1]
       ELSE mainPC' = "use" /\ main' = [main EXCEPT !.use =
                         IF main.kind = "decode" /\ Mat(main.pos) = UpMat + 1
                         THEN UpMat ELSE Mat(main.pos)]

\* The slot is not marked as being filled.
ClaimBug(sm, waiting, waitPC) ==
    \/ \E s \in Slots :
         /\ FirstFree(sm, s)
         /\ sdMidx' = sm
         /\ mainPC' = "sync" /\ main' = [main EXCEPT !.slot = s]
         /\ reqWait' = waiting
    \/ /\ NoneFree(sm)
       /\ sdMidx' = sm
       /\ mainPC' = waitPC /\ UNCHANGED main
       /\ reqWait' = waiting \cup {"main"}

\* Take a free slot for a read by this thread, or wait on g_ion_req_cv for one; sm
\* is g_sd_midx and waiting the wait set at this point of the critical section.
Claim(sm, waiting, waitPC) ==
    \/ \E s \in Slots :
         /\ FirstFree(sm, s)
         /\ sdMidx' = [sm EXCEPT ![s] = Reading]
         /\ mainPC' = "sync" /\ main' = [main EXCEPT !.slot = s]
         /\ reqWait' = waiting
    \/ /\ NoneFree(sm)
       /\ sdMidx' = sm
       /\ mainPC' = waitPC /\ UNCHANGED main
       /\ reqWait' = waiting \cup {"main"}

\* The loop that waits for matrix Midx: it has arrived, or its prefetch has failed
\* and the main thread reads it itself, or wait on g_ion_done_cv.
AwaitMat(sm, ready, waiting) ==
    /\ sdReady' = ready
    /\ \/ \E s \in Slots :
            /\ sm[s] = Midx /\ ready[s]
            /\ Hand(s)
            /\ sdMidx' = sm /\ reqWait' = waiting
            /\ UNCHANGED <<pfFail, doneWait>>
       \/ /\ \A s \in Slots : ~(sm[s] = Midx /\ ready[s])
          /\ main.pos \in pfFail
          /\ pfFail' = pfFail \ {main.pos}
          /\ Claim(sm, waiting, "refill")
          /\ UNCHANGED <<nib, doneWait>>
       \/ /\ \A s \in Slots : ~(sm[s] = Midx /\ ready[s])
          /\ main.pos \notin pfFail
          /\ mainPC' = "await" /\ UNCHANGED main
          /\ doneWait' = doneWait \cup {"main"}
          /\ sdMidx' = sm /\ reqWait' = waiting
          /\ UNCHANGED <<pfFail, nib>>

\* layer_io_mat releases the slot of matrix midx-1.
Released(s) == Midx > 0 /\ sdMidx[s] = Midx - 1
ReleasedMidx == [s \in Slots |-> IF Released(s) THEN Free ELSE sdMidx[s]]
ReleasedReady == [s \in Slots |-> IF Released(s) THEN FALSE ELSE sdReady[s]]

\* layer_io_mat, matrix not in the pipeline (first of a pass): read it here.
FetchCold ==
    /\ mainPC = "fetch" /\ Midx > pushed
    /\ consumed' = Midx - 1
    /\ sdReady' = ReleasedReady
    /\ Claim(ReleasedMidx, reqWait, "cold")
    /\ UNCHANGED <<sdData, req, pushed, pfFail, passBase, busy, shutdown, bounce,
                   fd, doneWait, nib, sdVars, faults, stream>>

\* layer_io_mat, matrix in the pipeline: top the queue up and wait for the matrix.
FetchPipelined ==
    /\ mainPC = "fetch" /\ Midx <= pushed
    /\ consumed' = Midx - 1
    /\ Topup(pushed, Midx - 1)
    /\ AwaitMat(ReleasedMidx, ReleasedReady, Signalled)
    /\ UNCHANGED <<sdData, passBase, busy, shutdown, bounce, fd, sdVars, faults, stream>>

\* Woken on g_ion_done_cv: evaluate the loop again.
AwaitWoken ==
    /\ mainPC = "await" /\ "main" \notin doneWait
    /\ AwaitMat(sdMidx, sdReady, reqWait)
    /\ UNCHANGED <<sdData, queueVars, passBase, busy, shutdown, bounce, fd, sdVars,
                   faults, stream>>

\* Woken on g_ion_req_cv in the cold path or in the failed path.
ClaimWoken ==
    /\ mainPC \in {"cold", "refill"} /\ "main" \notin reqWait
    /\ Claim(sdMidx, reqWait, mainPC)
    /\ UNCHANGED <<sdReady, sdData, queueVars, pfFail, passBase, busy, shutdown,
                   bounce, fd, doneWait, nib, sdVars, faults, stream>>

\* ion_mat_sync opens the layer file; a failure is exit(2).
SyncOpen ==
    /\ mainPC = "sync"
    /\ mainPC' = "pread" /\ main' = [main EXCEPT !.chunk = 1]
    /\ UNCHANGED <<slotVars, queueVars, pfFail, passBase, busy, shutdown, bounce, fd,
                   condVars, nib, sdVars, faults, stream>>

SyncPread ==
    /\ mainPC = "pread"
    /\ bounce' = Chunk(main.pos, main.chunk)
    /\ mainPC' = "memcpy" /\ UNCHANGED main
    /\ UNCHANGED <<slotVars, queueVars, pfFail, passBase, busy, shutdown, fd,
                   condVars, nib, sdVars, faults, stream>>

SyncMemcpy ==
    /\ mainPC = "memcpy"
    /\ sdData' = [sdData EXCEPT ![main.slot][main.chunk] = bounce]
    /\ main' = [main EXCEPT !.chunk = main.chunk + 1]
    /\ mainPC' = IF main.chunk < Chunks[Mat(main.pos)] THEN "pread" ELSE "place"
    /\ UNCHANGED <<sdMidx, sdReady, queueVars, pfFail, passBase, busy, shutdown,
                   bounce, fd, condVars, nib, sdVars, faults, stream>>

\* open or pread fails in ion_mat_sync: exit(2), which ends both threads.
SyncFails ==
    /\ faults < MaxFault
    /\ \/ mainPC = "sync" /\ "open" \in Faults
       \/ mainPC = "pread" /\ "read" \in Faults
    /\ faults' = faults + 1
    /\ mainPC' = "exit" /\ UNCHANGED main
    /\ UNCHANGED <<slotVars, queueVars, pfFail, passBase, busy, shutdown, bounce, fd,
                   condVars, nib, sdVars, stream>>

\* The failed path moves g_pushed_max too.
SyncPlaceBug ==
    /\ mainPC = "place"
    /\ sdMidx' = [sdMidx EXCEPT ![main.slot] = Midx]
    /\ sdReady' = [sdReady EXCEPT ![main.slot] = TRUE]
    /\ Hand(main.slot)
    /\ Topup(Midx, consumed) /\ reqWait' = Signalled
    /\ UNCHANGED <<sdData, consumed, pfFail, passBase, busy, shutdown, bounce, fd,
                   doneWait, sdVars, faults, stream>>

\* Lock again: the matrix is in its slot.  Only the cold path pushes (pushed = midx,
\* then topup); the failed path read a matrix that had been pushed before.
SyncPlace ==
    /\ mainPC = "place"
    /\ sdMidx' = [sdMidx EXCEPT ![main.slot] = Midx]
    /\ sdReady' = [sdReady EXCEPT ![main.slot] = TRUE]
    /\ Hand(main.slot)
    /\ \/ Midx > pushed /\ Topup(Midx, consumed) /\ reqWait' = Signalled
       \/ Midx <= pushed /\ UNCHANGED <<req, pushed, reqWait>>
    /\ UNCHANGED <<sdData, consumed, pfFail, passBase, busy, shutdown, bounce, fd,
                   doneWait, sdVars, faults, stream>>

\* The matmul over nib[use] ends; then up is followed by gate in a decode step, any
\* other matrix by the next fetch, the last one of the pass by ion_drain.
\* layer_io_lr sets the nib pointers to NULL when a layer begins.
UseEnd ==
    /\ mainPC = "use"
    /\ stream' = [stream EXCEPT
                    !.served = @ + 1,
                    !.bytes = [c \in 1..Chunks[main.use] |-> sdData[nib[main.use]][c]]]
    /\ \/ /\ main.use # Mat(main.pos)
          /\ main' = [main EXCEPT !.use = main.use + 1]
          /\ UNCHANGED <<mainPC, nib>>
       \/ /\ main.use = Mat(main.pos) /\ main.pos < PassLen - 1
          /\ mainPC' = "fetch" /\ main' = [main EXCEPT !.pos = main.pos + 1]
          /\ nib' = IF Mat(main.pos + 1) = 0 THEN [mi \in 0..NMat-1 |-> Nowhere] ELSE nib
       \/ /\ main.use = Mat(main.pos) /\ main.pos = PassLen - 1
          /\ mainPC' = "drain" /\ UNCHANGED main
          /\ UNCHANGED nib
    /\ UNCHANGED <<slotVars, queueVars, pfFail, passBase, busy, shutdown, bounce, fd,
                   condVars, sdVars, faults>>

\* The pipeline is refilled for the next pass before the LM head runs.
DrainBug ==
    /\ mainPC = "drain" /\ "main" \notin doneWait
    /\ Len(req) = 0 /\ busy = 0
    /\ passBase' = passBase + PassLen
    /\ req' = <<passBase + PassLen>> /\ pushed' = passBase + PassLen
    /\ mainPC' = "head" /\ UNCHANGED main
    /\ reqWait' = Signalled
    /\ UNCHANGED <<slotVars, consumed, pfFail, busy, shutdown, bounce, fd, doneWait,
                   nib, sdVars, faults, stream>>

\* ion_drain waits for an empty queue and no read in flight, then run_prompt and
\* run_decode_step move g_pass_base on and run the LM head.
Drain ==
    /\ mainPC = "drain" /\ "main" \notin doneWait
    /\ \/ /\ Len(req) > 0 \/ busy > 0
          /\ doneWait' = doneWait \cup {"main"}
          /\ UNCHANGED <<mainVars, passBase>>
       \/ /\ Len(req) = 0 /\ busy = 0
          /\ passBase' = passBase + PassLen
          /\ mainPC' = "head" /\ UNCHANGED main
          /\ UNCHANGED doneWait
    /\ UNCHANGED <<slotVars, queueVars, pfFail, busy, shutdown, bounce, fd, reqWait,
                   nib, sdVars, faults, stream>>

\* The next forward: main() runs prompts before it runs decode steps.
NextForward ==
    /\ mainPC = "head" /\ passBase < MaxPass * PassLen
    /\ \E k \in Forwards :
         /\ k = "decode" => passBase > 0
         /\ main.kind = "decode" => k = "decode"
         /\ mainPC' = "fetch" /\ main' = [main EXCEPT !.pos = 0, !.kind = k]
    /\ nib' = [mi \in 0..NMat-1 |-> Nowhere]
    /\ UNCHANGED <<slotVars, queueVars, pfFail, passBase, busy, shutdown, bounce, fd,
                   condVars, sdVars, faults, stream>>

\* The end of main(): g_ion_shutdown, broadcast on both condition variables, join.
Shutdown ==
    /\ mainPC = "head"
    /\ shutdown' = TRUE
    /\ reqWait' = Signalled /\ doneWait' = Signalled
    /\ mainPC' = "join" /\ UNCHANGED main
    /\ UNCHANGED <<slotVars, queueVars, pfFail, passBase, busy, bounce, fd, nib, sdVars,
                   faults, stream>>

Join ==
    /\ mainPC = "join" /\ sdPC = "gone"
    /\ mainPC' = "done" /\ UNCHANGED main
    /\ UNCHANGED <<slotVars, queueVars, pfFail, passBase, busy, shutdown, bounce, fd,
                   condVars, nib, sdVars, faults, stream>>

MainNext ==
    \/ FetchCold \/ FetchPipelined \/ AwaitWoken \/ ClaimWoken
    \/ SyncOpen \/ SyncPread \/ SyncMemcpy \/ SyncFails \/ SyncPlace
    \/ UseEnd \/ Drain \/ NextForward \/ Shutdown \/ Join

-----------------------------------------------------------------------------
(* The prefetch thread: ion_prefetch_thread.                               *)

\* exit(2) of the main thread ends the process.
Alive == mainPC # "exit"

SdPos == sd.midx % PassLen

\* Top of the loop with the lock held: leave, take the head request into the first
\* free slot (req_peek_fit: the queue is scanned for a request that fits, and every
\* slot fits every request), or wait on g_ion_req_cv.
SdLeave ==
    /\ Alive /\ sdPC = "loop" /\ "sd" \notin reqWait
    /\ shutdown
    /\ fd' = Closed
    /\ sdPC' = "gone" /\ UNCHANGED sd
    /\ UNCHANGED <<slotVars, queueVars, pfFail, passBase, busy, shutdown, bounce,
                   condVars, nib, mainVars, faults, stream>>

SdTake ==
    /\ Alive /\ sdPC = "loop" /\ "sd" \notin reqWait
    /\ ~shutdown /\ Len(req) > 0
    /\ \E s \in Slots :
         /\ FirstFree(sdMidx, s)
         /\ sdMidx' = [sdMidx EXCEPT ![s] = Reading]
         /\ sdPC' = "open" /\ sd' = [sd EXCEPT !.midx = Head(req), !.slot = s]
    /\ req' = Tail(req)
    /\ busy' = busy + 1
    /\ UNCHANGED <<sdReady, sdData, pushed, consumed, pfFail, passBase, shutdown,
                   bounce, fd, condVars, nib, mainVars, faults, stream>>

SdWait ==
    /\ Alive /\ sdPC = "loop" /\ "sd" \notin reqWait
    /\ ~shutdown /\ (Len(req) = 0 \/ NoneFree(sdMidx))
    /\ reqWait' = reqWait \cup {"sd"}
    /\ UNCHANGED <<slotVars, queueVars, pfFail, passBase, busy, shutdown, bounce, fd,
                   doneWait, nib, mainVars, sdVars, faults, stream>>

\* The descriptor is kept although the layer has changed.
SdOpenBug ==
    /\ Alive /\ sdPC = "open"
    /\ fd' = IF fd = Closed THEN Layer(SdPos) ELSE fd
    /\ sdPC' = "pread" /\ sd' = [sd EXCEPT !.chunk = 1]
    /\ UNCHANGED <<slotVars, queueVars, pfFail, passBase, busy, shutdown, bounce,
                   condVars, nib, mainVars, faults, stream>>

\* The descriptor of the layer file is kept while the layer stays the same.
SdOpen ==
    /\ Alive /\ sdPC = "open"
    /\ \/ /\ fd' = Layer(SdPos)
          /\ sdPC' = "pread" /\ sd' = [sd EXCEPT !.chunk = 1]
          /\ UNCHANGED faults
       \/ /\ "open" \in Faults /\ faults < MaxFault /\ fd # Layer(SdPos)
          /\ fd' = Closed
          /\ sdPC' = "nofd" /\ UNCHANGED sd
          /\ faults' = faults + 1
    /\ UNCHANGED <<slotVars, queueVars, pfFail, passBase, busy, shutdown, bounce,
                   condVars, nib, mainVars, stream>>

\* The file could not be opened: the request is dropped.  g_pf_fail is not set and
\* g_ion_done_cv is not signalled.
SdNoFd ==
    /\ Alive /\ sdPC = "nofd"
    /\ sdMidx' = [sdMidx EXCEPT ![sd.slot] = Free]
    /\ busy' = busy - 1
    /\ reqWait' = Signalled
    /\ sdPC' = "loop" /\ UNCHANGED sd
    /\ stream' = [stream EXCEPT !.dropped = @ \cup {sd.midx}]
    /\ UNCHANGED <<sdReady, sdData, queueVars, pfFail, passBase, shutdown, bounce, fd,
                   doneWait, nib, mainVars, faults>>

SdPread ==
    /\ Alive /\ sdPC = "pread"
    /\ \/ /\ bounce' = Chunk(fd * NMat + Mat(SdPos), sd.chunk)
          /\ sdPC' = "memcpy" /\ UNCHANGED sd
          /\ UNCHANGED faults
       \/ /\ "read" \in Faults /\ faults < MaxFault
          /\ sdPC' = "perr" /\ UNCHANGED sd
          /\ faults' = faults + 1
          /\ UNCHANGED bounce
    /\ UNCHANGED <<slotVars, queueVars, pfFail, passBase, busy, shutdown, fd,
                   condVars, nib, mainVars, stream>>

\* The last load is not copied.
SdMemcpyBug ==
    /\ Alive /\ sdPC = "memcpy"
    /\ sdData' = [sdData EXCEPT ![sd.slot][sd.chunk] = bounce]
    /\ sd' = [sd EXCEPT !.chunk = sd.chunk + 1]
    /\ sdPC' = IF sd.chunk + 1 < Chunks[Mat(SdPos)] THEN "pread" ELSE "publish"
    /\ UNCHANGED <<sdMidx, sdReady, queueVars, pfFail, passBase, busy, shutdown,
                   bounce, fd, condVars, nib, mainVars, faults, stream>>

SdMemcpy ==
    /\ Alive /\ sdPC = "memcpy"
    /\ sdData' = [sdData EXCEPT ![sd.slot][sd.chunk] = bounce]
    /\ sd' = [sd EXCEPT !.chunk = sd.chunk + 1]
    /\ sdPC' = IF sd.chunk < Chunks[Mat(SdPos)] THEN "pread" ELSE "publish"
    /\ UNCHANGED <<sdMidx, sdReady, queueVars, pfFail, passBase, busy, shutdown,
                   bounce, fd, condVars, nib, mainVars, faults, stream>>

\* g_busy is not decremented.
SdPublishBusyBug ==
    /\ Alive /\ sdPC = "publish"
    /\ sdMidx' = [sdMidx EXCEPT ![sd.slot] = sd.midx]
    /\ sdReady' = [sdReady EXCEPT ![sd.slot] = TRUE]
    /\ reqWait' = Signalled /\ doneWait' = Signalled
    /\ sdPC' = "loop" /\ UNCHANGED sd
    /\ UNCHANGED <<sdData, queueVars, pfFail, passBase, busy, shutdown, bounce, fd,
                   nib, mainVars, faults, stream>>

\* A failed read is not recorded.
SdPublishFailBug ==
    /\ Alive /\ sdPC \in {"publish", "perr"}
    /\ sdMidx' = [sdMidx EXCEPT ![sd.slot] = IF sdPC = "perr" THEN Free ELSE sd.midx]
    /\ sdReady' = [sdReady EXCEPT ![sd.slot] = (sdPC # "perr")]
    /\ busy' = busy - 1
    /\ reqWait' = Signalled /\ doneWait' = Signalled
    /\ sdPC' = "loop" /\ UNCHANGED sd
    /\ UNCHANGED <<sdData, queueVars, pfFail, passBase, shutdown, bounce, fd, nib,
                   mainVars, faults, stream>>

\* Lock again: publish the slot, or mark the matrix failed and free the slot; then
\* wake the main thread wherever it waits.
SdPublish ==
    /\ Alive /\ sdPC \in {"publish", "perr"}
    /\ \/ /\ sdPC = "publish"
          /\ sdMidx' = [sdMidx EXCEPT ![sd.slot] = sd.midx]
          /\ sdReady' = [sdReady EXCEPT ![sd.slot] = TRUE]
          /\ pfFail' = pfFail \ {SdPos}
       \/ /\ sdPC = "perr"
          /\ sdMidx' = [sdMidx EXCEPT ![sd.slot] = Free]
          /\ pfFail' = pfFail \cup {SdPos}
          /\ UNCHANGED sdReady
    /\ busy' = busy - 1
    /\ reqWait' = Signalled /\ doneWait' = Signalled
    /\ sdPC' = "loop" /\ UNCHANGED sd
    /\ UNCHANGED <<sdData, queueVars, passBase, shutdown, bounce, fd, nib, mainVars,
                   faults, stream>>

SdNext ==
    \/ SdLeave \/ SdTake \/ SdWait \/ SdOpen \/ SdNoFd \/ SdPread \/ SdMemcpy
    \/ SdPublish

Terminated ==
    /\ mainPC \in {"done", "exit"}
    /\ UNCHANGED vars

Next == MainNext \/ SdNext \/ Terminated

Spec == Init /\ [][Next]_vars

\* Both are POSIX threads of one process, scheduled by the kernel, and the SD card
\* answers every open and pread, possibly with an error.
FairSpec == Spec /\ WF_vars(MainNext) /\ WF_vars(SdNext)

-----------------------------------------------------------------------------
(* Properties                                                              *)

\* "Bit-exact by construction" (the comment above layer_io_mat): as long as a matmul
\* runs, the slot its nib pointer points into holds the file bytes of its matrix.
BitExact ==
    mainPC = "use" =>
        \A c \in 1..Chunks[main.use] :
            sdData[nib[main.use]][c] = Chunk((main.pos - Mat(main.pos)) + main.use, c)

\* Every matmul but that of up in a decode step, which runs after gate was fetched, reads
\* the file bytes of its matrix, up to the first failed read: from then on the two
\* threads may fill the one bounce buffer at the same time.
ReadsFine == "read" \notin Faults \/ faults = 0
OwnBytes ==
    mainPC = "use" /\ main.use = Mat(main.pos) /\ ReadsFine =>
        \A c \in 1..Chunks[main.use] : sdData[nib[main.use]][c] = Chunk(main.pos, c)

SdWrites == sdPC \in {"open", "nofd", "pread", "memcpy", "publish", "perr"}
MainWrites == mainPC \in {"sync", "pread", "memcpy", "place"}

\* A slot that is being filled has one writer: the two threads claim slots with the
\* lock held and fill them without it.
SlotExclusive == SdWrites /\ MainWrites => sd.slot # main.slot

\* A matrix that was pushed and is still to be multiplied is never forgotten: it is
\* queued, being read, in its slot, or marked failed so that the main thread reads
\* it itself; the only one that gets lost is one whose file could not be opened.
NothingLost ==
    mainPC # "exit" => \A m \in consumed + 1 .. pushed :
        \/ \E i \in 1..Len(req) : req[i] = m
        \/ SdWrites /\ sd.midx = m
        \/ MainWrites /\ Midx = m
        \/ mainPC = "refill" /\ Midx = m
        \/ \E s \in Slots : sdMidx[s] = m /\ sdReady[s]
        \/ m - passBase \in pfFail
        \/ m \in stream.dropped

\* The queue holds consecutive matrices up to g_pushed_max, all of this pass and all
\* still to be multiplied, and no matrix is in two slots.
QueueInOrder ==
    /\ \A i \in 1..Len(req) : req[i] = pushed - Len(req) + i
    /\ Len(req) > 0 => req[1] > consumed
    /\ Len(req) <= Lower(QCap, Lookahead)
    /\ pushed < passBase + PassLen
    /\ \A s, t \in Slots : sdMidx[s] = sdMidx[t] /\ sdMidx[s] >= 0 => s = t

\* While the LM head reads the SD card (and until the next pass starts) the prefetch
\* thread does not: ion_drain leaves it idle.
HeadQuiet == mainPC \in {"head", "join", "done"} => Len(req) = 0 /\ busy = 0 /\ ~SdWrites

\* Every execution comes to the end of main() with the prefetch thread joined.
Terminates == <>(mainPC = "done")

\* When a prefetch fails the main thread "no longer waits forever": it reads the matrix
\* itself (the comments on g_pf_fail and on the wait loop of layer_io_mat).
AwaitAnswered == mainPC \in {"await", "refill"} ~> mainPC \notin {"await", "refill"}

\* The prefetcher implements the stream of weights the layer loop expects.
Stream == INSTANCE WeightStream WITH
    served <- stream.served, bytes <- stream.bytes, open <- ~shutdown,
    BytesOf <- FileBytes, NoBytes <- <<>>
StreamSpec == Stream!Spec
=============================================================================
