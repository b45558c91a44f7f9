----------------------------- MODULE SmolForward -----------------------------
(* The layer loop of the SmolLM2 engine (sm_forward_pool): the ION pool holds   *)
(* two banks of Mode layer slots.  The main thread computes the layers of one   *)
(* bank while a worker thread, created for one batch and joined before the next *)
(* is started, reads the following layers from the SD card into the other.  An  *)
(* SD or thread failure switches to the serial loop, one layer at a time.       *)
EXTENDS Integers, Sequences, FiniteSets

CONSTANTS
    L,          \* n_layers
    Mode,       \* pipeline_mode: layers per bank (1, 2 or 3)
    Passes,     \* forward passes modelled: prefill chunks and decode steps
    Faults,     \* subset of {"first", "create", "recreate", "read", "serial", "tpu"}
    MaxFault    \* failures per execution (a bound of the model)

ASSUME SizeAssumption ==
    /\ L \in Nat /\ Mode \in {1, 2, 3} /\ 2 * Mode <= L     \* 30 layers
    /\ Passes \in Nat /\ MaxFault \in Nat
ASSUME FaultAssumption ==
    Faults \subseteq {"first", "create", "recreate", "read", "serial", "tpu"}

NSlots == 2 * Mode       \* ion_n_slots, as main sets it
Slots == 0..NSlots-1
Layers == 0..L-1
Junk == L                \* half-read weights, or buffers of the LM head
Weights == Layers \cup {Junk}

VARIABLES
    pc,         \* where the main thread is in sm_forward_pool
    pass,       \* passes begun
    answer,     \* "none" during a pass; then what sm_forward_pool returned
    x,          \* the weights the activations of this pass have gone through
    kv,         \* per layer: x when the layer wrote its keys and values
    slot,       \* the weights in each slot of the ION pool
    bankA,      \* first slot of the bank being computed
    first,      \* first layer of the batch being computed (batch_start)
    at,         \* layer of the batch, or of the serial loop, in hand
    inflight,   \* pf_inflight
    ready,      \* pf_batch.ready: 0 loading, 1 done, -1 error
    job,        \* pf_batch: first layer, number of layers, first slot
    worker,     \* "none", or where the worker thread is
    done,       \* layers of the job the worker has finished
    faults      \* failures so far

mainVars == <<pc, pass, answer, x, kv, bankA, first, at, inflight, job>>
vars == <<pc, pass, answer, x, kv, slot, bankA, first, at, inflight, ready, job, worker, done, faults>>

Min2(a, b) == IF a < b THEN a ELSE b
bankB == Mode - bankA                  \* the other bank: slot Mode or 0
NoJob == [from |-> 0, n |-> 0, base |-> 0]

TypeOK ==
    /\ pc \in {"idle", "load", "start", "compute", "computing", "wait", "restart",
               "serial", "serialuse", "serialusing", "join"}
    /\ pass \in 0..Passes
    /\ answer \in {"none", "ok", "error"}
    /\ x \in Seq(Weights)
    /\ kv \in [Layers -> Seq(Weights)]
    /\ slot \in [Slots -> Weights]
    /\ bankA \in {0, Mode}
    /\ first \in 0..L /\ at \in 0..L
    /\ inflight \in BOOLEAN /\ ready \in {-1, 0, 1}
    /\ job \in [from : 0..L, n : 0..Mode, base : {0, Mode}]
    /\ worker \in {"none", "open", "read", "publish", "ended"}
    /\ done \in 0..Mode
    /\ faults \in 0..MaxFault

Init ==
    /\ pc = "idle" /\ pass = 0 /\ answer = "ok"
    /\ x = <<>> /\ kv = [l \in Layers |-> <<>>]
    /\ slot = [s \in Slots |-> Junk]
    /\ bankA = 0 /\ first = 0 /\ at = 0
    /\ inflight = FALSE /\ ready = 0 /\ job = NoJob
    /\ worker = "none" /\ done = 0 /\ faults = 0

\* A failure of the given kind, if the instance allows one more.
Fault(kind) == kind \in Faults /\ faults < MaxFault /\ faults' = faults + 1

-----------------------------------------------------------------------------
(* The main thread *)

\* A pass begins; the LM head of the pass before has used the slots as buffers.
Begin ==
    /\ pc = "idle" /\ answer = "ok" /\ pass < Passes
    /\ pc' = "load" /\ answer' = "none" /\ pass' = pass + 1
    /\ x' = <<>> /\ kv' = [l \in Layers |-> <<>>]
    /\ slot' = [s \in Slots |-> Junk]
    /\ bankA' = 0 /\ first' = 0 /\ at' = 0 /\ inflight' = FALSE
    /\ ready' = 0 /\ job' = NoJob
    /\ UNCHANGED <<worker, done, faults>>

Return(result) == pc' = "idle" /\ answer' = result
Serial == pc' = "serial" /\ at' = 0          \* use_pipeline = 0

\* The first batch is read by the main thread itself, layer by layer.
LoadFirst ==
    /\ pc = "load" /\ at < Mode
    /\ \/ /\ slot' = [slot EXCEPT ![bankA + at] = at]
          /\ at' = at + 1
          /\ UNCHANGED <<pc, faults>>
       \/ Fault("first") /\ Serial /\ slot' = [slot EXCEPT ![bankA + at] = Junk]
    /\ UNCHANGED <<pass, answer, x, kv, bankA, first, inflight, ready, job, worker, done>>

\* pf_start: fill in the job and create the worker for it.
StartJob(from, n, base) ==
    /\ job' = [from |-> from, n |-> n, base |-> base]
    /\ ready' = 0

StartFirst ==
    /\ pc = "load" /\ at = Mode
    /\ StartJob(Mode, Mode, bankB)
    /\ \/ pc' = "compute" /\ worker' = "open" /\ inflight' = TRUE /\ at' = 0 /\ UNCHANGED faults
       \/ Fault("create") /\ Serial /\ UNCHANGED <<worker, inflight>>
    /\ done' = 0
    /\ UNCHANGED <<pass, answer, x, kv, slot, bankA, first>>

\* sm_layer_forward on one layer of the active bank, from its first read of the
\* weights to its last; the keys and values are written from x as it was.
ComputeBegin ==
    /\ pc = "compute" /\ at < Mode /\ first + at < L
    /\ pc' = "computing"
    /\ kv' = [kv EXCEPT ![first + at] = x]
    /\ UNCHANGED <<pass, answer, x, slot, bankA, first, at, inflight, ready, job, worker, done, faults>>

ComputeEnd ==
    /\ pc = "computing"
    /\ pc' = "compute"
    /\ x' = Append(x, slot[bankA + at])
    /\ at' = at + 1
    /\ UNCHANGED <<pass, answer, kv, slot, bankA, first, inflight, ready, job, worker, done, faults>>

\* The layer fails on the TPU: the worker is joined, then the pass gives up.
ComputeFailsBug ==
    /\ pc = "computing" /\ Fault("tpu")
    /\ Return("error")
    /\ UNCHANGED <<pass, x, kv, slot, bankA, first, at, inflight, ready, job, worker, done>>
ComputeFails ==
    /\ pc = "computing" /\ (inflight => ready # 0)
    /\ Fault("tpu")
    /\ Return("error")
    /\ inflight' = FALSE /\ worker' = "none"
    /\ UNCHANGED <<pass, x, kv, slot, bankA, first, at, ready, job, done>>

BatchEnded == pc = "compute" /\ (at = Mode \/ first + at >= L)
IsLastBug == first + 2 * Mode >= L
IsLast == first + Mode >= L

LastBatch ==
    /\ BatchEnded /\ IsLast
    /\ pc' = "join"
    /\ UNCHANGED <<pass, answer, x, kv, slot, bankA, first, at, inflight, ready, job, worker, done, faults>>

\* pf_wait: sleep until the worker has published, join it; on success swap the
\* banks and start the next batch, on failure fall back to the serial loop.
NextBatchBug ==
    /\ BatchEnded /\ ~IsLast /\ ready = 1
    /\ worker' = "none" /\ inflight' = FALSE
    /\ bankA' = bankB /\ first' = first + Mode /\ at' = 0
    /\ LET next == first + 2 * Mode IN
         IF next >= L
         THEN pc' = "compute" /\ UNCHANGED <<ready, job>>
         ELSE pc' = "restart" /\ StartJob(next, Min2(L - next, Mode), bankB)
    /\ UNCHANGED <<pass, answer, x, kv, slot, done, faults>>
NextBatchUnclamped ==
    /\ BatchEnded /\ ~IsLast /\ ready = 1
    /\ worker' = "none" /\ inflight' = FALSE
    /\ bankA' = bankB /\ first' = first + Mode /\ at' = 0
    /\ LET next == first + 2 * Mode IN
         IF next >= L
         THEN pc' = "compute" /\ UNCHANGED <<ready, job>>
         ELSE pc' = "restart" /\ StartJob(next, L - next, bankA)
    /\ UNCHANGED <<pass, answer, x, kv, slot, done, faults>>
NextBatch ==
    /\ BatchEnded /\ ~IsLast /\ ready = 1
    /\ worker' = "none" /\ inflight' = FALSE
    /\ bankA' = bankB /\ first' = first + Mode /\ at' = 0
    /\ LET next == first + 2 * Mode IN
         IF next >= L
         THEN pc' = "compute" /\ UNCHANGED <<ready, job>>
         ELSE pc' = "restart" /\ StartJob(next, Min2(L - next, Mode), bankA)
    /\ UNCHANGED <<pass, answer, x, kv, slot, done, faults>>

BatchUnread ==
    /\ BatchEnded /\ ~IsLast /\ ready = -1
    /\ worker' = "none" /\ inflight' = FALSE
    /\ Serial
    /\ UNCHANGED <<pass, answer, x, kv, slot, bankA, first, ready, job, done, faults>>

StartNext ==
    /\ pc = "restart"
    /\ \/ pc' = "compute" /\ worker' = "open" /\ inflight' = TRUE /\ UNCHANGED <<at, faults>>
       \/ Fault("recreate") /\ Serial /\ UNCHANGED <<worker, inflight>>
    /\ done' = 0
    /\ UNCHANGED <<pass, answer, x, kv, slot, bankA, first, ready, job>>

-----------------------------------------------------------------------------
(* The serial loop: every layer through slot 0 *)

SerialLoad ==
    /\ pc = "serial" /\ at < L
    /\ \/ pc' = "serialuse" /\ slot' = [slot EXCEPT ![0] = at] /\ UNCHANGED <<answer, faults>>
       \/ Fault("serial") /\ Return("error") /\ slot' = [slot EXCEPT ![0] = Junk]
    /\ UNCHANGED <<pass, x, kv, bankA, first, at, inflight, ready, job, worker, done>>

SerialBegin ==
    /\ pc = "serialuse"
    /\ pc' = "serialusing" /\ kv' = [kv EXCEPT ![at] = x]
    /\ UNCHANGED <<pass, answer, x, slot, bankA, first, at, inflight, ready, job, worker, done, faults>>

SerialEnd ==
    /\ pc = "serialusing"
    /\ \/ /\ pc' = "serial" /\ x' = Append(x, slot[0]) /\ at' = at + 1
          /\ UNCHANGED <<answer, faults>>
       \/ Fault("tpu") /\ Return("error") /\ UNCHANGED <<x, at>>
    /\ UNCHANGED <<pass, kv, slot, bankA, first, inflight, ready, job, worker, done>>

SerialDone ==
    /\ pc = "serial" /\ at = L
    /\ pc' = "join"
    /\ UNCHANGED <<pass, answer, x, kv, slot, bankA, first, at, inflight, ready, job, worker, done, faults>>

\* A worker still in flight is joined before the LM head reuses the slots.
Join ==
    /\ pc = "join" /\ (inflight => ready # 0)
    /\ Return("ok")
    /\ inflight' = FALSE /\ worker' = "none"
    /\ UNCHANGED <<pass, x, kv, slot, bankA, first, at, ready, job, done, faults>>

-----------------------------------------------------------------------------
(* The worker thread *)

InHand == job.from + done        \* the layer the worker reads
Into == job.base + done          \* and the slot it reads it into

\* The next file of the job is opened; there is none left when done = n.
WorkerOpen ==
    /\ worker = "open"
    /\ \/ /\ done < job.n
          /\ worker' = "read" /\ slot' = [slot EXCEPT ![Into] = Junk]
          /\ UNCHANGED <<ready, faults>>
       \/ /\ done < job.n /\ Fault("read")
          /\ worker' = "ended" /\ ready' = -1 /\ UNCHANGED slot
       \/ /\ done = job.n
          /\ worker' = "publish" /\ UNCHANGED <<slot, ready, faults>>
    /\ UNCHANGED <<mainVars, done>>

\* Its bytes arrive in the slot as they are read.
WorkerReadBug ==
    /\ worker = "read"
    /\ \/ /\ worker' = "open" /\ slot' = [slot EXCEPT ![Into] = InHand]
          /\ done' = done + 1 /\ UNCHANGED faults
       \/ Fault("read") /\ worker' = "ended" /\ UNCHANGED <<slot, done>>
    /\ UNCHANGED <<mainVars, ready>>
WorkerRead ==
    /\ worker = "read"
    /\ \/ /\ worker' = "open" /\ slot' = [slot EXCEPT ![Into] = InHand]
          /\ done' = done + 1
          /\ UNCHANGED <<ready, faults>>
       \/ /\ Fault("read")
          /\ worker' = "ended" /\ ready' = -1 /\ UNCHANGED <<slot, done>>
    /\ UNCHANGED mainVars

WorkerPublish ==
    /\ worker = "publish"
    /\ worker' = "ended" /\ ready' = 1
    /\ UNCHANGED <<mainVars, slot, done, faults>>

-----------------------------------------------------------------------------
Main ==
    \/ Begin \/ LoadFirst \/ StartFirst
    \/ ComputeBegin \/ ComputeEnd \/ ComputeFails
    \/ LastBatch \/ NextBatch \/ BatchUnread \/ StartNext
    \/ SerialLoad \/ SerialBegin \/ SerialEnd \/ SerialDone
    \/ Join
Worker == WorkerOpen \/ WorkerRead \/ WorkerPublish

Next == Main \/ Worker
Spec == Init /\ [][Next]_vars
\* Both threads are scheduled; SD reads and TPU submits return.
FairSpec == Spec /\ WF_vars(Main) /\ WF_vars(Worker)

-----------------------------------------------------------------------------
InOrder(n) == [i \in 1..n |-> i - 1]

Exact == x = InOrder(L) /\ \A l \in Layers : kv[l] = InOrder(l)

\* A pass that answers ok has sent the activations through every layer once, in
\* order, with that layer's own weights, and every layer's keys and values were
\* written from what the layers before it produced (the fallback of sm_forward_pool
\* is only slower).
ForwardExact == (answer = "ok" /\ pass > 0) => Exact

\* The same, for every pass that did not begin the layers again after it had
\* computed some: whatever fails, no pass skips a layer or uses wrong weights.
ExactUnlessRestarted == (answer = "ok" /\ pass > 0 /\ Len(x) <= L) => Exact

\* The worker never reads into the slot the main thread computes from or fills.
Computing ==
    CASE pc \in {"load", "computing"} -> {bankA + at}
      [] pc \in {"serial", "serialuse", "serialusing"} -> {0}
      [] OTHER -> {}
BankExclusive == worker = "read" => Into \notin Computing

\* The worker works for one pass only: its job lives on that pass's stack, and
\* the LM head that follows uses the slots as buffers.
WorkerJoined == pc = "idle" => worker = "none"

\* Every pass answers, whatever fails.
PassAnswers == (answer = "none") ~> (answer # "none")
=============================================================================
