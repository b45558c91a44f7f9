------------------------- MODULE SmolForwardProofs -------------------------
(* What TLAPS proves of SmolForward, for every number of layers, every bank     *)
(* size, every number of passes and every mix of failures; and, at the end, of  *)
(* Watchdog, a process of its own that shares no variable with it.              *)
EXTENDS SmolForward, Watchdog, SequenceTheorems, TLAPS

Base == L \in Nat /\ Mode \in {1, 2, 3} /\ 2 * Mode <= L /\ MaxFault \in Nat
        /\ Passes \in Nat

LEMMA BaseFact == Base
  BY SizeAssumption DEF Base

\* A worker exists only while its batch is awaited, reads into the bank that is not
\* being computed, and stays within its batch; the loops stay within their bounds.
WorkerInv ==
    /\ worker # "none" => inflight /\ pc \in {"compute", "computing", "join"}
    /\ worker # "none" \/ pc = "restart" => job.base = bankB /\ job.from + job.n <= L
    /\ worker = "read" => done < job.n

LoopInv ==
    /\ pc = "load" => at <= Mode
    /\ pc \in {"compute", "computing"} => at <= Mode
    /\ pc = "computing" => at < Mode
    /\ pc = "restart" => at = 0
    /\ pc \in {"serialuse", "serialusing"} => at < L

IInv == TypeOK /\ WorkerInv /\ LoopInv

LEMMA FaultType ==
    ASSUME faults \in 0..MaxFault, NEW k, Fault(k)
    PROVE  faults' \in 0..MaxFault
  BY BaseFact DEF Fault, Base

LEMMA InitInv == Init => IInv
<1> SUFFICES ASSUME Init PROVE IInv
  OBVIOUS
<1> USE BaseFact DEF Init, Base
<1>1. x \in Seq(Weights) /\ kv \in [Layers -> Seq(Weights)]
  OBVIOUS
<1>2. slot \in [Slots -> Weights]
  BY DEF Weights, Layers, Junk
<1>3. job \in [from : 0..L, n : 0..Mode, base : {0, Mode}]
  BY DEF NoJob
<1>4. inflight \in BOOLEAN
  OBVIOUS
<1>5. TypeOK
  BY <1>1, <1>2, <1>3, <1>4 DEF TypeOK
<1> QED
  BY <1>5 DEF IInv, WorkerInv, LoopInv

\* The types the steps of a pass start from.
LEMMA BankFacts ==
    ASSUME TypeOK
    PROVE  /\ bankB \in {0, Mode} /\ bankB # bankA
           /\ \A k \in 0..Mode-1 : bankA + k \in Slots /\ bankB + k \in Slots
           /\ Junk \in Weights /\ \A l \in 0..L-1 : l \in Weights
           /\ 0 \in Slots
  BY BaseFact DEF Base, TypeOK, bankB, Slots, NSlots, Junk, Weights, Layers

LEMMA PassInv ==
    ASSUME IInv, Begin \/ LoadFirst \/ StartFirst
    PROVE  IInv'
<1> USE BaseFact, BankFacts, FaultType DEF IInv, Base
<1>1. CASE Begin
  <2>1. slot' \in [Slots -> Weights] /\ kv' \in [Layers -> Seq(Weights)] /\ x' \in Seq(Weights)
    BY <1>1 DEF Begin
  <2>2. job' \in [from : 0..L, n : 0..Mode, base : {0, Mode}]
    BY <1>1 DEF Begin, NoJob
  <2>3. TypeOK'
    <3>1. /\ pc' = "load" /\ answer' = "none" /\ pass' = pass + 1 /\ pass < Passes
          /\ bankA' = 0 /\ first' = 0 /\ at' = 0 /\ inflight' = FALSE /\ ready' = 0
          /\ worker' = worker /\ done' = done /\ faults' = faults
      BY <1>1 DEF Begin
    <3>2. pass' \in 0..Passes
      BY <3>1 DEF TypeOK
    <3>3. inflight' \in BOOLEAN
      BY <3>1
    <3> QED
      BY <2>1, <2>2, <3>1, <3>2, <3>3 DEF TypeOK
  <2>4. worker = "none" /\ worker' = "none" /\ pc' = "load" /\ at' = 0
    BY <1>1 DEF Begin, WorkerInv
  <2> QED
    BY <2>3, <2>4 DEF WorkerInv, LoopInv
<1>2. CASE LoadFirst
  <2>1. at \in 0..Mode-1
    BY <1>2 DEF LoadFirst, TypeOK
  <2>2. slot' \in [Slots -> Weights] /\ faults' \in 0..MaxFault /\ pc' \in {"load", "serial"}
    BY <1>2, <2>1 DEF LoadFirst, TypeOK, Serial
  <2>3. at' \in 0..Mode
    BY <1>2, <2>1 DEF LoadFirst, Serial
  <2>4. TypeOK'
    BY <1>2, <2>2, <2>3 DEF LoadFirst, TypeOK
  <2>5. worker = "none" /\ worker' = "none"
    BY <1>2 DEF LoadFirst, WorkerInv
  <2> QED
    BY <2>2, <2>3, <2>4, <2>5 DEF WorkerInv, LoopInv
<1>3. CASE StartFirst
  <2>1. job' = [from |-> Mode, n |-> Mode, base |-> bankB] /\ bankA' = bankA
    BY <1>3 DEF StartFirst, StartJob
  <2>2. job' \in [from : 0..L, n : 0..Mode, base : {0, Mode}]
        /\ job'.base = bankB' /\ job'.from + job'.n <= L
    BY <2>1 DEF TypeOK, bankB
  <2>3. faults' \in 0..MaxFault /\ at' \in 0..Mode /\ pc' \in {"compute", "serial"}
    BY <1>3 DEF StartFirst, Serial, TypeOK
  <2>4. (pc' = "compute" => at' = 0) /\ worker' \in {"none", "open"}
        /\ (worker' # "none" => inflight' /\ pc' = "compute") /\ inflight' \in BOOLEAN
    BY <1>3 DEF StartFirst, Serial, WorkerInv, TypeOK
  <2>5. TypeOK'
    BY <1>3, <2>1, <2>2, <2>3, <2>4 DEF StartFirst, StartJob, TypeOK
  <2> QED
    BY <2>2, <2>3, <2>4, <2>5 DEF WorkerInv, LoopInv
<1> QED
  BY <1>1, <1>2, <1>3

LEMMA ComputeInv ==
    ASSUME IInv, ComputeBegin \/ ComputeEnd \/ ComputeFails \/ LastBatch
    PROVE  IInv'
<1> USE BaseFact, BankFacts, FaultType DEF IInv, Base
<1>1. bankB' = bankB
  BY DEF ComputeBegin, ComputeEnd, ComputeFails, LastBatch, bankB
<1>2. CASE ComputeBegin
  <2>1. kv' \in [Layers -> Seq(Weights)]
    BY <1>2 DEF ComputeBegin, TypeOK
  <2>2. TypeOK'
    BY <1>2, <2>1 DEF ComputeBegin, TypeOK
  <2> QED
    BY <1>1, <1>2, <2>2 DEF ComputeBegin, WorkerInv, LoopInv
<1>3. CASE ComputeEnd
  <2>1. at \in 0..Mode-1
    BY <1>3 DEF ComputeEnd, TypeOK, LoopInv
  <2>2. slot[bankA + at] \in Weights
    BY <2>1 DEF TypeOK
  <2>3. x' \in Seq(Weights)
    BY <1>3, <2>2, AppendProperties DEF ComputeEnd, TypeOK
  <2>4. at' \in 0..Mode
    BY <1>3, <2>1 DEF ComputeEnd
  <2>5. TypeOK'
    BY <1>3, <2>3, <2>4 DEF ComputeEnd, TypeOK
  <2> QED
    BY <1>1, <1>3, <2>4, <2>5 DEF ComputeEnd, WorkerInv, LoopInv
<1>4. CASE ComputeFails
  <2>1. faults' \in 0..MaxFault
    BY <1>4 DEF ComputeFails, TypeOK
  <2>2. TypeOK'
    BY <1>4, <2>1 DEF ComputeFails, Return, TypeOK
  <2> QED
    BY <1>4, <2>2 DEF ComputeFails, Return, WorkerInv, LoopInv
<1>5. CASE LastBatch
  <2>1. TypeOK'
    BY <1>5 DEF LastBatch, TypeOK
  <2> QED
    BY <1>1, <1>5, <2>1 DEF LastBatch, WorkerInv, LoopInv
<1> QED
  BY <1>2, <1>3, <1>4, <1>5

\* The banks are swapped and the next job gets the bank just computed.
LEMMA NextBatchInv ==
    ASSUME IInv, NextBatch
    PROVE  IInv'
<1> USE BaseFact, BankFacts DEF IInv, Base
<1> DEFINE next == first + 2 * Mode
<1>1. first \in 0..L /\ first + Mode < L /\ next \in Nat
  BY DEF NextBatch, IsLast, TypeOK
<1>2. bankA' = bankB /\ bankB' = bankA /\ first' \in 0..L /\ at' = 0
      /\ worker' = "none" /\ inflight' \in BOOLEAN
  <2>1. bankA' = bankB /\ first' = first + Mode /\ at' = 0 /\ worker' = "none"
    BY DEF NextBatch
  <2>2. inflight' \in BOOLEAN
    BY DEF NextBatch
  <2>3. bankB' = bankA
    BY <2>1 DEF bankB, TypeOK
  <2> QED
    BY <1>1, <2>1, <2>2, <2>3
<1>0. /\ pass' = pass /\ answer' = answer /\ x' = x /\ kv' = kv /\ slot' = slot
      /\ done' = done /\ faults' = faults
  BY DEF NextBatch
<1>3. CASE next >= L
  <2>1. pc' = "compute" /\ job' = job /\ ready' = ready
    BY <1>3 DEF NextBatch
  <2>2. TypeOK'
    BY <1>0, <1>2, <2>1 DEF TypeOK
  <2> QED
    BY <1>2, <2>1, <2>2 DEF WorkerInv, LoopInv
<1>4. CASE next < L
  <2>1. pc' = "restart" /\ ready' = 0
        /\ job' = [from |-> next, n |-> Min2(L - next, Mode), base |-> bankA]
    BY <1>1, <1>4 DEF NextBatch, StartJob
  <2>2. Min2(L - next, Mode) \in 0..Mode /\ next + Min2(L - next, Mode) <= L
    BY <1>1, <1>4 DEF Min2
  <2>3. job' \in [from : 0..L, n : 0..Mode, base : {0, Mode}]
        /\ job'.base = bankB' /\ job'.from + job'.n <= L
    BY <1>1, <1>2, <1>4, <2>1, <2>2 DEF TypeOK
  <2>4. TypeOK'
    BY <1>0, <1>2, <2>1, <2>3 DEF TypeOK
  <2> QED
    BY <1>2, <2>1, <2>3, <2>4 DEF WorkerInv, LoopInv
<1> QED
  BY <1>1, <1>3, <1>4

LEMMA BatchInv ==
    ASSUME IInv, BatchUnread \/ StartNext \/ SerialDone \/ Join
    PROVE  IInv'
<1> USE BaseFact, FaultType DEF IInv, Base
<1>1. bankB' = bankB /\ job' = job
  BY DEF BatchUnread, StartNext, SerialDone, Join, bankB
<1>2. faults' \in 0..MaxFault /\ at' \in 0..L
  BY DEF BatchUnread, StartNext, SerialDone, Join, Serial, TypeOK
<1>3. TypeOK'
  <2>1. /\ pass' = pass /\ x' = x /\ kv' = kv /\ slot' = slot /\ bankA' = bankA
        /\ first' = first /\ ready' = ready
    BY DEF BatchUnread, StartNext, SerialDone, Join
  <2>2. /\ pc' \in {"serial", "compute", "join", "idle"} /\ answer' \in {answer, "ok"}
        /\ worker' \in {worker, "none", "open"} /\ done' \in {done, 0}
    BY DEF BatchUnread, StartNext, SerialDone, Join, Serial, Return
  <2>3. inflight' \in BOOLEAN
    BY DEF BatchUnread, StartNext, SerialDone, Join, TypeOK
  <2> QED
    BY <1>1, <1>2, <2>1, <2>2, <2>3 DEF TypeOK
<1>4. CASE StartNext
  <2>1. worker = "none"
    BY <1>4 DEF StartNext, WorkerInv
  <2>2. at <= Mode /\ pc = "restart"
    BY <1>4 DEF StartNext, LoopInv
  <2> QED
    BY <1>1, <1>3, <1>4, <2>1, <2>2 DEF StartNext, Serial, WorkerInv, LoopInv
<1>5. CASE BatchUnread \/ SerialDone \/ Join
  BY <1>1, <1>3, <1>5 DEF BatchUnread, SerialDone, Join, Serial, Return, WorkerInv, LoopInv
<1> QED
  BY <1>4, <1>5

LEMMA SerialInv ==
    ASSUME IInv, SerialLoad \/ SerialBegin \/ SerialEnd
    PROVE  IInv'
<1> USE BaseFact, BankFacts, FaultType DEF IInv, Base
<1>1. /\ pass' = pass /\ bankA' = bankA /\ first' = first /\ inflight' = inflight
      /\ ready' = ready /\ job' = job /\ worker' = worker /\ done' = done
  BY DEF SerialLoad, SerialBegin, SerialEnd
<1>2. worker = "none" /\ at \in 0..L-1
  BY DEF SerialLoad, SerialBegin, SerialEnd, WorkerInv, LoopInv, TypeOK
<1>3. faults' \in 0..MaxFault /\ at' \in 0..L /\ answer' \in {answer, "error"}
      /\ pc' \in {"serialuse", "serialusing", "serial", "idle"}
  <2>1. faults' \in 0..MaxFault
    BY DEF SerialLoad, SerialBegin, SerialEnd, TypeOK
  <2>2. at' \in {at, at + 1}
    BY DEF SerialLoad, SerialBegin, SerialEnd
  <2>3. answer' \in {answer, "error"} /\ pc' \in {"serialuse", "serialusing", "serial", "idle"}
    BY DEF SerialLoad, SerialBegin, SerialEnd, Return
  <2> QED
    BY <1>2, <2>1, <2>2, <2>3
<1>4. slot' \in [Slots -> Weights]
  BY <1>2 DEF SerialLoad, SerialBegin, SerialEnd, TypeOK
<1>5. kv' \in [Layers -> Seq(Weights)]
  BY DEF SerialLoad, SerialBegin, SerialEnd, TypeOK
<1>6. x' \in Seq(Weights)
  <2>1. slot[0] \in Weights
    BY DEF TypeOK
  <2>2. Append(x, slot[0]) \in Seq(Weights)
    BY <2>1, AppendProperties DEF TypeOK
  <2>3. x' \in {x, Append(x, slot[0])}
    BY DEF SerialLoad, SerialBegin, SerialEnd
  <2> QED
    BY <2>2, <2>3 DEF TypeOK
<1>7. TypeOK'
  BY <1>1, <1>3, <1>4, <1>5, <1>6 DEF TypeOK
<1>8. pc' \in {"serialuse", "serialusing"} => at' = at
  BY DEF SerialLoad, SerialBegin, SerialEnd, Return
<1> QED
  BY <1>1, <1>2, <1>3, <1>7, <1>8 DEF WorkerInv, LoopInv

LEMMA WorkerStepInv ==
    ASSUME IInv, Worker
    PROVE  IInv'
<1> USE BaseFact, BankFacts, FaultType DEF IInv, Base
<1>1. /\ pc' = pc /\ pass' = pass /\ answer' = answer /\ x' = x /\ kv' = kv /\ bankA' = bankA
      /\ first' = first /\ at' = at /\ inflight' = inflight /\ job' = job
  BY DEF Worker, WorkerOpen, WorkerRead, WorkerPublish, mainVars
<1>2. worker # "none" /\ worker' \in {"open", "read", "publish", "ended"}
  BY DEF Worker, WorkerOpen, WorkerRead, WorkerPublish
<1>3. ready' \in {-1, 0, 1} /\ faults' \in 0..MaxFault
  BY DEF Worker, WorkerOpen, WorkerRead, WorkerPublish, TypeOK
<1>4. worker = "read" => InHand \in Weights /\ done + 1 \in 0..Mode
  <2>1. /\ job.from \in 0..L /\ job.n \in 0..Mode /\ done \in 0..Mode
        /\ worker = "read" => done < job.n /\ job.from + job.n <= L
    BY DEF TypeOK, WorkerInv
  <2>2. worker = "read" => job.from + done \in 0..L-1 /\ done + 1 \in 0..Mode
    BY <2>1
  <2> QED
    BY <2>2 DEF InHand, Weights, Layers
<1>5. slot' \in [Slots -> Weights]
  <2>1. slot \in [Slots -> Weights] /\ Junk \in Weights
    BY DEF TypeOK
  <2>2. CASE WorkerOpen
    BY <2>1, <2>2 DEF WorkerOpen
  <2>3. CASE WorkerRead
    BY <1>4, <2>1, <2>3 DEF WorkerRead
  <2>4. CASE WorkerPublish
    BY <2>1, <2>4 DEF WorkerPublish
  <2> QED
    BY <2>2, <2>3, <2>4 DEF Worker
<1>6. done' \in 0..Mode
  BY <1>4 DEF Worker, WorkerOpen, WorkerRead, WorkerPublish, TypeOK
<1>7. worker' = "read" => done' < job.n
  BY DEF Worker, WorkerOpen, WorkerRead, WorkerPublish
<1>8. TypeOK'
  BY <1>1, <1>2, <1>3, <1>5, <1>6 DEF TypeOK
<1>9. bankB' = bankB
  BY <1>1 DEF bankB
<1> QED
  BY <1>1, <1>2, <1>7, <1>8, <1>9 DEF WorkerInv, LoopInv

LEMMA NextInv ==
    ASSUME IInv, [Next]_vars
    PROVE  IInv'
<1>1. CASE UNCHANGED vars
  BY <1>1 DEF vars, IInv, TypeOK, WorkerInv, LoopInv, bankB
<1>2. CASE Main
  BY <1>2, PassInv, ComputeInv, NextBatchInv, BatchInv, SerialInv DEF Main
<1>3. CASE Worker
  BY <1>3, WorkerStepInv
<1> QED
  BY <1>1, <1>2, <1>3 DEF Next

LEMMA Inductive == Spec => []IInv
<1>1. IInv /\ [Next]_vars => IInv'
  BY NextInv
<1> QED
  BY <1>1, InitInv, PTL DEF Spec

\* Every variable stays in its type: no batch runs past the layers or the banks.
THEOREM TypeCorrect == Spec => []TypeOK
<1>1. IInv => TypeOK
  BY DEF IInv
<1> QED
  BY <1>1, Inductive, PTL

\* The worker never reads into the slot the main thread computes from or fills,
\* whatever fails and whenever, for every number of layers and each bank size.
THEOREM BanksApart == Spec => []BankExclusive
<1>1. ASSUME IInv PROVE BankExclusive
  <2> SUFFICES ASSUME worker = "read" PROVE Into \notin Computing
    BY DEF BankExclusive
  <2>1. pc \in {"compute", "computing", "join"} /\ job.base = bankB /\ done \in 0..Mode-1
    BY <1>1, BaseFact DEF IInv, TypeOK, WorkerInv, Base
  <2>2. CASE pc = "computing"
    <3>1. Computing = {bankA + at} /\ at \in 0..Mode-1
      BY <1>1, <2>2, BaseFact DEF Computing, IInv, TypeOK, LoopInv, Base
    <3>2. bankA \in {0, Mode} /\ Mode \in {1, 2, 3}
      BY <1>1, BaseFact DEF IInv, TypeOK, Base
    <3>3. bankB + done # bankA + at
      BY <2>1, <3>1, <3>2 DEF bankB
    <3> QED
      BY <2>1, <3>1, <3>3 DEF Into
  <2>3. CASE pc # "computing"
    BY <2>1, <2>3 DEF Computing
  <2> QED
    BY <2>2, <2>3
<1> QED
  BY <1>1, Inductive, PTL

\* No worker outlives the pass that created it, so none touches that pass's stack
\* or the slots the LM head uses.
THEOREM NoOrphan == Spec => []WorkerJoined
<1>1. IInv => WorkerJoined
  BY DEF IInv, WorkerInv, WorkerJoined
<1> QED
  BY <1>1, Inductive, PTL
-----------------------------------------------------------------------------
(* What a pass computes.                                                    *)

\* The activations have gone through the first n layers, each once, and each of them
\* wrote its keys and values from what the ones before it produced.
Computed(n) == x = InOrder(n) /\ \A l \in 0..n-1 : kv[l] = InOrder(l)

\* n layers from the given one on, in consecutive slots.
Loaded(base, from, n) == \A k \in 0..n-1 : slot[base + k] = from + k

\* What is left of the batch in hand is in its bank.
BankInv ==
    /\ pc = "load" => x = <<>> /\ first = 0 /\ bankA = 0 /\ Loaded(0, 0, at)
    /\ pc \in {"compute", "computing", "restart"} =>
          /\ first + at <= L /\ Computed(first + at)
          /\ \A k \in at..Mode-1 : first + k < L => slot[bankA + k] = first + k
    /\ pc = "computing" => first + at < L /\ kv[first + at] = x

\* The worker reads the batch that follows, and there is one until the last batch.
JobInv ==
    /\ pc \in {"compute", "computing"} => (first + Mode < L => inflight)
    /\ pc = "restart" => first + Mode < L
    /\ pc = "restart" \/ (pc \in {"compute", "computing"} /\ inflight) =>
          job = [from |-> first + Mode, n |-> Min2(L - (first + Mode), Mode), base |-> bankB]
    /\ pc \in {"compute", "computing"} /\ inflight /\ ready = 1 => Loaded(job.base, job.from, job.n)
    /\ pc = "restart" => ready = 0
    /\ worker # "none" => Loaded(job.base, job.from, done)
    /\ worker = "publish" => done = job.n
    /\ worker \in {"open", "read", "publish"} => ready = 0

\* The serial loop computes every layer again; a pass that had computed some has gone
\* through more than L layers in the end.
SerialLoopInv ==
    /\ pc \in {"serial", "serialuse", "serialusing"} => Len(x) >= at /\ (Len(x) = at => Computed(at))
    /\ pc \in {"serialuse", "serialusing"} => slot[0] = at
    /\ pc = "serialusing" => kv[at] = x

AnswerInv ==
    /\ pc # "idle" => answer = "none" /\ pass > 0
    /\ pc = "join" \/ (answer = "ok" /\ pass > 0) => (Len(x) <= L => Computed(L))

ExactInv == BankInv /\ JobInv /\ SerialLoopInv /\ AnswerInv

LEMMA InOrderFacts ==
    ASSUME NEW n \in Nat
    PROVE  /\ InOrder(n) \in Seq(Nat) /\ Len(InOrder(n)) = n
           /\ Append(InOrder(n), n) = InOrder(n + 1)
<1>1. InOrder(n) \in Seq(Nat) /\ Len(InOrder(n)) = n /\ InOrder(n + 1) \in Seq(Nat)
      /\ Len(InOrder(n + 1)) = n + 1
  BY DEF InOrder
<1>2. Append(InOrder(n), n) \in Seq(Nat) /\ Len(Append(InOrder(n), n)) = n + 1
  BY <1>1, AppendProperties
<1>3. \A i \in 1..n+1 : Append(InOrder(n), n)[i] = InOrder(n + 1)[i]
  <2> SUFFICES ASSUME NEW i \in 1..n+1 PROVE Append(InOrder(n), n)[i] = InOrder(n + 1)[i]
    OBVIOUS
  <2>1. InOrder(n + 1)[i] = i - 1
    BY DEF InOrder
  <2>2. CASE i = n + 1
    <3>1. Append(InOrder(n), n)[n + 1] = n
      BY <1>1, AppendProperties
    <3> QED
      BY <2>1, <2>2, <3>1
  <2>3. CASE i # n + 1
    <3>1. i \in 1..n
      BY <2>3
    <3>2. Append(InOrder(n), n)[i] = InOrder(n)[i]
      BY <1>1, <3>1, AppendProperties
    <3>3. InOrder(n)[i] = i - 1
      BY <3>1 DEF InOrder
    <3> QED
      BY <2>1, <3>2, <3>3
  <2> QED
    BY <2>2, <2>3
<1> QED
  BY <1>1, <1>2, <1>3, SeqEqual

\* The step of a pass from n computed layers to n + 1.
LEMMA ComputedNext ==
    ASSUME NEW n \in Nat, Computed(n), kv[n] = x, x' = Append(x, n), kv' = kv
    PROVE  Computed(n + 1)'
<1>1. x' = InOrder(n + 1)
  BY InOrderFacts DEF Computed
<1>2. \A l \in 0..n : kv'[l] = InOrder(l)
  BY DEF Computed
<1> QED
  BY <1>1, <1>2 DEF Computed

LEMMA ComputedNone ==
    ASSUME x = <<>>
    PROVE  Computed(0) /\ Len(x) = 0
  BY DEF Computed, InOrder

\* A layer writes its keys and values beside those of the layers before it.
LEMMA ComputedBeside ==
    ASSUME NEW n \in Layers, kv \in [Layers -> Seq(Weights)], Computed(n), x' = x,
           kv' = [kv EXCEPT ![n] = x]
    PROVE  Computed(n)' /\ kv'[n] = x'
<1>1. \A l \in 0..n-1 : l \in Layers /\ l # n
  BY BaseFact DEF Base, Layers
<1> QED
  BY <1>1 DEF Computed

\* Nothing of the pass changes.
LEMMA ComputedSame ==
    ASSUME x' = x, kv' = kv, NEW n
    PROVE  Computed(n)' <=> Computed(n)
  BY DEF Computed

\* The numbers that occur.
LEMMA ForwardTypes ==
    ASSUME IInv
    PROVE  /\ L \in Nat /\ Mode \in {1, 2, 3} /\ 2 * Mode <= L
           /\ first \in Nat /\ first <= L /\ at \in Nat /\ at <= L /\ pass \in Nat /\ done \in Nat /\ done <= Mode
           /\ bankA \in {0, Mode} /\ slot \in [Slots -> Weights] /\ kv \in [Layers -> Seq(Weights)]
           /\ x \in Seq(Weights) /\ Len(x) \in Nat /\ job.n \in 0..Mode /\ job.from \in Nat
           /\ Slots = 0..(2 * Mode) - 1 /\ Layers = 0..L-1
  BY BaseFact DEF Base, IInv, TypeOK, Slots, NSlots, Layers

\* A pass begins, and its first batch is read.
LEMMA PassExact ==
    ASSUME IInv, ExactInv, Begin \/ LoadFirst \/ StartFirst
    PROVE  ExactInv'
<1>1. worker = "none"
  BY DEF Begin, LoadFirst, StartFirst, IInv, WorkerInv
<1> USE ForwardTypes
<1>2. CASE Begin
  <2>1. pc' = "load" /\ x' = <<>> /\ first' = 0 /\ bankA' = 0 /\ at' = 0 /\ answer' = "none"
        /\ pass' = pass + 1 /\ worker' = "none" /\ ready' = 0
    BY <1>1, <1>2 DEF Begin
  <2>2. BankInv' /\ JobInv' /\ SerialLoopInv'
    BY <2>1 DEF BankInv, Loaded, JobInv, SerialLoopInv
  <2>3. AnswerInv'
    BY <2>1 DEF AnswerInv
  <2> QED
    BY <2>2, <2>3 DEF ExactInv
<1>3. CASE LoadFirst
  <2>1. /\ pc = "load" /\ at < Mode /\ x = <<>> /\ first = 0 /\ bankA = 0 /\ Loaded(0, 0, at)
        /\ answer = "none" /\ pass > 0
    BY <1>3 DEF LoadFirst, ExactInv, BankInv, AnswerInv
  <2>2. /\ UNCHANGED <<x, kv, first, bankA, answer, pass, worker>>
        /\ pc' \in {"load", "serial"}
    BY <1>3 DEF LoadFirst, Serial
  <2>3. JobInv' /\ AnswerInv'
    BY <1>1, <2>1, <2>2 DEF JobInv, AnswerInv
  <2>4. CASE slot' = [slot EXCEPT ![bankA + at] = at] /\ at' = at + 1 /\ pc' = pc
    <3>1. Loaded(0, 0, at)'
      <4> SUFFICES ASSUME NEW k \in 0..at PROVE slot'[k] = k
        <5>1. at' - 1 = at
          BY <2>4
        <5> QED
          BY <5>1 DEF Loaded
      <4>1. k \in Slots /\ bankA + at = at
        BY <2>1
      <4>2. slot'[k] = IF k = at THEN at ELSE slot[k]
        BY <2>4, <4>1
      <4>3. k # at => slot[k] = k
        BY <2>1 DEF Loaded
      <4> QED
        BY <4>2, <4>3
    <3> QED
      BY <2>1, <2>2, <2>3, <2>4, <3>1 DEF ExactInv, BankInv, SerialLoopInv, Loaded
  <2>5. CASE pc' = "serial" /\ at' = 0
    <3>1. Computed(0)' /\ Len(x') = 0
      BY <2>1, <2>2, ComputedNone, ComputedSame
    <3>2. BankInv' /\ SerialLoopInv'
      BY <2>5, <3>1 DEF BankInv, SerialLoopInv
    <3> QED
      BY <2>3, <3>2 DEF ExactInv
  <2> QED
    BY <1>3, <2>4, <2>5 DEF LoadFirst, Serial
<1>4. CASE StartFirst
  <2>1. /\ pc = "load" /\ at = Mode /\ x = <<>> /\ first = 0 /\ bankA = 0 /\ Loaded(0, 0, Mode)
        /\ answer = "none" /\ pass > 0
    BY <1>4 DEF StartFirst, ExactInv, BankInv, AnswerInv
  <2>2. /\ UNCHANGED <<x, kv, first, bankA, answer, pass, slot>> /\ ready' = 0 /\ done' = 0 /\ at' = 0
        /\ job' = [from |-> Mode, n |-> Mode, base |-> bankB] /\ pc' \in {"compute", "serial"}
        /\ worker' \in {"none", "open"}
        /\ (pc' = "compute" => inflight') /\ (pc' = "serial" => worker' = "none")
    BY <1>1, <1>4 DEF StartFirst, StartJob, Serial
  <2>3. Computed(0)' /\ Len(x') = 0
    BY <2>1, <2>2, ComputedNone, ComputedSame
  <2>4. BankInv'
    BY <2>1, <2>2, <2>3 DEF BankInv, Loaded
  <2>5. JobInv'
    <3>1. Min2(L - (0 + Mode), Mode) = Mode /\ 0 + Mode = Mode
      BY DEF Min2
    <3>2. bankB' = bankB
      BY <2>2 DEF bankB
    <3> QED
      BY <2>1, <2>2, <3>1, <3>2 DEF JobInv, Loaded
  <2>6. SerialLoopInv' /\ AnswerInv'
    BY <2>1, <2>2, <2>3 DEF SerialLoopInv, AnswerInv
  <2> QED
    BY <2>4, <2>5, <2>6 DEF ExactInv
<1> QED
  BY <1>2, <1>3, <1>4

\* The layers of the batch are computed.
LEMMA ComputeExact ==
    ASSUME IInv, ExactInv, ComputeBegin \/ ComputeEnd \/ ComputeFails \/ LastBatch
    PROVE  ExactInv'
<1> USE ForwardTypes
<1>1. /\ UNCHANGED <<slot, bankA, first, ready, job, done, pass>> /\ pc \in {"compute", "computing"}
      /\ answer = "none" /\ pass > 0 /\ bankB' = bankB
  BY DEF ComputeBegin, ComputeEnd, ComputeFails, LastBatch, BatchEnded, ExactInv, AnswerInv, bankB
<1>2. /\ first + at <= L /\ Computed(first + at)
      /\ \A k \in at..Mode-1 : first + k < L => slot[bankA + k] = first + k
  BY <1>1 DEF ExactInv, BankInv
<1>3. CASE ComputeBegin
  <2>1. /\ pc = "compute" /\ pc' = "computing" /\ first + at < L /\ UNCHANGED <<x, at, answer, inflight, worker>>
        /\ kv' = [kv EXCEPT ![first + at] = x]
    BY <1>3 DEF ComputeBegin
  <2>2. Computed(first + at)' /\ kv'[first + at] = x
    <3>1. PICK n \in Layers : n = first + at
      BY <2>1
    <3>2. Computed(n)' /\ kv'[n] = x'
      BY <1>2, <2>1, <3>1, ComputedBeside
    <3>3. first' + at' = n
      BY <1>1, <2>1, <3>1
    <3> QED
      BY <2>1, <3>1, <3>2, <3>3
  <2>3. BankInv'
    BY <1>1, <1>2, <2>1, <2>2 DEF BankInv
  <2>4. JobInv'
    BY <1>1, <2>1 DEF ExactInv, JobInv, Loaded
  <2> QED
    BY <1>1, <2>1, <2>3, <2>4 DEF ExactInv, SerialLoopInv, AnswerInv
<1>4. CASE ComputeEnd
  <2>1. /\ pc = "computing" /\ pc' = "compute" /\ UNCHANGED <<kv, answer, inflight, worker>> /\ at' = at + 1
        /\ x' = Append(x, slot[bankA + at])
    BY <1>4 DEF ComputeEnd
  <2>2. at \in 0..Mode-1 /\ first + at < L /\ kv[first + at] = x
    BY <2>1 DEF IInv, LoopInv, ExactInv, BankInv
  <2>3. slot[bankA + at] = first + at
    BY <1>2, <2>2
  <2>4. Computed(first + at)' /\ first' + at' <= L
    <3>1. PICK n \in Nat : n = first + at
      OBVIOUS
    <3>2. Computed(n + 1)'
      BY <1>2, <2>1, <2>2, <2>3, <3>1, ComputedNext
    <3>3. first' + at' = n + 1
      BY <1>1, <2>1, <3>1
    <3>4. n + 1 <= L
      BY <2>2, <3>1
    <3> QED
      BY <3>2, <3>3, <3>4
  <2>5. BankInv'
    <3>1. \A k \in at'..Mode-1 : k \in at..Mode-1
      BY <2>1
    <3>2. \A k \in at'..Mode-1 : first' + k < L => slot'[bankA' + k] = first' + k
      BY <1>1, <1>2, <3>1
    <3> QED
      BY <2>1, <2>4, <3>2 DEF BankInv
  <2>6. JobInv'
    BY <1>1, <2>1 DEF ExactInv, JobInv, Loaded
  <2> QED
    BY <1>1, <2>1, <2>5, <2>6 DEF ExactInv, SerialLoopInv, AnswerInv
<1>5. CASE ComputeFails
  <2>1. pc' = "idle" /\ answer' = "error" /\ worker' = "none"
    BY <1>5 DEF ComputeFails, Return
  <2> QED
    BY <2>1 DEF ExactInv, BankInv, JobInv, SerialLoopInv, AnswerInv
<1>6. CASE LastBatch
  <2>1. /\ pc' = "join" /\ UNCHANGED <<x, kv, at, answer, inflight, worker>>
        /\ (at = Mode \/ first + at >= L) /\ first + Mode >= L
    BY <1>6 DEF LastBatch, BatchEnded, IsLast
  <2>2. first + at = L
    BY <1>2, <2>1
  <2>3. Computed(L)'
    BY <1>2, <2>1, <2>2, ComputedSame
  <2>4. JobInv'
    BY <1>1, <2>1 DEF ExactInv, JobInv, Loaded
  <2> QED
    BY <1>1, <2>1, <2>3, <2>4 DEF ExactInv, BankInv, SerialLoopInv, AnswerInv
<1> QED
  BY <1>3, <1>4, <1>5, <1>6

\* The banks are swapped.
LEMMA NextBatchExact ==
    ASSUME IInv, ExactInv, NextBatch
    PROVE  ExactInv'
<1> USE ForwardTypes
<1>1. /\ pc = "compute" /\ (at = Mode \/ first + at >= L) /\ first + Mode < L /\ ready = 1
      /\ worker' = "none" /\ inflight' = FALSE /\ bankA' = bankB /\ first' = first + Mode /\ at' = 0
      /\ UNCHANGED <<pass, answer, x, kv, slot>> /\ pc' \in {"compute", "restart"}
      /\ (pc' = "compute" => first + (2 * Mode) >= L)
  BY DEF NextBatch, BatchEnded, IsLast
<1>2. pc' = "restart" => /\ first + (2 * Mode) < L /\ ready' = 0
                         /\ job' = [from |-> first + (2 * Mode), n |-> Min2(L - (first + (2 * Mode)), Mode), base |-> bankA]
  BY DEF NextBatch, StartJob
<1>3. inflight /\ Computed(first + at) /\ first + at <= L /\ answer = "none" /\ pass > 0
  BY <1>1 DEF ExactInv, BankInv, JobInv, AnswerInv
<1>4. /\ job = [from |-> first + Mode, n |-> Min2(L - (first + Mode), Mode), base |-> bankB]
      /\ Loaded(job.base, job.from, job.n)
  BY <1>1, <1>3 DEF ExactInv, JobInv
<1>5. at = Mode
  BY <1>1, <1>3 DEF IInv, LoopInv
<1>6. \A k \in 0..Mode-1 : first' + k < L => slot[bankB + k] = first' + k
  <2> SUFFICES ASSUME NEW k \in 0..Mode-1, first + Mode + k < L PROVE slot[bankB + k] = first + Mode + k
    BY <1>1
  <2>1. k \in 0..Min2(L - (first + Mode), Mode) - 1
    BY DEF Min2
  <2> QED
    BY <1>4, <2>1 DEF Loaded
<1>7. BankInv'
  <2>1. PICK n \in Nat : n = first + at
    OBVIOUS
  <2>2. Computed(n)'
    BY <1>1, <1>3, <2>1, ComputedSame
  <2>3. first' + at' = n /\ n <= L
    BY <1>1, <1>3, <1>5, <2>1
  <2>4. \A k \in at'..Mode-1 : first' + k < L => slot'[bankA' + k] = first' + k
    BY <1>1, <1>6
  <2> QED
    BY <1>1, <2>2, <2>3, <2>4 DEF BankInv
<1>8. JobInv'
  <2>1. bankB' = bankA
    BY <1>1 DEF bankB
  <2>2. first' + Mode = first + (2 * Mode)
    BY <1>1
  <2> QED
    BY <1>1, <1>2, <2>1, <2>2 DEF JobInv
<1> QED
  BY <1>1, <1>3, <1>7, <1>8 DEF ExactInv, SerialLoopInv, AnswerInv

\* The layers are begun again when a batch could not be read or its worker not created.
LEMMA RestartExact ==
    ASSUME IInv, ExactInv, BatchUnread \/ StartNext
    PROVE  ExactInv'
<1> USE ForwardTypes
<1>1. /\ pc \in {"compute", "restart"} /\ UNCHANGED <<pass, answer, x, kv, slot, bankA, first, ready, job>>
      /\ answer = "none" /\ pass > 0 /\ Computed(first + at)
  BY DEF BatchUnread, StartNext, BatchEnded, ExactInv, AnswerInv, BankInv
<1>2. CASE pc' = "serial" /\ at' = 0 /\ worker' = "none"
  <2>1. Len(x) = 0 => Computed(0)
    <3>1. PICK n \in Nat : n = first + at
      OBVIOUS
    <3>2. Len(InOrder(n)) = n
      BY InOrderFacts
    <3> QED
      BY <1>1, <3>1, <3>2 DEF Computed
  <2>2. SerialLoopInv'
    BY <1>1, <1>2, <2>1 DEF SerialLoopInv, Computed
  <2> QED
    BY <1>1, <1>2, <2>2 DEF ExactInv, BankInv, JobInv, AnswerInv
<1>3. CASE StartNext /\ pc' = "compute"
  <2>1. worker' = "open" /\ inflight' = TRUE /\ done' = 0 /\ pc = "restart" /\ at' = at
    BY <1>3 DEF StartNext, Serial
  <2>2. bankB' = bankB
    BY <1>1 DEF bankB
  <2>3. BankInv'
    BY <1>1, <1>3, <2>1, ComputedSame DEF ExactInv, BankInv
  <2>4. JobInv'
    BY <1>1, <1>3, <2>1, <2>2 DEF ExactInv, JobInv, Loaded
  <2> QED
    BY <1>1, <1>3, <2>3, <2>4 DEF ExactInv, SerialLoopInv, AnswerInv
<1>4. BatchUnread => pc' = "serial" /\ at' = 0 /\ worker' = "none"
  BY DEF BatchUnread, Serial
<1>5. StartNext => pc' = "compute" \/ (pc' = "serial" /\ at' = 0 /\ worker' = "none")
  BY DEF StartNext, Serial, IInv, WorkerInv
<1> QED
  BY <1>2, <1>3, <1>4, <1>5

\* The serial loop, and the end of the pass.
LEMMA SerialExact ==
    ASSUME IInv, ExactInv, SerialLoad \/ SerialBegin \/ SerialEnd \/ SerialDone \/ Join
    PROVE  ExactInv'
<1> USE ForwardTypes
<1>1. /\ UNCHANGED <<pass, bankA, first, ready, job, done>> /\ answer = "none" /\ pass > 0
      /\ pc \in {"serial", "serialuse", "serialusing", "join"}
  BY DEF SerialLoad, SerialBegin, SerialEnd, SerialDone, Join, ExactInv, AnswerInv
<1>2. CASE SerialLoad \/ SerialBegin \/ SerialEnd \/ SerialDone
  <2>1. worker = "none" /\ worker' = "none"
    BY <1>2 DEF SerialLoad, SerialBegin, SerialEnd, SerialDone, IInv, WorkerInv
  <2>2. pc' \in {"idle", "serial", "serialuse", "serialusing", "join"}
    BY <1>2 DEF SerialLoad, SerialBegin, SerialEnd, SerialDone, Return
  <2>3. BankInv' /\ JobInv'
    BY <2>1, <2>2 DEF BankInv, JobInv
  <2>4. Len(x) >= at /\ (Len(x) = at => Computed(at))
    BY <1>2 DEF SerialLoad, SerialBegin, SerialEnd, SerialDone, ExactInv, SerialLoopInv
  <2>5. CASE pc' = "idle"
    <3>1. answer' = "error"
      BY <1>2, <2>5 DEF SerialLoad, SerialBegin, SerialEnd, SerialDone, Return
    <3> QED
      BY <2>3, <2>5, <3>1 DEF ExactInv, SerialLoopInv, AnswerInv
  <2>6. CASE SerialLoad /\ pc' # "idle"
    <3>1. /\ pc' = "serialuse" /\ slot' = [slot EXCEPT ![0] = at] /\ UNCHANGED <<answer, x, kv, at>>
      BY <2>6 DEF SerialLoad, Return
    <3>2. slot'[0] = at
      BY <3>1
    <3>3. SerialLoopInv'
      BY <2>4, <3>1, <3>2, ComputedSame DEF SerialLoopInv
    <3> QED
      BY <1>1, <2>3, <3>1, <3>3 DEF ExactInv, AnswerInv
  <2>7. CASE SerialBegin
    <3>1. /\ pc = "serialuse" /\ pc' = "serialusing" /\ UNCHANGED <<answer, x, slot, at>>
          /\ kv' = [kv EXCEPT ![at] = x] /\ at < L
      BY <2>7 DEF SerialBegin, IInv, LoopInv
    <3>2. kv'[at] = x /\ (Computed(at) => Computed(at)')
      BY <3>1 DEF Computed
    <3>3. SerialLoopInv'
      BY <2>4, <3>1, <3>2 DEF SerialLoopInv, ExactInv, Computed
    <3> QED
      BY <1>1, <2>3, <3>1, <3>3 DEF ExactInv, AnswerInv
  <2>8. CASE SerialEnd /\ pc' # "idle"
    <3>1. /\ pc = "serialusing" /\ pc' = "serial" /\ x' = Append(x, slot[0]) /\ at' = at + 1
          /\ UNCHANGED <<answer, kv, slot>>
      BY <2>8 DEF SerialEnd, Return
    <3>2. slot[0] = at /\ kv[at] = x /\ at \in Weights
      BY <3>1 DEF ExactInv, SerialLoopInv, IInv, LoopInv, Weights
    <3>3. Len(x') = Len(x) + 1
      BY <3>1, <3>2, AppendProperties
    <3>4. Len(x') = at' => Computed(at)'
      <4>1. PICK n \in Nat : n = at
        OBVIOUS
      <4>2. Len(x) = n => Computed(n + 1)'
        BY <2>4, <3>1, <3>2, <4>1, ComputedNext
      <4> QED
        BY <3>1, <3>3, <4>1, <4>2
    <3>5. SerialLoopInv'
      BY <2>4, <3>1, <3>3, <3>4 DEF SerialLoopInv
    <3> QED
      BY <1>1, <2>3, <3>1, <3>5 DEF ExactInv, AnswerInv
  <2>9. CASE SerialDone
    <3>1. pc' = "join" /\ at = L /\ UNCHANGED <<answer, x, kv>>
      BY <2>9 DEF SerialDone
    <3>2. Len(x) <= L => Computed(L)
      BY <2>4, <3>1
    <3> QED
      BY <1>1, <2>3, <3>1, <3>2, ComputedSame DEF ExactInv, SerialLoopInv, AnswerInv
  <2> QED
    BY <1>2, <2>5, <2>6, <2>7, <2>8, <2>9
<1>3. CASE Join
  <2>1. pc = "join" /\ pc' = "idle" /\ answer' = "ok" /\ worker' = "none" /\ UNCHANGED <<x, kv>>
    BY <1>3 DEF Join, Return
  <2>2. Len(x) <= L => Computed(L)
    BY <2>1 DEF ExactInv, AnswerInv
  <2> QED
    BY <2>1, <2>2, ComputedSame DEF ExactInv, BankInv, JobInv, SerialLoopInv, AnswerInv
<1> QED
  BY <1>2, <1>3

\* The worker fills the other bank.
LEMMA WorkerExact ==
    ASSUME IInv, ExactInv, Worker
    PROVE  ExactInv'
<1> USE ForwardTypes
<1>1. /\ UNCHANGED <<pc, pass, answer, x, kv, bankA, first, at, inflight, job>>
  BY DEF Worker, WorkerOpen, WorkerRead, WorkerPublish, mainVars
<1>2. /\ inflight /\ pc \in {"compute", "computing", "join"} /\ job.base = bankB /\ ready = 0
      /\ Loaded(job.base, job.from, done)
  BY DEF Worker, WorkerOpen, WorkerRead, WorkerPublish, IInv, WorkerInv, ExactInv, JobInv
<1>3. /\ bankB \in {0, Mode} /\ bankB # bankA /\ bankB' = bankB
  BY <1>1 DEF bankB
<1>4. \A k \in 0..Mode-1 : bankA + k \in Slots /\ bankB + k \in Slots
  BY BankFacts DEF IInv
<1>5. ASSUME NEW w, done < Mode, slot' = [slot EXCEPT ![Into] = w]
      PROVE  /\ \A k \in 0..Mode-1 : slot'[bankA + k] = slot[bankA + k]
             /\ \A k \in 0..Mode-1 : slot'[bankB + k] = IF k = done THEN w ELSE slot[bankB + k]
  <2>1. \A k \in 0..Mode-1 : bankA + k # Into
    BY <1>2, <1>3, <1>5 DEF Into
  <2>2. \A k \in 0..Mode-1 : (bankB + k = Into) <=> (k = done)
    <3>1. PICK b \in Int : b = bankB
      BY <1>3
    <3>2. Into = b + done
      BY <1>2, <3>1 DEF Into
    <3>3. \A k \in 0..Mode-1 : (b + k = b + done) <=> (k = done)
      OBVIOUS
    <3> QED
      BY <3>1, <3>2, <3>3
  <2>3. slot \in [Slots -> Weights] /\ \A s \in Slots : slot'[s] = IF s = Into THEN w ELSE slot[s]
    BY <1>5
  <2>4. ASSUME NEW k \in 0..Mode-1
        PROVE  slot'[bankA + k] = slot[bankA + k] /\ slot'[bankB + k] = IF k = done THEN w ELSE slot[bankB + k]
    <3>1. bankA + k \in Slots /\ bankB + k \in Slots
      BY <1>4
    <3>2. bankA + k # Into /\ ((bankB + k = Into) <=> (k = done))
      BY <2>1, <2>2
    <3> QED
      BY <2>3, <3>1, <3>2
  <2> QED
    BY <2>4
<1>6. BankInv'
  <2>1. \A k \in 0..Mode-1 : slot'[bankA + k] = slot[bankA + k]
    <3>1. CASE slot' = slot
      BY <3>1
    <3>2. CASE done < job.n /\ \E w : slot' = [slot EXCEPT ![Into] = w]
      <4>1. PICK w : slot' = [slot EXCEPT ![Into] = w]
        BY <3>2
      <4>2. done < Mode
        BY <3>2
      <4> QED
        BY <1>5, <4>1, <4>2
    <3> QED
      BY <3>1, <3>2 DEF Worker, WorkerOpen, WorkerRead, WorkerPublish, IInv, WorkerInv
  <2>2. \A k \in at..Mode-1 : k \in 0..Mode-1
    OBVIOUS
  <2> QED
    BY <1>1, <1>2, <2>1, <2>2, ComputedSame DEF ExactInv, BankInv
<1>7. JobInv'
  <2>1. /\ pc \in {"compute", "computing"} => (first + Mode < L => inflight)
        /\ pc \in {"compute", "computing"} =>
              job = [from |-> first + Mode, n |-> Min2(L - (first + Mode), Mode), base |-> bankB]
    BY <1>2 DEF ExactInv, JobInv
  <2>2. CASE WorkerOpen /\ worker' = "read"
    <3>1. slot' = [slot EXCEPT ![Into] = Junk] /\ done' = done /\ ready' = 0 /\ done < job.n
      BY <1>2, <2>2 DEF WorkerOpen
    <3>2. Loaded(job.base, job.from, done)'
      <4>1. \A k \in 0..done-1 : k \in 0..Mode-1 /\ k # done
        OBVIOUS
      <4>0. done < Mode
        BY <3>1
      <4>3. \A k \in 0..Mode-1 : slot'[bankB + k] = IF k = done THEN Junk ELSE slot[bankB + k]
        BY <1>5, <3>1, <4>0
      <4>2. \A k \in 0..done-1 : slot'[bankB + k] = slot[bankB + k]
        BY <4>1, <4>3
      <4> QED
        BY <1>1, <1>2, <3>1, <4>2 DEF Loaded
    <3> QED
      BY <1>1, <1>2, <1>3, <2>1, <2>2, <3>1, <3>2 DEF JobInv
  <2>3. CASE WorkerOpen /\ worker' = "publish"
    <3>1. done = job.n /\ UNCHANGED <<slot, ready, done>>
      BY <2>3 DEF WorkerOpen
    <3> QED
      BY <1>1, <1>2, <1>3, <2>1, <2>3, <3>1 DEF JobInv, Loaded
  <2>4. CASE worker' = "ended" /\ ready' = -1 /\ UNCHANGED <<slot, done>>
    BY <1>1, <1>2, <1>3, <2>1, <2>4 DEF JobInv, Loaded
  <2>5. CASE WorkerRead /\ worker' = "open"
    <3>1. slot' = [slot EXCEPT ![Into] = InHand] /\ done' = done + 1 /\ ready' = 0 /\ done < job.n
      BY <1>2, <2>5 DEF WorkerRead, IInv, WorkerInv
    <3>2. Loaded(job.base, job.from, done)'
      <4>0. done < Mode
        BY <3>1
      <4>1. \A k \in 0..Mode-1 : slot'[bankB + k] = IF k = done THEN InHand ELSE slot[bankB + k]
        BY <1>5, <3>1, <4>0
      <4>2. \A k \in 0..done : slot'[bankB + k] = job.from + k
        <5> SUFFICES ASSUME NEW k \in 0..done PROVE slot'[bankB + k] = job.from + k
          OBVIOUS
        <5>1. k \in 0..Mode-1 /\ (k # done => k \in 0..done-1)
          BY <4>0
        <5>2. slot'[bankB + k] = IF k = done THEN InHand ELSE slot[bankB + k]
          BY <4>1, <5>1
        <5>3. k # done => slot[bankB + k] = job.from + k
          BY <1>2, <5>1 DEF Loaded
        <5> QED
          BY <5>2, <5>3 DEF InHand
      <4>3. job'.base = bankB /\ job'.from = job.from /\ (done + 1)' = done' + 1
        BY <1>1, <1>2
      <4>4. PICK d \in Nat : d = done + 1
        OBVIOUS
      <4>5. \A k \in 0..d-1 : slot'[job'.base + k] = job'.from + k
        BY <4>2, <4>3, <4>4
      <4> QED
        BY <3>1, <4>4, <4>5 DEF Loaded
    <3> QED
      BY <1>1, <1>2, <1>3, <2>1, <2>5, <3>1, <3>2 DEF JobInv, Loaded
  <2>6. CASE WorkerPublish
    <3>1. done = job.n /\ UNCHANGED <<slot, done>> /\ worker' = "ended"
      BY <2>6 DEF WorkerPublish, ExactInv, JobInv
    <3> QED
      BY <1>1, <1>2, <1>3, <2>1, <2>6, <3>1 DEF JobInv, Loaded
  <2> QED
    BY <2>2, <2>3, <2>4, <2>5, <2>6 DEF Worker, WorkerOpen, WorkerRead
<1>8. SerialLoopInv' /\ AnswerInv'
  BY <1>1, <1>2, ComputedSame DEF ExactInv, SerialLoopInv, AnswerInv
<1> QED
  BY <1>6, <1>7, <1>8 DEF ExactInv

\* Whatever fails and whenever, a pass that answers ok and did not begin the layers again
\* after it had computed some has sent the activations through every layer once, in
\* order, with that layer's own weights, and every layer's keys and values were written
\* from what the layers before it produced.
THEOREM PassExactly == Spec => []ExactUnlessRestarted
<1>1. Init => ExactInv
  BY DEF Init, ExactInv, BankInv, JobInv, SerialLoopInv, AnswerInv
<1>2. IInv /\ ExactInv /\ [Next]_vars => ExactInv'
  <2> SUFFICES ASSUME IInv, ExactInv, [Next]_vars PROVE ExactInv'
    OBVIOUS
  <2>1. CASE UNCHANGED vars
    BY <2>1 DEF vars, ExactInv, BankInv, JobInv, SerialLoopInv, AnswerInv, Computed, Loaded, bankB
  <2>2. CASE Main
    BY <2>2, PassExact, ComputeExact, NextBatchExact, RestartExact, SerialExact DEF Main
  <2>3. CASE Worker
    BY <2>3, WorkerExact
  <2> QED
    BY <2>1, <2>2, <2>3 DEF Next
<1>3. ExactInv => ExactUnlessRestarted
  BY DEF ExactInv, AnswerInv, ExactUnlessRestarted, Exact, Computed, Layers
<1> QED
  BY <1>1, <1>2, <1>3, Inductive, PTL DEF Spec

-----------------------------------------------------------------------------
(* The watchdog, which guards the forward passes of this engine and of the Qwen *)
(* engine.  For every timeout, poll interval, gap and delay its assumptions      *)
(* allow it never ends a live process, and bounds how long a hung one lives.     *)

\* How far the start-up has come.
Phase ==
    /\ main = "start" => wd = "none" /\ ~killed
    /\ main = "armed" => wd = "none" /\ ~killed /\ enabled /\ age <= gap
    /\ wd # "none" \/ (main = "start" /\ engine = "smol") => enabled

\* What the heartbeat and the loaded value say about the main thread.
Fresh ==
    /\ Live => gap <= MaxGap
    /\ (wd \in {"sleep", "check"} /\ Live) => age <= gap
    /\ (wd = "check" /\ Live) => seen <= MaxGap + wait

\* What they say about a process that was not ended at the last check.
Checked ==
    /\ wd \in {"first", "check"} => wait <= Delay
    /\ wd = "sleep" => wait <= Poll + Delay
    /\ (wd = "sleep" /\ ~killed) => age <= Timeout + wait
    /\ (wd = "check" /\ ~killed)
         => age <= seen /\ seen <= Timeout + Poll + Delay + wait

WatchInv == WdTypeOK /\ Phase /\ Fresh /\ Checked /\ NoFalseKill

LEMMA TimesFact ==
    /\ Timeout \in Nat /\ QwenPoll \in Nat /\ MaxGap \in Nat /\ Delay \in Nat /\ Boot \in Nat
    /\ MaxGap + Delay <= Timeout
BY TimesAssumption, GapAssumption

LEMMA WatchInit == WdInit => WatchInv
<1>. SUFFICES ASSUME WdInit PROVE WatchInv
  OBVIOUS
<1>1. enabled \in BOOLEAN /\ killed \in BOOLEAN /\ ~killed
  BY Zenon DEF WdInit
<1>2. main = "start" /\ wd = "none" /\ engine \in {"qwen", "smol"}
      /\ age = Boot /\ seen = 0 /\ gap = 0 /\ wait = 0
  BY DEF WdInit
<1>3. engine = "smol" => enabled
  BY Zenon DEF WdInit
<1>. QED
  BY <1>1, <1>2, <1>3, TimesFact DEF WatchInv, WdTypeOK, Phase, Fresh, Checked, NoFalseKill, Live, Poll

\* Every step keeps the invariant: Load turns a bound on the heartbeat into one
\* on the loaded value, Check (when it lets the process live) turns it back.
LEMMA WatchStep == WatchInv /\ [WdNext]_wdVars => WatchInv'
<1>. SUFFICES ASSUME WatchInv, [WdNext]_wdVars PROVE WatchInv'
  OBVIOUS
<1>. USE TimesFact
<1>. USE DEF WatchInv, WdTypeOK, Phase, Fresh, Checked, NoFalseKill, Live, Running, Poll
<1>1. CASE StoreFirst
  BY <1>1 DEF StoreFirst
<1>2. CASE CreateThread
  <2>1. enabled' \in BOOLEAN
    BY <1>2, Zenon DEF CreateThread
  <2>2. CASE wd' = "none"
    BY <1>2, <2>1, <2>2 DEF CreateThread
  <2>3. CASE engine = "qwen" /\ wd' = "sleep" /\ enabled' = enabled
    BY <1>2, <2>1, <2>3 DEF CreateThread
  <2>4. CASE engine = "smol" /\ wd' = "first" /\ enabled' = enabled
    BY <1>2, <2>1, <2>4 DEF CreateThread
  <2>. QED
    BY <1>2, <2>2, <2>3, <2>4, Zenon DEF CreateThread
<1>3. CASE Kick
  BY <1>3 DEF Kick
<1>4. CASE Hang
  BY <1>4 DEF Hang
<1>5. CASE MainReturn
  BY <1>5 DEF MainReturn
<1>6. CASE FirstKick
  BY <1>6 DEF FirstKick
<1>7. CASE Load
  BY <1>7 DEF Load
<1>8. CASE Check
  <2>1. CASE enabled /\ seen > Timeout
    <3>1. killed' = TRUE /\ wd' = "check" /\ wait' = 0
          /\ UNCHANGED <<engine, main, enabled, age, seen, gap>>
      BY <1>8, <2>1 DEF Check
    <3>2. ~Live
      BY <1>8, <2>1 DEF Check
    <3>. QED
      BY <1>8, <2>1, <3>1, <3>2 DEF Check
  <2>2. CASE ~(enabled /\ seen > Timeout)
    <3>1. killed' = killed /\ wd' = "sleep" /\ wait' = 0
          /\ UNCHANGED <<engine, main, enabled, age, seen, gap>>
      BY <1>8, <2>2 DEF Check
    <3>2. wd = "check" /\ ~killed /\ enabled
      BY <1>8 DEF Check
    <3>3. age <= Timeout
      BY <2>2, <3>2
    <3>. QED
      BY <3>1, <3>2, <3>3
  <2>. QED
    BY <2>1, <2>2
<1>9. CASE Tick
  BY <1>9 DEF Tick, Due
<1>10. CASE UNCHANGED wdVars
  BY <1>10 DEF wdVars
<1>. QED
  BY <1>1, <1>2, <1>3, <1>4, <1>5, <1>6, <1>7, <1>8, <1>9, <1>10 DEF WdNext

LEMMA WatchInductive == WdSpec => []WatchInv
BY WatchInit, WatchStep, PTL DEF WdSpec

\* No false kill: a process is ended only when its main thread is hung.
THEOREM LiveNeverKilled == WdSpec => []NoFalseKill
<1>1. WatchInv => NoFalseKill
  BY DEF WatchInv
<1>. QED
  BY <1>1, WatchInductive, PTL

\* Bounded detection: no process with a watchdog outlives the timeout by more
\* than one sleep and two scheduling delays.
THEOREM HangDetected == WdSpec => []HangBounded
<1>1. WatchInv => HangBounded
  BY TimesFact DEF WatchInv, WdTypeOK, Checked, HangBounded, Running, Poll
<1>. QED
  BY <1>1, WatchInductive, PTL
=============================================================================
