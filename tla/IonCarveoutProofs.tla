-------------------------- MODULE IonCarveoutProofs --------------------------
(* What TLAPS proves of IonCarveout, for all sizes, whatever others hold.       *)
EXTENDS IonCarveout, TLAPS

USE DEF heap

Fields == [neuron : Nat, gsc : Nat, slots : Nat, cent : Nat, low : Nat, high : Nat, mp : Nat]

Names == {"neuron", "gsc", "slots", "cent", "low", "high", "mp"}

\* A number of whole pools.
Whole(n) == \E k \in 0..6 : n = k * Pool

Sized ==
    /\ held \in Fields /\ other \in Nat /\ faults \in Nat
    /\ held.neuron <= Neuron /\ Whole(held.low) /\ Whole(held.high)

Before == {"neuron", "stat", "gsc", "gscload", "gscddr", "rms", "slots", "thread", "cent"}

\* Whatever is held has a handle that is not NULL, and such a handle names what is held.
Handled == handles = held /\ stale = FALSE

\* What cannot be held, or given up, yet.
Stages ==
    /\ pc = "neuron" => held.neuron = 0
    /\ pc \in {"neuron", "stat", "gsc"} => held.gsc = 0
    /\ pc \in Before => held.cent = 0
    /\ pc \in Before \cup {"precheck", "cleanup"} => held.low = 0 /\ held.high = 0 /\ held.mp = 0 /\ merged = TRUE
    /\ mode # "ion_db" => held.slots = 0 /\ pc \notin {"rms", "slots", "thread"}

\* What a cache leaves free up to the pre-check, and the pools from then on.
Yield ==
    mode # "ion_db" /\ debugfs /\ ~grew =>
        /\ pc \in {"gscload", "gscddr", "cent", "precheck"} /\ held.gsc + held.cent > 0 =>
               Held + other + PoolsEst + MpEst <= Carveout
        /\ pc = "build" => Held + other + PoolsEst <= Carveout + held.low + held.high

IInv == Sized /\ Handled /\ Stages /\ Yield /\ CachesYield

LEMMA Sizes ==
    /\ Carveout \in Nat /\ Neuron \in Nat /\ Slot \in Nat /\ NSlot \in Nat /\ Cent \in Nat
    /\ GscLayer \in Nat /\ L \in Nat /\ IonLayers \in Nat /\ PoolsEst \in Nat /\ MpEst \in Nat
    /\ Pool \in Nat /\ Mp \in Nat /\ Others \subseteq Nat
    /\ L * GscLayer \in Nat /\ IonLayers * GscLayer \in Nat
  BY SizeAssumption

LEMMA Estimate == 12 * Pool <= PoolsEst /\ Mp <= MpEst /\ PoolsPerSet = 6
  BY EstimateAssumption, Sizes DEF PoolsPerSet

\* One more pool is again a whole number of them, as long as the set is not full.
LEMMA OneMore ==
    ASSUME NEW n \in Nat, Whole(n)
    PROVE  /\ n <= 6 * Pool
           /\ n # 6 * Pool => Whole(n + Pool) /\ n + Pool <= 6 * Pool
<1>1. PICK k \in 0..6 : n = k * Pool
  BY DEF Whole
<1>2. k = 0 \/ k = 1 \/ k = 2 \/ k = 3 \/ k = 4 \/ k = 5 \/ k = 6
  BY <1>1
<1>3. n + Pool = (k + 1) * Pool
  BY <1>1, Sizes
<1>4. n <= 6 * Pool
  BY <1>1, <1>2, Sizes
<1>5. ASSUME n # 6 * Pool PROVE k + 1 \in 0..6 /\ n + Pool <= 6 * Pool
  BY <1>1, <1>2, <1>5, Sizes
<1> QED
  BY <1>3, <1>4, <1>5 DEF Whole

LEMMA NoPools == Whole(0)
  BY Sizes DEF Whole

\* What freeing leaves, as long as every handle names what is held.
LEMMA FreeLeaves ==
    ASSUME held \in Fields, Handled, NEW fs \in SUBSET Names, Free(fs)
    PROVE  /\ held' \in Fields /\ Handled'
           /\ held'.neuron = (IF "neuron" \in fs THEN 0 ELSE held.neuron)
           /\ held'.gsc = (IF "gsc" \in fs THEN 0 ELSE held.gsc)
           /\ held'.slots = (IF "slots" \in fs THEN 0 ELSE held.slots)
           /\ held'.cent = (IF "cent" \in fs THEN 0 ELSE held.cent)
           /\ held'.low = (IF "low" \in fs THEN 0 ELSE held.low)
           /\ held'.high = (IF "high" \in fs THEN 0 ELSE held.high)
           /\ held'.mp = (IF "mp" \in fs THEN 0 ELSE held.mp)
<1> DEFINE Of(f) == IF f \in fs THEN 0 ELSE held[f]
<1>1. /\ held.neuron \in Nat /\ held.gsc \in Nat /\ held.slots \in Nat /\ held.cent \in Nat
      /\ held.low \in Nat /\ held.high \in Nat /\ held.mp \in Nat
  BY DEF Fields
<1>2. /\ Left("neuron", fs) = Of("neuron") /\ Left("gsc", fs) = Of("gsc")
      /\ Left("slots", fs) = Of("slots") /\ Left("cent", fs) = Of("cent")
      /\ Left("low", fs) = Of("low") /\ Left("high", fs) = Of("high") /\ Left("mp", fs) = Of("mp")
  BY <1>1 DEF Left, Handled
<1>3. held' = [neuron |-> Of("neuron"), gsc |-> Of("gsc"), slots |-> Of("slots"), cent |-> Of("cent"),
               low |-> Of("low"), high |-> Of("high"), mp |-> Of("mp")]
  BY <1>2 DEF Free, Remaining
<1>4. held' \in Fields
  BY <1>1, <1>3 DEF Fields
<1>5. DOMAIN held = Names
  BY DEF Fields, Names
<1>6. handles' = [f \in DOMAIN held |-> Of(f)]
  BY DEF Free, Handled
<1>7. handles' = held'
  BY <1>3, <1>5, <1>6 DEF Names
<1>8. stale' = FALSE
  <2>1. \A f \in fs : handles[f] = held[f]
    BY DEF Handled
  <2>2. \A f \in Names : ~(held[f] > held[f])
    BY <1>1 DEF Names
  <2> QED
    BY <2>1, <2>2 DEF Free, Handled
<1> QED
  BY <1>3, <1>4, <1>7, <1>8 DEF Handled

LEMMA SameFields ==
    ASSUME NEW r \in Fields, NEW q \in Fields,
           r.neuron = q.neuron, r.gsc = q.gsc, r.slots = q.slots, r.cent = q.cent,
           r.low = q.low, r.high = q.high, r.mp = q.mp
    PROVE  r = q
  BY DEF Fields

LEMMA FreeForms ==
    ASSUME held \in Fields, Handled
    PROVE  /\ Free({"gsc"}) => held' = [held EXCEPT !.gsc = 0]
           /\ Free({"high"}) => held' = [held EXCEPT !.high = 0]
<1> USE DEF Names
<1>1. ASSUME Free({"gsc"}) PROVE held' = [held EXCEPT !.gsc = 0]
  <2>1. [held EXCEPT !.gsc = 0] \in Fields
    BY DEF Fields
  <2> QED
    BY <1>1, <2>1, FreeLeaves, SameFields DEF Fields
<1>2. ASSUME Free({"high"}) PROVE held' = [held EXCEPT !.high = 0]
  <2>1. [held EXCEPT !.high = 0] \in Fields
    BY DEF Fields
  <2> QED
    BY <1>2, <2>1, FreeLeaves, SameFields DEF Fields
<1> QED
  BY <1>1, <1>2

LEMMA InitInv == Init => IInv
<1> SUFFICES ASSUME Init PROVE IInv
  OBVIOUS
<1>1. held = Nothing /\ pc = "neuron" /\ merged = TRUE /\ other \in Nat /\ faults = 0
  BY Sizes DEF Init
<1>2. Sized
  BY <1>1, NoPools, Sizes DEF Sized, Nothing, Fields
<1>3. Handled /\ Stages /\ Yield /\ CachesYield
  BY <1>1 DEF Init, Handled, Stages, Nothing, Yield, CachesYield
<1> QED
  BY <1>2, <1>3 DEF IInv

\* Faults are only ever added.
LEMMA CountFaults ==
    ASSUME Next, faults \in Nat
    PROVE  faults' \in Nat
<1> SUFFICES ASSUME faults' # faults PROVE Fault
  BY DEF Fault
<1>1. CASE AllocNeuron \/ StatLayer \/ LoadRms \/ AllocSlots \/ StartThread
  BY <1>1 DEF AllocNeuron, StatLayer, LoadRms, AllocSlots, StartThread, Take, Refused
<1>2. CASE AllocGsc \/ LoadGsc \/ MapGsc
  BY <1>2 DEF AllocGsc, LoadGsc, MapGsc, Take, Refused
<1>3. CASE PlaceCent \/ Precheck \/ BuildPool \/ BuildMerged
  BY <1>3 DEF PlaceCent, Precheck, BuildPool, BuildMerged, Take, Refused
<1>4. CASE CleanupExit \/ Setup \/ ToDecode \/ Finish \/ OthersMove \/ Done
  BY <1>4 DEF CleanupExit, Setup, ToDecode, Finish, OthersMove, Done, vars
<1> QED
  BY <1>1, <1>2, <1>3, <1>4 DEF Next

\* Every action takes something together with its handle, frees through handles, or
\* leaves what is held and the handles alone.
LEMMA HeapSteps ==
    ASSUME Next
    PROVE  UNCHANGED heap \/ (\E f, n : Take(f, n)) \/ (\E fs \in SUBSET Names : Free(fs))
<1> USE DEF Names
<1>1. CASE AllocNeuron \/ StatLayer \/ LoadRms \/ AllocSlots \/ StartThread
  BY <1>1 DEF AllocNeuron, StatLayer, LoadRms, AllocSlots, StartThread
<1>2. CASE AllocGsc \/ LoadGsc \/ MapGsc
  BY <1>2 DEF AllocGsc, LoadGsc, MapGsc
<1>3. CASE PlaceCent \/ Precheck \/ BuildPool \/ BuildMerged
  BY <1>3 DEF PlaceCent, Precheck, PoolsExit, BuildPool, BuildMerged
<1>4. CASE CleanupExit \/ Setup \/ ToDecode \/ Finish
  BY <1>4 DEF CleanupExit, Setup, ToDecode, Finish
<1>5. CASE OthersMove \/ Done
  BY <1>5 DEF OthersMove, Done, vars
<1> QED
  BY <1>1, <1>2, <1>3, <1>4, <1>5 DEF Next

\* So the handles keep naming exactly what is held: nothing is freed twice.
LEMMA NextHandled ==
    ASSUME IInv, Next
    PROVE  Handled'
<1>1. held \in Fields /\ Handled
  BY DEF IInv, Sized
<1>2. CASE UNCHANGED heap
  BY <1>1, <1>2 DEF Handled
<1>3. CASE \E f, n : Take(f, n)
  BY <1>1, <1>3 DEF Handled, Take
<1>4. CASE \E fs \in SUBSET Names : Free(fs)
  BY <1>1, <1>4, FreeLeaves
<1> QED
  BY <1>2, <1>3, <1>4, HeapSteps

LEMMA Cleared ==
    ASSUME held \in Fields, Handled
    PROVE  /\ Free({"neuron", "low", "high"}) =>
                  held' \in Fields /\ held'.neuron = 0 /\ held'.low = 0 /\ held'.high = 0
           /\ Free({"neuron", "gsc", "slots", "cent"}) \/ Free({"gsc", "slots", "cent", "neuron"}) =>
                  held' \in Fields /\ held'.neuron = 0 /\ held'.low = held.low /\ held'.high = held.high
  BY FreeLeaves DEF Names

\* What is held keeps its form: nothing but the neuron memory goes in with it, and the
\* pools one by one.
LEMMA NextSized ==
    ASSUME IInv, Next
    PROVE  Sized'
<1> USE Sizes, NoPools DEF IInv, Sized
<1>0. faults' \in Nat
  BY CountFaults
<1> USE <1>0, FreeForms
<1>1. CASE AllocNeuron
  BY <1>1 DEF AllocNeuron, Take, Fields, Stages
<1>2. CASE StatLayer \/ LoadRms \/ StartThread
  <2>1. held' = held /\ other' = other
    BY <1>2 DEF StatLayer, LoadRms, StartThread
  <2> QED
    BY <2>1
<1>3. CASE AllocGsc \/ LoadGsc \/ MapGsc
  <2>1. \/ held' = held \/ held' = [held EXCEPT !.gsc = 0]
        \/ Take("gsc", Wanted * GscLayer)
    BY <1>3 DEF AllocGsc, LoadGsc, MapGsc
  <2>2. other' = other
    BY <1>3 DEF AllocGsc, LoadGsc, MapGsc
  <2>3. Wanted * GscLayer \in Nat
    <3>1. Wanted = L \/ Wanted = IonLayers \/ Wanted = 0
      BY DEF Wanted, Tier
    <3> QED
      BY <3>1
  <2>4. CASE Take("gsc", Wanted * GscLayer)
    BY <2>2, <2>3, <2>4 DEF Take, Fields
  <2>5. CASE held' = [held EXCEPT !.gsc = 0]
    BY <2>2, <2>5 DEF Fields
  <2> QED
    BY <2>1, <2>2, <2>4, <2>5
<1>4. CASE AllocSlots
  <2>1. (held' = held \/ Take("slots", Slot)) /\ other' = other
    BY <1>4 DEF AllocSlots
  <2>2. CASE Take("slots", Slot)
    BY <2>1, <2>2 DEF Take, Fields
  <2> QED
    BY <2>1, <2>2
<1>5. CASE PlaceCent
  <2>1. (held' = held \/ Take("cent", Cent)) /\ other' = other
    BY <1>5 DEF PlaceCent
  <2>2. CASE Take("cent", Cent)
    BY <2>1, <2>2 DEF Take, Fields
  <2> QED
    BY <2>1, <2>2
<1>6. CASE Precheck
  <2>1. held' = held \/ Free({"neuron", "low", "high"})
    BY <1>6 DEF Precheck, PoolsExit
  <2>2. other' = other
    BY <1>6 DEF Precheck
  <2>3. CASE Free({"neuron", "low", "high"})
    BY <2>2, <2>3, Cleared
  <2> QED
    BY <2>1, <2>2, <2>3
<1>7. CASE BuildPool
  <2>1. \/ held' = held \/ Free({"neuron", "low", "high"})
        \/ /\ held.low + held.high # 2 * PoolsPerSet * Pool /\ Take(PoolSet, Pool)
    BY <1>7 DEF BuildPool, PoolsExit
  <2>2. other' = other
    BY <1>7 DEF BuildPool
  <2>3. CASE Free({"neuron", "low", "high"})
    BY <2>2, <2>3, Cleared
  <2>4. CASE held.low + held.high # 2 * PoolsPerSet * Pool /\ Take(PoolSet, Pool)
    <3>1. held.low <= 6 * Pool /\ held.high <= 6 * Pool
      BY OneMore DEF Fields
    <3>2. CASE PoolSet = "low"
      <4>1. Whole(held.low + Pool)
        BY <2>4, <3>1, <3>2, OneMore, Estimate DEF PoolSet, Fields
      <4>2. held' = [held EXCEPT !.low = @ + Pool]
        BY <2>4, <3>2 DEF Take
      <4> QED
        BY <2>2, <4>1, <4>2 DEF Fields
    <3>3. CASE PoolSet = "high"
      <4>1. Whole(held.high + Pool)
        BY <2>4, <3>1, <3>3, OneMore, Estimate DEF PoolSet, Fields
      <4>2. held' = [held EXCEPT !.high = @ + Pool]
        BY <2>4, <3>3 DEF Take
      <4> QED
        BY <2>2, <4>1, <4>2 DEF Fields
    <3> QED
      BY <3>2, <3>3 DEF PoolSet
  <2> QED
    BY <2>1, <2>2, <2>3, <2>4
<1>8. CASE BuildMerged
  BY <1>8 DEF BuildMerged, Take, Fields
<1>9. CASE CleanupExit \/ Setup \/ ToDecode \/ Finish
  <2>1. \/ held' = held \/ held' = [held EXCEPT !.high = 0]
        \/ Free({"neuron", "gsc", "slots", "cent"}) \/ Free({"gsc", "slots", "cent", "neuron"})
    BY <1>9 DEF CleanupExit, Setup, ToDecode, Finish
  <2>2. other' = other
    BY <1>9 DEF CleanupExit, Setup, ToDecode, Finish
  <2>3. CASE held' = [held EXCEPT !.high = 0]
    BY <2>2, <2>3 DEF Fields
  <2>4. CASE Free({"neuron", "gsc", "slots", "cent"}) \/ Free({"gsc", "slots", "cent", "neuron"})
    BY <2>2, <2>4, Cleared
  <2> QED
    BY <2>1, <2>2, <2>3, <2>4
<1>10. CASE OthersMove
  BY <1>10 DEF OthersMove
<1>11. CASE Done
  BY <1>11 DEF Done, vars
<1> QED
  BY <1>1, <1>2, <1>3, <1>4, <1>5, <1>6, <1>7, <1>8, <1>9, <1>10, <1>11 DEF Next

\* The parts of what is held, as numbers.
LEMMA Parts ==
    ASSUME Sized
    PROVE  /\ held \in Fields /\ other \in Nat /\ held.neuron \in Nat /\ held.neuron <= Neuron
           /\ held.gsc \in Nat /\ held.slots \in Nat /\ held.cent \in Nat
           /\ held.low \in Nat /\ held.high \in Nat /\ held.mp \in Nat
           /\ Held = held.neuron + held.gsc + held.slots + held.cent + held.low + held.high + held.mp
  BY DEF Sized, Fields, Held

LEMMA WantedSize == Wanted * GscLayer \in Nat
<1>1. Wanted = L \/ Wanted = IonLayers \/ Wanted = 0
  BY DEF Wanted, Tier
<1> QED
  BY <1>1, Sizes

\* Taking more for one purpose leaves the other parts as they are.
LEMMA TakeOne ==
    ASSUME held \in Fields, NEW n \in Nat
    PROVE  /\ Take("gsc", n) => held' = [held EXCEPT !.gsc = @ + n] /\ Room(n)
           /\ Take("slots", n) => held' = [held EXCEPT !.slots = @ + n] /\ Room(n)
           /\ Take("cent", n) => held' = [held EXCEPT !.cent = @ + n] /\ Room(n)
           /\ Take("neuron", n) => held' = [held EXCEPT !.neuron = @ + n] /\ Room(n)
  BY DEF Take

LEMMA NextStages ==
    ASSUME IInv, Next
    PROVE  Stages'
<1> USE Sizes DEF IInv, Stages
<1>0. held \in Fields
  BY Parts
<1>1. CASE AllocNeuron
  <2>1. merged' = merged /\ mode' = mode /\ pc' \in {"stat", "early"}
    BY <1>1 DEF AllocNeuron, envVars
  <2>2. held' = held \/ held' = [held EXCEPT !.neuron = @ + Neuron]
    BY <1>0, <1>1, TakeOne DEF AllocNeuron
  <2>3. pc = "neuron"
    BY <1>1 DEF AllocNeuron
  <2> QED
    BY <1>0, <2>1, <2>2, <2>3 DEF Before, Fields
<1>2. CASE StatLayer
  <2>1. merged' = merged /\ mode' = mode /\ pc = "stat"
    BY <1>2 DEF StatLayer, envVars
  <2>2. held' = held /\ pc' \in {"cent", "gsc", "cleanup"}
    BY <1>2 DEF StatLayer
  <2> QED
    BY <1>0, <2>1, <2>2 DEF Before
<1>3. CASE AllocGsc \/ LoadGsc \/ MapGsc
  <2>1. merged' = merged /\ mode' = mode /\ pc \in {"gsc", "gscload", "gscddr"}
    BY <1>3 DEF AllocGsc, LoadGsc, MapGsc, envVars
  <2>2. \/ held' = held /\ (pc' \in {"gscddr", "cent", "cleanup"} \/ (pc' = "rms" /\ mode = "ion_db"))
        \/ held' = [held EXCEPT !.gsc = 0] /\ pc' \in {"cent", "cleanup"}
        \/ held' = [held EXCEPT !.gsc = @ + Wanted * GscLayer] /\ pc' = "gscload"
    <3>1. CASE AllocGsc
      BY <1>0, <3>1, TakeOne, WantedSize DEF AllocGsc, WithoutGsc
    <3>2. CASE LoadGsc
      BY <1>0, <3>2, FreeForms DEF LoadGsc, WithoutGsc
    <3>3. CASE MapGsc
      BY <1>0, <3>3, FreeForms DEF MapGsc, WithoutGsc
    <3> QED
      BY <1>3, <3>1, <3>2, <3>3
  <2>3. CASE held' = held
    BY <2>1, <2>2, <2>3 DEF Before
  <2>4. CASE held' = [held EXCEPT !.gsc = 0] /\ pc' \in {"cent", "cleanup"}
    BY <1>0, <2>1, <2>4 DEF Before, Fields
  <2>5. CASE held' = [held EXCEPT !.gsc = @ + Wanted * GscLayer] /\ pc' = "gscload"
    BY <1>0, <2>1, <2>5 DEF Before, Fields
  <2> QED
    BY <2>2, <2>3, <2>4, <2>5
<1>4. CASE LoadRms \/ AllocSlots \/ StartThread
  <2>1. merged' = merged /\ mode' = mode /\ pc \in {"rms", "slots", "thread"}
    BY <1>4 DEF LoadRms, AllocSlots, StartThread, envVars
  <2>2. \/ held' = held /\ pc' \in {"slots", "thread", "cent", "cleanup"}
        \/ held' = [held EXCEPT !.slots = @ + Slot] /\ pc' = pc
    BY <1>0, <1>4, TakeOne DEF LoadRms, AllocSlots, StartThread
  <2>3. CASE held' = held /\ pc' \in {"slots", "thread", "cent", "cleanup"}
    BY <2>1, <2>3 DEF Before
  <2>4. CASE held' = [held EXCEPT !.slots = @ + Slot] /\ pc' = pc
    BY <1>0, <2>1, <2>4 DEF Before, Fields
  <2> QED
    BY <2>2, <2>3, <2>4
<1>5. CASE PlaceCent
  <2>1. merged' = merged /\ mode' = mode /\ pc = "cent"
    BY <1>5 DEF PlaceCent, envVars
  <2>2. \/ held' = held /\ pc' \in {"precheck", "cleanup"}
        \/ held' = [held EXCEPT !.cent = @ + Cent] /\ pc' = "precheck"
    BY <1>0, <1>5, TakeOne DEF PlaceCent
  <2> QED
    BY <1>0, <2>1, <2>2 DEF Before, Fields
<1>6. CASE CleanupExit \/ Precheck \/ BuildPool \/ BuildMerged \/ Setup \/ ToDecode \/ Finish
  <2>1. pc' \in {"early", "pools", "build", "merge", "setup", "prefill", "decode", "late", "ok"} /\ mode' = mode
    BY <1>6 DEF CleanupExit, Precheck, PoolsExit, BuildPool, BuildMerged, Setup, ToDecode, Finish, envVars
  <2>2. held'.slots = held.slots \/ held'.slots = 0
    <3>1. CASE Precheck \/ BuildPool
      BY <1>0, <3>1, FreeLeaves DEF Precheck, PoolsExit, BuildPool, Take, PoolSet, Fields, Names
    <3>2. CASE BuildMerged
      BY <1>0, <3>2 DEF BuildMerged, Take, Fields
    <3>3. CASE CleanupExit \/ Setup \/ ToDecode \/ Finish
      BY <1>0, <3>3, FreeLeaves DEF CleanupExit, Setup, ToDecode, Finish, Fields, Names
    <3> QED
      BY <1>6, <3>1, <3>2, <3>3
  <2> QED
    BY <2>1, <2>2 DEF Before
<1>7. CASE OthersMove \/ Done
  BY <1>7 DEF OthersMove, Done, vars, envVars
<1> QED
  BY <1>1, <1>2, <1>3, <1>4, <1>5, <1>6, <1>7 DEF Next

\* No action but that of the others changes what they hold, and none the settings.
LEMMA NoOtherMoves ==
    ASSUME Next
    PROVE  /\ mode' = mode /\ debugfs' = debugfs
           /\ OthersMove \/ (other' = other /\ grew' = grew)
<1>1. CASE AllocNeuron \/ StatLayer \/ LoadRms \/ AllocSlots \/ StartThread
  BY <1>1 DEF AllocNeuron, StatLayer, LoadRms, AllocSlots, StartThread, envVars
<1>2. CASE AllocGsc \/ LoadGsc \/ MapGsc
  BY <1>2 DEF AllocGsc, LoadGsc, MapGsc, envVars
<1>3. CASE PlaceCent \/ Precheck \/ BuildPool \/ BuildMerged
  BY <1>3 DEF PlaceCent, Precheck, BuildPool, BuildMerged, envVars
<1>4. CASE CleanupExit \/ Setup \/ ToDecode \/ Finish \/ OthersMove \/ Done
  BY <1>4 DEF CleanupExit, Setup, ToDecode, Finish, OthersMove, Done, vars, envVars
<1> QED
  BY <1>1, <1>2, <1>3, <1>4 DEF Next

\* As long as a set of pools is not complete there is room in the estimate for one more.
LEMMA RoomForPool ==
    ASSUME Sized, held.low + held.high # 2 * PoolsPerSet * Pool
    PROVE  held.low + held.high + Pool <= PoolsEst
<1>1. /\ held.low \in Nat /\ held.high \in Nat /\ Whole(held.low) /\ Whole(held.high)
      /\ held.low <= 6 * Pool /\ held.high <= 6 * Pool
  BY OneMore, Parts DEF Sized
<1>2. held.low # 6 * Pool \/ held.high # 6 * Pool
  BY Estimate, Sizes
<1>3. held.low + Pool <= 6 * Pool \/ held.high + Pool <= 6 * Pool
  BY <1>1, <1>2, OneMore
<1> QED
  BY <1>1, <1>3, Estimate, Sizes

\* Where there was room there is when others hold less.
LEMMA LessIsRoom ==
    ASSUME NEW h \in Nat, NEW o \in Nat, NEW o2 \in Nat, o2 <= o,
           h + o + PoolsEst + MpEst <= Carveout
    PROVE  h + o2 + PoolsEst + MpEst <= Carveout
  BY Sizes

LEMMA NextYield ==
    ASSUME IInv, Next
    PROVE  Yield'
<1> USE Sizes DEF IInv
<1> SUFFICES ASSUME mode # "ion_db", debugfs, ~grew, ~grew',
                    OthersMove \/ other' = other
             PROVE  /\ pc' \in {"gscload", "gscddr", "cent", "precheck"} /\ held'.gsc + held'.cent > 0 =>
                           Held' + other' + PoolsEst + MpEst <= Carveout
                    /\ pc' = "build" =>
                           Held' + other' + PoolsEst <= Carveout + held'.low + held'.high
  <2>1. ~grew' => ~grew
    BY NoOtherMoves DEF OthersMove
  <2> QED
    BY <2>1, NoOtherMoves DEF Yield
<1>1. /\ held \in Fields /\ other \in Nat
      /\ held.gsc \in Nat /\ held.cent \in Nat /\ held.low \in Nat /\ held.high \in Nat
      /\ Held \in Nat
  BY Parts
<1>2. /\ pc \in {"gscload", "gscddr", "cent", "precheck"} /\ held.gsc + held.cent > 0 =>
             Held + other + PoolsEst + MpEst <= Carveout
      /\ pc = "build" => Held + other + PoolsEst <= Carveout + held.low + held.high
  BY DEF Yield
<1>3. ASSUME held' = held PROVE Held' = Held
  BY <1>3 DEF Held
<1>4. CASE AllocNeuron \/ StatLayer
  <2>1. pc' \in {"stat", "early", "gsc", "cleanup"} \/ (pc' = "cent" /\ held' = held /\ pc = "stat")
    BY <1>4 DEF AllocNeuron, StatLayer
  <2> QED
    BY <2>1 DEF Stages, Before
<1>5. CASE AllocGsc
  <2>1. /\ held.gsc = 0 /\ held.cent = 0 /\ merged /\ other' = other
        /\ PoolsNeed = PoolsEst + MpEst
    BY <1>5 DEF AllocGsc, Stages, Before, PoolsNeed, OthersMove
  <2>2. \/ held' = held /\ pc' = "cent"
        \/ Wanted > 0 /\ Take("gsc", Wanted * GscLayer) /\ pc' = "gscload"
    BY <1>5 DEF AllocGsc, WithoutGsc
  <2>3. CASE held' = held /\ pc' = "cent"
    BY <1>1, <2>1, <2>3
  <2>4. CASE Wanted > 0 /\ Take("gsc", Wanted * GscLayer) /\ pc' = "gscload"
    <3>1. Room(Wanted * GscLayer + PoolsEst + MpEst)
      <4>1. \/ Wanted = L /\ ~Short(L * GscLayer + PoolsNeed)
            \/ Wanted = IonLayers /\ Room(IonLayers * GscLayer + PoolsNeed)
        BY <2>4 DEF Wanted, Tier
      <4>2. CASE Wanted = L /\ ~Short(L * GscLayer + PoolsNeed)
        BY <1>1, <2>1, <4>2 DEF Short, Room
      <4>3. CASE Wanted = IonLayers /\ Room(IonLayers * GscLayer + PoolsNeed)
        BY <1>1, <2>1, <4>3 DEF Room
      <4> QED
        BY <4>1, <4>2, <4>3
    <3>2. held' = [held EXCEPT !.gsc = @ + Wanted * GscLayer]
      BY <1>1, <2>4, TakeOne, WantedSize
    <3>3. Held' = Held + Wanted * GscLayer
      BY <1>1, <3>2, WantedSize DEF Held, Fields
    <3> QED
      BY <1>1, <2>1, <2>4, <3>1, <3>3, WantedSize DEF Room
  <2> QED
    BY <2>2, <2>3, <2>4
<1>6. CASE LoadGsc \/ MapGsc
  <2>1. /\ held.cent = 0 /\ other' = other /\ pc \in {"gscload", "gscddr"}
    BY <1>6 DEF LoadGsc, MapGsc, Stages, Before, OthersMove
  <2>2. \/ held' = [held EXCEPT !.gsc = 0] /\ pc' = "cent"
        \/ held' = held /\ pc' \in {"gscddr", "cent"}
    <3>1. CASE LoadGsc
      BY <1>1, <3>1, FreeForms DEF LoadGsc, WithoutGsc
    <3>2. CASE MapGsc
      BY <1>1, <3>2, FreeForms DEF MapGsc, WithoutGsc
    <3> QED
      BY <1>6, <3>1, <3>2
  <2>3. CASE held' = [held EXCEPT !.gsc = 0] /\ pc' = "cent"
    BY <1>1, <2>1, <2>3 DEF Fields
  <2>4. CASE held' = held /\ pc' \in {"gscddr", "cent"}
    BY <1>2, <1>3, <2>1, <2>4
  <2> QED
    BY <2>2, <2>3, <2>4
<1>7. CASE LoadRms \/ AllocSlots \/ StartThread
  BY <1>7 DEF LoadRms, AllocSlots, StartThread, Stages
<1>8. CASE PlaceCent
  <2>1. /\ pc = "cent" /\ other' = other /\ pc' \in {"precheck", "cleanup"}
        /\ PoolsNeed = PoolsEst + MpEst
    BY <1>8 DEF PlaceCent, Stages, Before, PoolsNeed, OthersMove
  <2>2. \/ held' = held
        \/ Room(Cent + PoolsNeed) /\ Take("cent", Cent)
    BY <1>8 DEF PlaceCent
  <2>3. CASE held' = held
    BY <1>2, <1>3, <2>1, <2>3
  <2>4. CASE Room(Cent + PoolsNeed) /\ Take("cent", Cent)
    <3>1. held' = [held EXCEPT !.cent = @ + Cent]
      BY <1>1, <2>4, TakeOne
    <3>2. Held' = Held + Cent
      BY <1>1, <3>1 DEF Held, Fields
    <3> QED
      BY <1>1, <2>1, <2>4, <3>2 DEF Room
  <2> QED
    BY <2>1, <2>2, <2>3, <2>4
<1>9. CASE Precheck
  <2>1. pc' = "pools" \/ (pc' = "build" /\ held' = held /\ Room(PoolsEst) /\ other' = other)
    BY <1>9 DEF Precheck, PoolsExit, Short, OthersMove
  <2> QED
    BY <1>1, <1>3, <2>1 DEF Room
<1>10. CASE BuildPool
  <2>1. pc = "build" /\ other' = other
    BY <1>10 DEF BuildPool, OthersMove
  <2>2. pc' \in {"merge", "pools"} \/ (pc' = "build" /\ Take(PoolSet, Pool))
    BY <1>10 DEF BuildPool, PoolsExit
  <2>3. ASSUME Take(PoolSet, Pool)
        PROVE  /\ Held' = Held + Pool /\ held'.low + held'.high = held.low + held.high + Pool
               /\ held'.low \in Nat /\ held'.high \in Nat
    <3>1. held' = [held EXCEPT !.low = @ + Pool] \/ held' = [held EXCEPT !.high = @ + Pool]
      BY <2>3 DEF Take, PoolSet
    <3> QED
      BY <1>1, <3>1 DEF Held, Fields
  <2>4. ASSUME pc' = "build"
        PROVE  Held' + other' + PoolsEst <= Carveout + held'.low + held'.high
    <3>1. /\ Held' = Held + Pool /\ held'.low + held'.high = held.low + held.high + Pool
          /\ held'.low \in Nat /\ held'.high \in Nat
      BY <2>2, <2>3, <2>4
    <3>2. Held + other + PoolsEst <= Carveout + held.low + held.high
      BY <1>2, <2>1
    <3> QED
      BY <1>1, <2>1, <3>1, <3>2
  <2> QED
    BY <2>2, <2>4
<1>11. CASE CleanupExit \/ BuildMerged \/ Setup \/ ToDecode \/ Finish
  BY <1>11 DEF CleanupExit, BuildMerged, Setup, ToDecode, Finish
<1>12. CASE OthersMove
  <2>1. PICK o \in Others : other' = o /\ grew' = (grew \/ o > other)
    BY <1>12 DEF OthersMove
  <2>2. ~(o > other)
    BY <2>1
  <2>3. held' = held /\ pc' = pc /\ other' \in Nat /\ other' <= other
    BY <1>1, <1>12, <2>1, <2>2 DEF OthersMove
  <2>4. Held' = Held
    BY <1>3, <2>3
  <2>5. Held + other + PoolsEst <= Carveout + held.low + held.high =>
            Held' + other' + PoolsEst <= Carveout + held.low + held.high
    BY <1>1, <2>3, <2>4
  <2>6. Held + other + PoolsEst + MpEst <= Carveout => Held' + other' + PoolsEst + MpEst <= Carveout
    BY <1>1, <2>3, <2>4, LessIsRoom
  <2> QED
    BY <1>2, <2>3, <2>5, <2>6
<1>13. CASE Done
  BY <1>2, <1>3, <1>13 DEF Done, vars, OthersMove
<1> QED
  BY <1>4, <1>5, <1>6, <1>7, <1>8, <1>9, <1>10, <1>11, <1>12, <1>13 DEF Next

\* Only the pre-check and an allocation of a pool lead to the exit for want of pools.
LEMMA NextCaches ==
    ASSUME IInv, Next
    PROVE  CachesYield'
<1> USE Sizes DEF IInv
<1> SUFFICES ASSUME pc' = "pools", mode # "ion_db", debugfs, ~grew', faults' = 0
             PROVE  Neuron + other' + PoolsEst > Carveout
  BY NoOtherMoves DEF CachesYield
<1>1. /\ held.neuron \in Nat /\ held.neuron <= Neuron /\ other \in Nat
      /\ held.gsc \in Nat /\ held.slots \in Nat /\ held.cent \in Nat
      /\ held.low \in Nat /\ held.high \in Nat /\ held.mp \in Nat
      /\ Held = held.neuron + held.gsc + held.slots + held.cent + held.low + held.high + held.mp
  BY Parts
<1>2. faults \in Nat /\ ~(faults' = faults + 1)
  BY DEF Sized
<1>3. CASE Precheck
  <2>1. other' = other /\ grew' = grew /\ pc = "precheck" /\ Held + other + PoolsEst > Carveout
    BY <1>1, <1>3 DEF Precheck, Short, Room
  <2>2. ~(held.gsc + held.cent > 0)
    BY <1>1, <2>1 DEF Yield
  <2>3. held.slots = 0 /\ held.low = 0 /\ held.high = 0 /\ held.mp = 0
    BY <2>1 DEF Stages, Before
  <2> QED
    BY <1>1, <2>1, <2>2, <2>3
<1>4. CASE BuildPool
  <2>1. /\ other' = other /\ grew' = grew /\ pc = "build"
        /\ held.low + held.high # 2 * PoolsPerSet * Pool /\ ~Room(Pool)
    BY <1>2, <1>4 DEF BuildPool, Refused, Fault
  <2>2. Held + other + PoolsEst <= Carveout + held.low + held.high
    BY <2>1 DEF Yield
  <2>3. held.low + held.high + Pool <= PoolsEst
    BY <2>1, RoomForPool
  <2> QED
    BY <1>1, <2>1, <2>2, <2>3 DEF Room
<1>5. CASE Done
  BY <1>5 DEF Done, vars, envVars, CachesYield
<1>6. CASE OthersMove
  BY <1>6 DEF OthersMove, Ended
<1>7. CASE AllocNeuron \/ StatLayer \/ LoadRms \/ AllocSlots \/ StartThread
  BY <1>7 DEF AllocNeuron, StatLayer, LoadRms, AllocSlots, StartThread
<1>8. CASE AllocGsc \/ LoadGsc \/ MapGsc
  <2>1. pc' \in {"cent", "cleanup", "gscload", "gscddr", "rms"}
    BY <1>8 DEF AllocGsc, LoadGsc, MapGsc, WithoutGsc
  <2> QED
    BY <2>1
<1>9. CASE CleanupExit \/ PlaceCent \/ BuildMerged \/ Setup \/ ToDecode \/ Finish
  BY <1>9 DEF PlaceCent, BuildMerged, Setup, ToDecode, Finish, CleanupExit
<1> QED
  BY <1>3, <1>4, <1>5, <1>6, <1>7, <1>8, <1>9 DEF Next

LEMMA Inductive == IInv /\ [Next]_vars => IInv'
<1>1. ASSUME IInv, Next PROVE IInv'
  BY <1>1, NextSized, NextHandled, NextStages, NextYield, NextCaches DEF IInv
<1>2. ASSUME IInv, UNCHANGED vars PROVE IInv'
  <2>1. /\ pc' = pc /\ mode' = mode /\ debugfs' = debugfs /\ held' = held /\ other' = other
        /\ grew' = grew /\ merged' = merged /\ faults' = faults /\ Held' = Held
        /\ handles' = handles /\ stale' = stale
    BY <1>2 DEF vars, envVars, Held
  <2> QED
    BY <1>2, <2>1 DEF IInv, Sized, Handled, Stages, Yield, CachesYield
<1> QED
  BY <1>1, <1>2

-----------------------------------------------------------------------------
\* Whatever the sizes and whatever others hold: a start without ion_db that stops for
\* want of the pools would have stopped without the caches of the scales and the
\* centroids, too (the checks of gsc_ion_load and lmhead2_cent_place that "leave the
\* pools their room").
THEOREM OnlyForPools == Spec => []CachesYield
<1>1. IInv => CachesYield
  BY DEF IInv
<1> QED
  BY <1>1, InitInv, Inductive, PTL DEF Spec
-----------------------------------------------------------------------------
(* What is held at each stage, and that it fits.                               *)

\* From the first allocation to the end of the run.
Running == {"stat", "gsc", "gscload", "gscddr", "rms", "slots", "thread", "cent", "precheck",
            "build", "merge", "setup", "prefill", "decode"}
Loaded == {"cent", "precheck", "build", "merge", "setup", "prefill", "decode"}

\* The scales: none yet, those of 22 layers or of all, the remaining layers mapped.
Scales ==
    /\ pc \in {"neuron", "stat", "gsc", "gscload"} => gscN = 0 /\ ddr = 0
    /\ pc = "gscload" => held.gsc = IonLayers * GscLayer \/ (mode # "ion_db" /\ held.gsc = L * GscLayer)
    /\ pc = "gscddr" => gscN = IonLayers /\ held.gsc = IonLayers * GscLayer /\ ddr \in 0..L - IonLayers
    /\ pc \in {"rms", "slots", "thread"} \cup Loaded =>
          \/ gscN = IonLayers /\ ddr = L - IonLayers /\ held.gsc = IonLayers * GscLayer
          \/ mode # "ion_db" /\ gscN = L /\ ddr = 0 /\ held.gsc = L * GscLayer
          \/ mode # "ion_db" /\ gscN = 0 /\ ddr = 0 /\ held.gsc = 0

\* The slots of the prefetcher, taken one by one.
Slots ==
    /\ pc \in {"neuron", "stat", "gsc", "gscload", "gscddr", "rms"} => held.slots = 0
    /\ pc = "slots" => \E k \in 0..NSlot : held.slots = k * Slot
    /\ pc = "thread" \/ (mode = "ion_db" /\ pc \in Loaded) => held.slots = NSlot * Slot

\* The neuron memory and the pools.
Pools ==
    /\ pc \in Running => held.neuron = Neuron
    /\ pc \in {"build", "merge"} => held.mp = 0
    /\ pc \in {"merge", "setup", "prefill"} => held.low = 6 * Pool /\ held.high = 6 * Pool
    /\ pc = "decode" => held.low = 6 * Pool
    /\ pc \in {"setup", "prefill", "decode"} => (merged => held.mp = Mp)

\* The estimate for the pools is free when they are built.
Budget ==
    /\ pc = "precheck" => Held + PoolsEst <= Carveout
    /\ pc = "build" => Held + PoolsEst <= Carveout + held.low + held.high

SInv == Scales /\ Slots /\ Pools /\ Budget

\* The parts of what is held after a step.
Becomes(n, g, s, c, l, h, m) ==
    /\ held'.neuron = n /\ held'.gsc = g /\ held'.slots = s /\ held'.cent = c
    /\ held'.low = l /\ held'.high = h /\ held'.mp = m

LEMMA Taken ==
    ASSUME held \in Fields, NEW n \in Nat
    PROVE  /\ Take("neuron", n) => Room(n) /\ Becomes(held.neuron + n, held.gsc, held.slots, held.cent, held.low, held.high, held.mp)
           /\ Take("gsc", n) => Room(n) /\ Becomes(held.neuron, held.gsc + n, held.slots, held.cent, held.low, held.high, held.mp)
           /\ Take("slots", n) => Room(n) /\ Becomes(held.neuron, held.gsc, held.slots + n, held.cent, held.low, held.high, held.mp)
           /\ Take("cent", n) => Room(n) /\ Becomes(held.neuron, held.gsc, held.slots, held.cent + n, held.low, held.high, held.mp)
           /\ Take("low", n) => Room(n) /\ Becomes(held.neuron, held.gsc, held.slots, held.cent, held.low + n, held.high, held.mp)
           /\ Take("high", n) => Room(n) /\ Becomes(held.neuron, held.gsc, held.slots, held.cent, held.low, held.high + n, held.mp)
           /\ Take("mp", n) => Room(n) /\ Becomes(held.neuron, held.gsc, held.slots, held.cent, held.low, held.high, held.mp + n)
  BY DEF Take, Becomes, Fields

LEMMA Freed ==
    ASSUME held \in Fields, Handled
    PROVE  /\ held' = held => Becomes(held.neuron, held.gsc, held.slots, held.cent, held.low, held.high, held.mp)
           /\ Free({"gsc"}) => Becomes(held.neuron, 0, held.slots, held.cent, held.low, held.high, held.mp)
           /\ Free({"high"}) => Becomes(held.neuron, held.gsc, held.slots, held.cent, held.low, 0, held.mp)
           /\ Free({"neuron", "low", "high"}) => Becomes(0, held.gsc, held.slots, held.cent, 0, 0, held.mp)
           /\ Free({"neuron", "gsc", "slots", "cent"}) => Becomes(0, 0, 0, 0, held.low, held.high, held.mp)
           /\ Free({"gsc", "slots", "cent", "neuron"}) => Becomes(0, 0, 0, 0, held.low, held.high, held.mp)
  BY FreeLeaves DEF Becomes, Names

\* How many layers a cache of so many bytes holds.
LEMMA WholeLayers == (L * GscLayer) \div GscLayer = L /\ (IonLayers * GscLayer) \div GscLayer = IonLayers
<1>1. ASSUME NEW n \in Nat PROVE (n * GscLayer) \div GscLayer = n
  BY SizeAssumption, Sizes
<1> QED
  BY <1>1, Sizes

LEMMA Layers == 0 < IonLayers /\ IonLayers < L /\ GscLayer > 0 /\ IonLayers * GscLayer <= L * GscLayer
<1>1. 0 < IonLayers /\ IonLayers < L /\ GscLayer > 0
  BY SizeAssumption
<1>2. ASSUME NEW d \in Nat PROVE IonLayers * GscLayer <= (IonLayers + d) * GscLayer
  BY Sizes
<1>3. IonLayers + (L - IonLayers) = L /\ L - IonLayers \in Nat
  BY <1>1, Sizes
<1> QED
  BY <1>1, <1>2, <1>3

\* From the rms cache on nothing changes the scales that are held, but for the exits.
LEMMA LaterKeep ==
    ASSUME IInv, LoadRms \/ AllocSlots \/ StartThread \/ PlaceCent \/ Precheck \/ BuildPool
                     \/ BuildMerged \/ Setup \/ ToDecode \/ Finish
    PROVE  /\ mode' = mode /\ gscN' = gscN /\ ddr' = ddr
           /\ pc \in {"rms", "slots", "thread"} \cup Loaded
           /\ pc' \in Ended \cup {"cleanup"} \/ (pc' \in {"slots", "thread"} \cup Loaded /\ held'.gsc = held.gsc)
<1> USE Sizes, Taken, Freed DEF IInv, Sized, Ended, Loaded, envVars, gscVars, Becomes
<1>1. CASE LoadRms \/ StartThread
  BY <1>1 DEF LoadRms, StartThread
<1>2. CASE AllocSlots
  BY <1>2 DEF AllocSlots
<1>3. CASE PlaceCent
  BY <1>3 DEF PlaceCent
<1>4. CASE Precheck
  BY <1>4 DEF Precheck, PoolsExit
<1>5. CASE BuildPool
  <2>1. PoolSet = "low" \/ PoolSet = "high"
    BY DEF PoolSet
  <2> QED
    BY <1>5, <2>1 DEF BuildPool, PoolsExit
<1>6. CASE BuildMerged
  BY <1>6 DEF BuildMerged
<1>7. CASE Setup
  BY <1>7 DEF Setup
<1>8. CASE ToDecode
  BY <1>8 DEF ToDecode
<1>9. CASE Finish
  BY <1>9 DEF Finish
<1> QED
  BY <1>1, <1>2, <1>3, <1>4, <1>5, <1>6, <1>7, <1>8, <1>9

LEMMA NextScales ==
    ASSUME IInv, SInv, Next
    PROVE  Scales'
<1> USE Sizes, Layers, Taken, Freed DEF IInv, Sized, SInv
<1>0. /\ pc \in {"neuron", "stat", "gsc"} => held.gsc = 0
      /\ pc \in {"neuron", "stat", "gsc", "gscload"} => gscN = 0 /\ ddr = 0
  BY DEF Stages, Scales
<1>1. CASE AllocNeuron
  BY <1>0, <1>1 DEF AllocNeuron, gscVars, Scales, Loaded
<1>2. CASE StatLayer
  <2>1. gscN' = 0 /\ ddr' = 0 /\ mode' = mode
    BY <1>0, <1>2 DEF StatLayer, gscVars, envVars
  <2>2. \/ pc' = "cent" /\ mode # "ion_db" /\ held'.gsc = 0
        \/ pc' \in {"gsc", "cleanup"}
    BY <1>0, <1>2 DEF StatLayer, Becomes
  <2> QED
    BY <2>1, <2>2 DEF Scales, Loaded
<1>3. CASE AllocGsc
  <2>1. gscN' = 0 /\ ddr' = 0 /\ mode' = mode /\ held.gsc = 0
    BY <1>0, <1>3 DEF AllocGsc, gscVars, envVars
  <2>2. \/ pc' = "cleanup"
        \/ pc' = "cent" /\ mode # "ion_db" /\ held'.gsc = 0
        \/ pc' = "gscload" /\ Wanted > 0 /\ Take("gsc", Wanted * GscLayer)
    BY <1>3, <2>1 DEF AllocGsc, WithoutGsc, Becomes
  <2>3. ASSUME Wanted > 0, Take("gsc", Wanted * GscLayer)
        PROVE  held'.gsc = IonLayers * GscLayer \/ (mode # "ion_db" /\ held'.gsc = L * GscLayer)
    <3>1. Wanted = IonLayers \/ (mode # "ion_db" /\ Wanted = L)
      BY <2>3 DEF Wanted, Tier
    <3>2. held'.gsc = Wanted * GscLayer
      BY <2>1, <2>3, WantedSize DEF Becomes
    <3> QED
      BY <3>1, <3>2
  <2> QED
    BY <2>1, <2>2, <2>3 DEF Scales, Loaded
<1>4. CASE LoadGsc
  <2>1. /\ gscN = 0 /\ ddr' = 0 /\ mode' = mode
        /\ held.gsc = IonLayers * GscLayer \/ (mode # "ion_db" /\ held.gsc = L * GscLayer)
    BY <1>0, <1>4 DEF LoadGsc, envVars, Scales
  <2>2. CASE gscN' = held.gsc \div GscLayer /\ held' = held /\ pc' = IF gscN' < L THEN "gscddr" ELSE "cent"
    <3>1. CASE held.gsc = IonLayers * GscLayer
      <4>1. gscN' = IonLayers /\ pc' = "gscddr"
        BY <2>2, <3>1, WholeLayers
      <4> QED
        BY <2>1, <2>2, <3>1, <4>1 DEF Scales, Loaded
    <3>2. CASE mode # "ion_db" /\ held.gsc = L * GscLayer
      <4>1. gscN' = L /\ pc' = "cent"
        BY <2>2, <3>2, WholeLayers
      <4> QED
        BY <2>1, <2>2, <3>2, <4>1 DEF Scales, Loaded
    <3> QED
      BY <2>1, <3>1, <3>2
  <2>3. CASE gscN' = gscN /\ WithoutGsc /\ Free({"gsc"})
    BY <2>1, <2>3 DEF WithoutGsc, Becomes, Scales, Loaded
  <2> QED
    BY <1>4, <2>2, <2>3 DEF LoadGsc
<1>5. CASE MapGsc
  <2>1. /\ gscN = IonLayers /\ held.gsc = IonLayers * GscLayer /\ ddr \in 0..L - IonLayers /\ mode' = mode
    BY <1>5 DEF MapGsc, envVars, Scales
  <2>2. CASE gscN + ddr < L /\ ddr' = ddr + 1 /\ pc' = pc /\ held' = held /\ gscN' = gscN
    BY <1>5, <2>1, <2>2 DEF MapGsc, Scales, Loaded
  <2>3. CASE /\ WithoutGsc
             /\ IF mode = "ion_db" THEN UNCHANGED gscVars ELSE Free({"gsc"}) /\ gscN' = 0 /\ ddr' = 0
    BY <2>1, <2>3 DEF WithoutGsc, Becomes, Scales, Loaded
  <2>4. CASE /\ gscN + ddr = L /\ pc' = (IF mode = "ion_db" THEN "rms" ELSE "cent")
             /\ held' = held /\ UNCHANGED gscVars
    BY <2>1, <2>4 DEF gscVars, Scales, Loaded
  <2> QED
    BY <1>5, <2>2, <2>3, <2>4 DEF MapGsc
<1>6. CASE LoadRms \/ AllocSlots \/ StartThread \/ PlaceCent \/ Precheck \/ BuildPool
             \/ BuildMerged \/ Setup \/ ToDecode \/ Finish
  BY <1>6, LaterKeep DEF Scales, Ended, Loaded
<1>7. CASE OthersMove \/ Done
  BY <1>7 DEF OthersMove, Done, vars, envVars, gscVars, Scales
<1>8. CASE CleanupExit
  BY <1>8 DEF CleanupExit, Scales, Loaded
<1> QED
  BY <1>1, <1>2, <1>3, <1>4, <1>5, <1>6, <1>7, <1>8 DEF Next

\* The slots that are taken are a whole number of them, and there is one left to take.
LEMMA OneMoreSlot ==
    ASSUME NEW n \in Nat, n < NSlot * Slot, \E k \in 0..NSlot : n = k * Slot
    PROVE  n + Slot <= NSlot * Slot /\ \E k \in 0..NSlot : n + Slot = k * Slot
<1>1. PICK k \in 0..NSlot : n = k * Slot
  OBVIOUS
<1>2. k # NSlot
  BY <1>1, Sizes
<1>3. k + 1 \in 0..NSlot /\ n + Slot = (k + 1) * Slot
  BY <1>1, <1>2, Sizes
<1>4. ASSUME NEW a \in Nat, NEW d \in Nat PROVE a * Slot <= (a + d) * Slot
  BY Sizes
<1>5. (k + 1) * Slot <= ((k + 1) + (NSlot - (k + 1))) * Slot
  BY <1>3, <1>4, Sizes
<1>6. (k + 1) + (NSlot - (k + 1)) = NSlot
  BY <1>3, Sizes
<1> QED
  BY <1>3, <1>5, <1>6

LEMMA NextSlots ==
    ASSUME IInv, SInv, Next
    PROVE  Slots'
<1> USE Sizes, Taken, Freed DEF IInv, Sized, SInv
<1> DEFINE Early == {"neuron", "stat", "gsc", "gscload", "gscddr", "rms"}
<1>0. mode' = mode /\ (pc \in {"rms", "slots", "thread"} => mode = "ion_db")
  BY NoOtherMoves DEF Stages
<1>1. CASE AllocNeuron \/ StatLayer
  <2>1. /\ pc \in {"neuron", "stat"}
        /\ pc' \in {"early", "cleanup"} \/ (pc' \in {"stat", "gsc", "cent"} /\ held'.slots = held.slots)
        /\ pc' = "cent" => mode # "ion_db"
    BY <1>1 DEF AllocNeuron, StatLayer, Becomes
  <2> QED
    BY <1>0, <2>1 DEF Slots, Loaded
<1>2. CASE AllocGsc \/ LoadGsc \/ MapGsc
  <2>1. /\ pc \in {"gsc", "gscload", "gscddr"}
        /\ pc' = "cleanup" \/ (pc' \in {"gscload", "gscddr", "rms", "cent"} /\ held'.slots = held.slots)
        /\ pc' = "cent" => mode # "ion_db"
    <3>1. CASE AllocGsc
      BY <3>1, WantedSize DEF AllocGsc, WithoutGsc, Becomes
    <3>2. CASE LoadGsc
      <4>1. mode = "ion_db" => held.gsc \div GscLayer = IonLayers
        BY <3>2, WholeLayers DEF LoadGsc, Scales
      <4> QED
        BY <3>2, <4>1, Layers DEF LoadGsc, WithoutGsc, Becomes
    <3>3. CASE MapGsc
      BY <3>3 DEF MapGsc, WithoutGsc, Becomes
    <3> QED
      BY <1>2, <3>1, <3>2, <3>3
  <2> QED
    BY <1>0, <2>1 DEF Slots, Loaded
<1>3. CASE LoadRms
  <2>1. pc = "rms" /\ (pc' = "cleanup" \/ (pc' = "slots" /\ held'.slots = held.slots))
    BY <1>3 DEF LoadRms, Becomes
  <2>2. held.slots = 0 /\ 0 \in 0..NSlot /\ 0 = 0 * Slot
    BY <2>1 DEF Slots
  <2>3. \E k \in 0..NSlot : held.slots = k * Slot
    BY <2>2
  <2> QED
    BY <2>1, <2>3 DEF Slots, Loaded
<1>4. CASE AllocSlots
  <2>1. /\ pc = "slots" /\ held.slots \in Nat /\ \E k \in 0..NSlot : held.slots = k * Slot
        /\ \/ pc' = "cleanup"
           \/ held.slots < NSlot * Slot /\ pc' = "slots" /\ held'.slots = held.slots + Slot
           \/ held.slots = NSlot * Slot /\ pc' = "thread" /\ held'.slots = held.slots
    BY <1>4, Parts DEF AllocSlots, Becomes, Slots
  <2>2. CASE held.slots < NSlot * Slot /\ pc' = "slots" /\ held'.slots = held.slots + Slot
    <3>1. \E k \in 0..NSlot : held'.slots = k * Slot
      BY <2>1, <2>2, OneMoreSlot
    <3> QED
      BY <2>2, <3>1 DEF Slots, Loaded
  <2> QED
    BY <2>1, <2>2 DEF Slots, Loaded
<1>5. CASE StartThread
  BY <1>0, <1>5 DEF StartThread, Becomes, Slots, Loaded
<1>6. CASE PlaceCent \/ Precheck \/ BuildPool \/ BuildMerged \/ Setup \/ ToDecode \/ Finish
  <2>1. pc \in Loaded /\ (pc' \in Ended \cup {"cleanup"} \/ (pc' \in Loaded /\ held'.slots = held.slots))
    <3>1. CASE PlaceCent
      BY <3>1 DEF PlaceCent, Becomes, Loaded, Ended
    <3>2. CASE Precheck
      BY <3>2 DEF Precheck, PoolsExit, Becomes, Loaded, Ended
    <3>3. CASE BuildPool
      BY <3>3 DEF BuildPool, PoolSet, PoolsExit, Becomes, Loaded, Ended
    <3>4. CASE BuildMerged
      BY <3>4 DEF BuildMerged, Becomes, Loaded, Ended
    <3>5. CASE Setup
      BY <3>5 DEF Setup, Loaded, Ended
    <3>6. CASE ToDecode
      BY <3>6 DEF ToDecode, Becomes, Loaded, Ended
    <3>7. CASE Finish
      BY <3>7 DEF Finish, Loaded, Ended
    <3> QED
      BY <1>6, <3>1, <3>2, <3>3, <3>4, <3>5, <3>6, <3>7
  <2> QED
    BY <1>0, <2>1 DEF Slots, Loaded, Ended
<1>7. CASE OthersMove \/ Done
  BY <1>0, <1>7 DEF OthersMove, Done, vars, Slots
<1>8. CASE CleanupExit
  BY <1>8 DEF CleanupExit, Slots, Loaded
<1> QED
  BY <1>1, <1>2, <1>3, <1>4, <1>5, <1>6, <1>7, <1>8 DEF Next

LEMMA NextPools ==
    ASSUME IInv, SInv, Next
    PROVE  Pools'
<1> USE Sizes, Taken, Freed DEF IInv, Sized, SInv
<1>1. CASE AllocNeuron
  BY <1>1 DEF AllocNeuron, Becomes, Stages, Pools, Running
<1>2. CASE StatLayer \/ AllocGsc \/ LoadGsc \/ MapGsc \/ LoadRms \/ AllocSlots \/ StartThread \/ PlaceCent
  <2>1. pc \in Running /\ pc' \in {"gsc", "gscload", "gscddr", "rms", "slots", "thread", "cent", "precheck", "cleanup"}
    BY <1>2 DEF StatLayer, AllocGsc, LoadGsc, MapGsc, LoadRms, AllocSlots, StartThread, PlaceCent,
                WithoutGsc, Running
  <2>2. held'.neuron = held.neuron
    <3>1. CASE StatLayer \/ LoadRms \/ StartThread
      BY <3>1 DEF StatLayer, LoadRms, StartThread, Becomes
    <3>2. CASE AllocGsc \/ LoadGsc \/ MapGsc
      BY <3>2, WantedSize DEF AllocGsc, LoadGsc, MapGsc, WithoutGsc, Becomes
    <3>3. CASE AllocSlots \/ PlaceCent
      BY <3>3 DEF AllocSlots, PlaceCent, Becomes
    <3> QED
      BY <1>2, <3>1, <3>2, <3>3
  <2> QED
    BY <2>1, <2>2 DEF Pools, Running
<1>3. CASE Precheck
  BY <1>3 DEF Precheck, PoolsExit, Becomes, Stages, Pools, Running
<1>4. CASE BuildPool
  <2>1. /\ held.low <= 6 * Pool /\ held.high <= 6 * Pool /\ held.low \in Nat /\ held.high \in Nat
        /\ pc = "build"
    BY <1>4, OneMore, Parts DEF BuildPool
  <2>2. CASE held.low + held.high = 2 * PoolsPerSet * Pool /\ pc' = "merge" /\ held' = held
    <3>1. held.low = 6 * Pool /\ held.high = 6 * Pool
      BY <2>1, <2>2, Estimate
    <3> QED
      BY <2>1, <2>2, <3>1 DEF Becomes, Pools, Running
  <2>3. CASE Take(PoolSet, Pool) /\ pc' = pc
    <3>1. PoolSet = "low" \/ PoolSet = "high"
      BY DEF PoolSet
    <3>2. held'.neuron = held.neuron /\ held'.mp = held.mp
      BY <2>3, <3>1 DEF Becomes
    <3> QED
      BY <2>1, <2>3, <3>2 DEF Pools, Running
  <2>4. CASE PoolsExit
    BY <2>4 DEF PoolsExit, Pools, Running
  <2> QED
    BY <1>4, <2>2, <2>3, <2>4 DEF BuildPool
<1>5. CASE BuildMerged
  BY <1>5 DEF BuildMerged, Becomes, Pools, Running
<1>6. CASE Setup
  BY <1>6 DEF Setup, Becomes, Pools, Running
<1>7. CASE ToDecode
  BY <1>7 DEF ToDecode, Becomes, Pools, Running
<1>8. CASE CleanupExit \/ Finish
  BY <1>8 DEF CleanupExit, Finish, Pools, Running
<1>9. CASE OthersMove \/ Done
  BY <1>9 DEF OthersMove, Done, vars, Pools
<1> QED
  BY <1>1, <1>2, <1>3, <1>4, <1>5, <1>6, <1>7, <1>8, <1>9 DEF Next

LEMMA NextBudget ==
    ASSUME IInv, SInv, Next
    PROVE  Budget'
<1> USE Sizes, Taken, Freed DEF IInv, SInv
<1>0. /\ held \in Fields /\ other \in Nat /\ held.neuron \in Nat
      /\ held.gsc \in Nat /\ held.slots \in Nat /\ held.cent \in Nat
      /\ held.low \in Nat /\ held.high \in Nat /\ held.mp \in Nat
      /\ Held = held.neuron + held.gsc + held.slots + held.cent + held.low + held.high + held.mp
  BY Parts
<1>1. held' = held => Held' = Held
  BY DEF Held
<1>2. CASE PlaceCent
  <2>1. /\ pc = "cent" /\ PoolsNeed = PoolsEst + MpEst /\ held.neuron = Neuron
        /\ held.cent = 0 /\ held.low = 0 /\ held.high = 0 /\ held.mp = 0
    BY <1>2 DEF PlaceCent, Stages, Before, PoolsNeed, Pools, Running
  <2>2. held.gsc + held.slots + Neuron + PoolsEst <= Carveout
    <3>1. CASE mode = "ion_db"
      BY <2>1, <3>1, BudgetAssumption DEF Scales, Slots, Loaded
    <3>2. CASE mode # "ion_db"
      <4>1. held.slots = 0 /\ held.gsc <= L * GscLayer
        BY <2>1, <3>2, Layers DEF Scales, Loaded, Stages
      <4> QED
        BY <1>0, <4>1, BudgetAssumption
    <3> QED
      BY <3>1, <3>2
  <2>3. \/ held' = held /\ pc' = "precheck"
        \/ Take("cent", Cent) /\ Room(Cent + PoolsNeed) /\ pc' = "precheck"
        \/ pc' = "cleanup"
    BY <1>2 DEF PlaceCent
  <2>4. CASE held' = held /\ pc' = "precheck"
    BY <1>0, <1>1, <2>1, <2>2, <2>4 DEF Budget
  <2>5. CASE Take("cent", Cent) /\ Room(Cent + PoolsNeed) /\ pc' = "precheck"
    <3>1. Held' = Held + Cent
      BY <1>0, <2>5 DEF Held, Becomes
    <3> QED
      BY <1>0, <2>1, <2>5, <3>1 DEF Budget, Room
  <2> QED
    BY <2>3, <2>4, <2>5 DEF Budget
<1>3. CASE Precheck
  BY <1>0, <1>1, <1>3 DEF Precheck, PoolsExit, Stages, Budget
<1>4. CASE BuildPool
  <2>1. \/ pc' = "build" /\ Take(PoolSet, Pool)
        \/ pc' \in {"merge", "pools"}
    BY <1>4 DEF BuildPool, PoolsExit
  <2>2. ASSUME Take(PoolSet, Pool), pc = "build"
        PROVE  Held' + PoolsEst <= Carveout + held'.low + held'.high
    <3>1. PoolSet = "low" \/ PoolSet = "high"
      BY DEF PoolSet
    <3>2. Held' = Held + Pool /\ held'.low + held'.high = held.low + held.high + Pool
          /\ held'.low \in Nat /\ held'.high \in Nat
      BY <1>0, <2>2, <3>1 DEF Held, Becomes
    <3> QED
      BY <1>0, <2>2, <3>2 DEF Budget
  <2> QED
    BY <1>4, <2>1, <2>2 DEF BuildPool, Budget
<1>5. CASE OthersMove \/ Done
  <2>1. held' = held /\ pc' = pc
    BY <1>5 DEF OthersMove, Done, vars
  <2> QED
    BY <1>1, <2>1 DEF Budget
<1>6. CASE AllocNeuron \/ StatLayer \/ AllocGsc \/ LoadGsc \/ MapGsc
  <2>1. pc' \in {"stat", "gsc", "gscload", "gscddr", "rms", "cent", "early", "cleanup"}
    BY <1>6 DEF AllocNeuron, StatLayer, AllocGsc, LoadGsc, MapGsc, WithoutGsc
  <2> QED
    BY <2>1 DEF Budget
<1>7. CASE LoadRms \/ AllocSlots \/ StartThread \/ BuildMerged \/ Setup \/ ToDecode \/ Finish \/ CleanupExit
  <2>1. pc' \in {"slots", "thread", "cent", "setup", "prefill", "decode", "cleanup"} \cup Ended
    BY <1>7 DEF LoadRms, AllocSlots, StartThread, BuildMerged, Setup, ToDecode, Finish, CleanupExit, Ended
  <2> QED
    BY <2>1 DEF Budget, Ended
<1> QED
  BY <1>2, <1>3, <1>4, <1>5, <1>6, <1>7 DEF Next

\* A start with the carveout to itself and no failure stops nowhere.
NoStop == other = 0 /\ faults = 0 => pc \notin {"cleanup", "early", "pools", "late"}

LEMMA InitStart == Init => SInv /\ FreedOnce /\ NoStop
  BY DEF Init, SInv, Scales, Slots, Pools, Budget, Running, Loaded, FreedOnce, Ended, Held, NoStop, Nothing

\* What the way out frees is all there is: the pools are not yet there when a start goes
\* to ion_cleanup_exit, and no handle lags behind what is held.
LEMMA NextFreed ==
    ASSUME IInv, SInv, FreedOnce, Next
    PROVE  FreedOnce'
<1>0. held \in Fields /\ Handled /\ Stages /\ ~stale'
  BY NextHandled DEF IInv, Sized, Handled
<1> SUFFICES /\ pc' = "early" => Held' = 0
             /\ pc' = "ok" => held'.neuron = 0 /\ held'.gsc = 0 /\ held'.slots = 0 /\ held'.cent = 0
             /\ pc' = "pools" =>
                   /\ held'.neuron = 0 /\ held'.low = 0 /\ held'.high = 0
                   /\ mode' = "ion_db" => held'.slots = NSlot * Slot
  BY <1>0 DEF FreedOnce
<1>1. CASE CleanupExit
  <2>1. Becomes(0, 0, 0, 0, held.low, held.high, held.mp)
    BY <1>0, <1>1, Freed DEF CleanupExit
  <2>2. held.low = 0 /\ held.high = 0 /\ held.mp = 0
    BY <1>0, <1>1 DEF CleanupExit, Stages
  <2>3. pc' = "early"
    BY <1>1 DEF CleanupExit
  <2> QED
    BY <2>1, <2>2, <2>3 DEF Becomes, Held
<1>2. CASE AllocNeuron
  <2>1. pc = "neuron" /\ pc' \in {"stat", "early"} /\ (pc' = "early" => held' = held)
    BY <1>2 DEF AllocNeuron
  <2>2. /\ held.neuron = 0 /\ held.gsc = 0 /\ held.slots = 0 /\ held.cent = 0
        /\ held.low = 0 /\ held.high = 0 /\ held.mp = 0
    BY <1>0, <2>1 DEF Stages, Before, SInv, Slots
  <2> QED
    BY <2>1, <2>2 DEF Held
<1>3. CASE Finish
  <2>1. Becomes(0, 0, 0, 0, held.low, held.high, held.mp) /\ pc' = "ok"
    BY <1>0, <1>3, Freed DEF Finish
  <2> QED
    BY <2>1 DEF Becomes
<1>4. CASE OthersMove \/ Done
  BY <1>4 DEF OthersMove, Done, vars, envVars, Ended, FreedOnce, Held
<1>5. CASE StatLayer \/ AllocGsc \/ LoadGsc \/ MapGsc \/ LoadRms \/ AllocSlots \/ StartThread
  BY <1>5 DEF StatLayer, AllocGsc, LoadGsc, MapGsc, LoadRms, AllocSlots, StartThread, WithoutGsc
<1>6. CASE PlaceCent \/ BuildMerged \/ Setup \/ ToDecode
  BY <1>6 DEF PlaceCent, BuildMerged, Setup, ToDecode
<1>7. CASE Precheck \/ BuildPool
  <2>1. pc \in {"precheck", "build"} /\ mode' = mode
    BY <1>7 DEF Precheck, BuildPool, envVars
  <2>2. pc' # "early" /\ pc' # "ok"
    BY <1>7, <2>1 DEF Precheck, BuildPool, PoolsExit
  <2>3. pc' = "pools" => Becomes(0, held.gsc, held.slots, held.cent, 0, 0, held.mp)
    <3>1. pc' = "pools" => PoolsExit
      BY <1>7, <2>1 DEF Precheck, BuildPool
    <3> QED
      BY <1>0, <3>1, Freed DEF PoolsExit
  <2>4. mode = "ion_db" => held.slots = NSlot * Slot
    BY <2>1 DEF SInv, Slots, Loaded
  <2> QED
    BY <2>1, <2>2, <2>3, <2>4 DEF Becomes
<1> QED
  BY <1>1, <1>2, <1>3, <1>4, <1>5, <1>6, <1>7 DEF Next

\* With nothing held by others and no failure of its own, no allocation is refused: what
\* is asked for is within the budget.
LEMMA NextClean ==
    ASSUME IInv, SInv, NoStop, Next
    PROVE  NoStop'
<1> USE Sizes, Layers
<1> SUFFICES ASSUME other' = 0, faults' = 0 PROVE pc' \notin {"cleanup", "early", "pools", "late"}
  BY DEF NoStop
<1>0. /\ held \in Fields /\ other \in Nat /\ held.neuron \in Nat
      /\ held.gsc \in Nat /\ held.slots \in Nat /\ held.cent \in Nat
      /\ held.low \in Nat /\ held.high \in Nat /\ held.mp \in Nat
      /\ Held = held.neuron + held.gsc + held.slots + held.cent + held.low + held.high + held.mp
  BY Parts DEF IInv
<1>1. ~Fault /\ faults \in Nat
  BY DEF IInv, Sized, Fault
<1>2. OthersMove \/ other = 0
  BY NoOtherMoves
<1>3. \A n \in Nat : Refused(n) => ~Room(n)
  BY <1>1 DEF Refused
<1>4. pc \in Before => held.cent = 0 /\ held.low = 0 /\ held.high = 0 /\ held.mp = 0
  BY DEF IInv, Stages
<1>5. CASE AllocNeuron
  <2>1. pc = "neuron" /\ other = 0
    BY <1>2, <1>5 DEF AllocNeuron, OthersMove, Ended
  <2>2. Held = 0
    BY <1>0, <1>4, <2>1 DEF IInv, Stages, SInv, Slots, Before
  <2>3. Room(Neuron)
    BY <2>1, <2>2, BudgetAssumption DEF Room
  <2> QED
    BY <1>3, <1>5, <2>3 DEF AllocNeuron
<1>6. CASE StatLayer \/ LoadGsc \/ MapGsc \/ LoadRms \/ StartThread
  BY <1>1, <1>6 DEF StatLayer, LoadGsc, MapGsc, LoadRms, StartThread
<1>7. CASE AllocGsc
  <2>1. pc = "gsc" /\ other = 0
    BY <1>2, <1>7 DEF AllocGsc, OthersMove
  <2>2. Held = Neuron
    BY <1>0, <1>4, <2>1 DEF IInv, Stages, SInv, Slots, Pools, Running, Before
  <2>3. Room(IonLayers * GscLayer)
    BY <2>1, <2>2, BudgetAssumption DEF Room
  <2>4. mode = "ion_db" => Wanted = IonLayers /\ ~Short(Wanted * GscLayer)
    BY <2>3 DEF Wanted, Short
  <2>5. mode = "ion_db" => ~Refused(Wanted * GscLayer)
    BY <1>3, <2>3, <2>4
  <2> QED
    BY <1>7, <2>4, <2>5 DEF AllocGsc, WithoutGsc
<1>8. CASE AllocSlots
  <2>1. pc = "slots" /\ other = 0 /\ mode = "ion_db"
    BY <1>2, <1>8 DEF AllocSlots, OthersMove, IInv, Stages
  <2>2. ASSUME held.slots < NSlot * Slot PROVE Room(Slot)
    <3>1. held.slots + Slot <= NSlot * Slot
      BY <1>0, <2>1, <2>2, OneMoreSlot DEF SInv, Slots
    <3>2. held.neuron = Neuron /\ held.gsc = IonLayers * GscLayer
      BY <2>1 DEF SInv, Pools, Running, Scales
    <3>3. held.cent = 0 /\ held.low = 0 /\ held.high = 0 /\ held.mp = 0
      BY <1>4, <2>1 DEF Before
    <3> QED
      BY <1>0, <2>1, <3>1, <3>2, <3>3, BudgetAssumption DEF Room
  <2> QED
    BY <1>3, <1>8, <2>2 DEF AllocSlots
<1>9. CASE PlaceCent
  BY <1>1, <1>9 DEF PlaceCent
<1>10. CASE Precheck
  <2>1. pc = "precheck" /\ other = 0
    BY <1>2, <1>10 DEF Precheck, OthersMove
  <2>2. Room(PoolsEst)
    BY <1>0, <2>1 DEF SInv, Budget, Room
  <2> QED
    BY <1>10, <2>2 DEF Precheck, Short
<1>11. CASE BuildPool
  <2>1. pc = "build" /\ other = 0
    BY <1>2, <1>11 DEF BuildPool, OthersMove
  <2>2. ASSUME held.low + held.high # 2 * PoolsPerSet * Pool PROVE Room(Pool)
    <3>1. held.low + held.high + Pool <= PoolsEst
      BY <2>2, RoomForPool DEF IInv
    <3> QED
      BY <1>0, <2>1, <3>1 DEF SInv, Budget, Room
  <2> QED
    BY <1>3, <1>11, <2>1, <2>2 DEF BuildPool
<1>12. CASE BuildMerged \/ Setup \/ ToDecode \/ Finish
  BY <1>1, <1>12 DEF BuildMerged, Setup, ToDecode, Finish
<1>13. CASE OthersMove \/ CleanupExit
  BY <1>2, <1>13 DEF OthersMove, CleanupExit, Ended, NoStop
<1>14. CASE Done
  BY <1>14 DEF Done, vars, NoStop
<1> QED
  BY <1>5, <1>6, <1>7, <1>8, <1>9, <1>10, <1>11, <1>12, <1>13, <1>14 DEF Next

LEMMA StartInductive ==
    IInv /\ SInv /\ FreedOnce /\ NoStop /\ [Next]_vars => (SInv /\ FreedOnce /\ NoStop)'
<1>1. ASSUME IInv, SInv, FreedOnce, NoStop, Next
      PROVE  (SInv /\ FreedOnce /\ NoStop)'
  BY <1>1, NextScales, NextSlots, NextPools, NextBudget, NextFreed, NextClean DEF SInv
<1>2. ASSUME SInv, FreedOnce, NoStop, UNCHANGED vars
      PROVE  (SInv /\ FreedOnce /\ NoStop)'
  <2>1. /\ pc' = pc /\ mode' = mode /\ held' = held /\ other' = other /\ merged' = merged
        /\ gscN' = gscN /\ ddr' = ddr /\ faults' = faults /\ Held' = Held
        /\ stale' = stale
    BY <1>2 DEF vars, envVars, gscVars, Held
  <2> QED
    BY <1>2, <2>1 DEF SInv, Scales, Slots, Pools, Budget, FreedOnce, NoStop
<1> QED
  BY <1>1, <1>2

LEMMA Started == Spec => [](SInv /\ FreedOnce /\ NoStop)
<1>1. Spec => []IInv
  BY InitInv, Inductive, PTL DEF Spec
<1> QED
  BY <1>1, InitStart, StartInductive, PTL DEF Spec

\* Every forward finds the memory it uses: the neuron memory, the command buffers of its
\* size, the merged one if it is to be used, the scales gsc_ion_apply points at and, with
\* ion_db, the slots.
THEOREM Backed == Spec => []ForwardBacked
<1>1. SInv => ForwardBacked
  BY Sizes, Estimate, Layers DEF SInv, Scales, Slots, Pools, Running, Loaded, ForwardBacked
<1> QED
  BY <1>1, Started, PTL

\* After ion_cleanup_exit nothing is held, whichever step of the start failed and whatever
\* a loader had freed itself; after a run to its end nothing but the command buffers; after
\* an exit for want of the pools no neuron memory and no pool, but with ion_db the slots;
\* and nothing is freed twice, because every free goes through a handle that then is NULL.
THEOREM NothingLeft == Spec => []FreedOnce
  BY Started, PTL

\* The budget of the comment above GSC_ION_LAYERS is enough in every configuration: with
\* the carveout to itself and without a failure of its own, no start stops short.
THEOREM BudgetSuffices == Spec => []CleanStart
<1>1. NoStop => CleanStart
  BY DEF NoStop, CleanStart
<1> QED
  BY <1>1, Started, PTL
=============================================================================
