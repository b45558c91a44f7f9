-------------------------- MODULE IonPrefetchProofs --------------------------
(***************************************************************************)
(* What TLAPS proves of IonPrefetch, for every number of slots, layers and *)
(* matrices, every queue size, lookahead and number of passes.             *)
(***************************************************************************)
EXTENDS IonPrefetch, SequenceTheorems, TLAPS

-----------------------------------------------------------------------------
(* Division, for a divisor that is a parameter.                            *)

\* Quotient and remainder recompose the number.
LEMMA DivMod ==
    ASSUME NEW N \in Nat \ {0}, NEW p \in Nat
    PROVE  p % N \in 0..N-1 /\ p \div N \in Nat /\ p = (N * (p \div N)) + (p % N)
OBVIOUS

\* Multiplication is monotone.
LEMMA MulLE ==
    ASSUME NEW N \in Nat \ {0}, NEW a \in Nat, NEW b \in Nat, a <= b
    PROVE  N * a \in Nat /\ N * b \in Nat /\ N * a <= N * b
OBVIOUS

LEMMA MulSucc ==
    ASSUME NEW N \in Nat \ {0}, NEW a \in Nat
    PROVE  N * (a + 1) = (N * a) + N
OBVIOUS

\* They are the only ones that do.
LEMMA DivUnique ==
    ASSUME NEW N \in Nat \ {0}, NEW q \in Nat, NEW r \in 0..N-1
    PROVE  ((N * q) + r) % N = r /\ ((N * q) + r) \div N = q
<1> DEFINE p == (N * q) + r
           d == p \div N
           e == p % N
<1>1. p \in Nat /\ N * q \in Nat
  OBVIOUS
<1>2. e \in 0..N-1 /\ d \in Nat /\ p = (N * d) + e
  BY <1>1, DivMod
<1>3. d = q
  <2>1. CASE d < q
    <3>1. N * (d + 1) <= N * q
      BY <2>1, <1>2, MulLE
    <3>2. N * (d + 1) = (N * d) + N
      BY <1>2
    <3> HIDE DEF d, e
    <3> QED
      BY <3>1, <3>2, <1>1, <1>2
  <2>2. CASE d > q
    <3>1. N * (q + 1) <= N * d
      BY <2>2, <1>2, MulLE
    <3>2. N * (q + 1) = (N * q) + N
      OBVIOUS
    <3> HIDE DEF d, e
    <3> QED
      BY <3>1, <3>2, <1>1, <1>2
  <2> HIDE DEF d
  <2> QED
    BY <2>1, <2>2, <1>2
<1>4. e = r
  <2> HIDE DEF d, e
  <2> QED
    BY <1>1, <1>2, <1>3
<1> QED
  BY <1>3, <1>4

-----------------------------------------------------------------------------
(* Positions of a pass.                                                    *)

LEMMA PassLenPos == PassLen \in Nat \ {0}
BY ModelAssumption DEF PassLen

\* A position of the pass is a matrix of a layer.
LEMMA PosFacts ==
    ASSUME NEW pos \in 0..PassLen-1
    PROVE  /\ pos \in Nat
           /\ Layer(pos) \in 0..Layers-1
           /\ Mat(pos) \in 0..NMat-1
           /\ (Layer(pos) * NMat) + Mat(pos) = pos
           /\ Chunks[Mat(pos)] \in 1..MaxChunk
<1>1. pos \in Nat /\ NMat \in Nat \ {0} /\ Layers \in Nat \ {0}
  BY PassLenPos, ModelAssumption
<1>2. Mat(pos) \in 0..NMat-1 /\ Layer(pos) \in Nat /\ pos = (NMat * Layer(pos)) + Mat(pos)
  BY <1>1, DivMod DEF Layer, Mat
<1>3. NMat * Layer(pos) = Layer(pos) * NMat /\ NMat * Layers = PassLen
  BY <1>1, <1>2 DEF PassLen
<1>4. Layer(pos) < Layers
  <2>1. SUFFICES ASSUME Layers <= Layer(pos) PROVE FALSE
    BY <1>1, <1>2
  <2>2. PassLen <= NMat * Layer(pos)
    BY <2>1, <1>1, <1>2, <1>3, MulLE
  <2> QED
    BY <2>2, <1>1, <1>2, PassLenPos
<1>5. Chunks[Mat(pos)] \in 1..MaxChunk
  BY <1>2, ModelAssumption
<1> QED
  BY <1>1, <1>2, <1>3, <1>4, <1>5

\* The up matrix is followed by gate, in the same layer.
LEMMA UpNext ==
    ASSUME NEW pos \in 0..PassLen-1, Mat(pos) = UpMat
    PROVE  pos + 1 \in 0..PassLen-1 /\ Mat(pos + 1) = UpMat + 1
<1>1. /\ pos = (NMat * Layer(pos)) + UpMat
      /\ Layer(pos) \in 0..Layers-1 /\ NMat * Layer(pos) \in Nat
      /\ NMat \in Nat \ {0} /\ UpMat + 1 \in 0..NMat-1
  BY PosFacts, ModelAssumption
<1>2. pos + 1 = (NMat * Layer(pos)) + (UpMat + 1)
  <2> DEFINE q == NMat * Layer(pos)
  <2>1. q \in Nat /\ pos = q + UpMat /\ UpMat \in Nat
    BY <1>1, ModelAssumption
  <2> HIDE DEF q
  <2>2. pos + 1 = q + (UpMat + 1)
    BY <2>1
  <2> QED
    BY <2>2 DEF q
<1>3. Mat(pos + 1) = UpMat + 1
  BY <1>1, <1>2, DivUnique DEF Mat
<1>4. NMat * (Layer(pos) + 1) <= NMat * Layers
  <2>1. Layer(pos) \in Nat /\ Layer(pos) + 1 <= Layers /\ Layers \in Nat
    BY <1>1, ModelAssumption
  <2> QED
    BY <2>1, <1>1, MulLE
<1>5. NMat * Layers = PassLen
  BY ModelAssumption DEF PassLen
<1>6. pos + 1 < PassLen
  <2>1. NMat * (Layer(pos) + 1) = (NMat * Layer(pos)) + NMat
    BY <1>1, MulSucc, ModelAssumption
  <2> QED
    BY <2>1, <1>1, <1>2, <1>4, <1>5, PassLenPos
<1> QED
  BY <1>3, <1>6, <1>1, PassLenPos

-----------------------------------------------------------------------------
(* Type correctness.  TypeOK is not inductive: the chunk counters and the  *)
(* cached descriptor stay in their types only because of where the threads *)
(* are, and g_busy because it counts the one prefetch thread.              *)

MainThreadInv ==
    /\ mainPC \in {"pread", "memcpy"} => main.chunk <= Chunks[Mat(main.pos)]
    /\ mainPC = "use" => \/ main.use = Mat(main.pos)
                         \/ main.use = UpMat /\ Mat(main.pos) = UpMat + 1

SdThreadInv ==
    /\ sdPC \in {"pread", "memcpy"} => fd = Layer(SdPos) /\ sd.chunk <= Chunks[Mat(SdPos)]
    /\ busy = IF SdWrites THEN 1 ELSE 0

TypeInv == TypeOK /\ MainThreadInv /\ SdThreadInv

\* ion_topup keeps a queue of matrix numbers.
LEMMA TopupType ==
    ASSUME NEW p \in Nat \cup {-1}, NEW c \in Nat \cup {-1},
           passBase \in Nat, req \in Seq(Nat), Topup(p, c)
    PROVE  req' \in Seq(Nat) /\ pushed' \in Nat \cup {-1} /\ pushed' >= p
<1> DEFINE n == IF TopupEnd(p, c) > p THEN TopupEnd(p, c) - p ELSE 0
           new == [i \in 1..n |-> p + i]
<1>1. TopupEnd(p, c) \in Int
  BY PassLenPos, QueueAssumption DEF TopupEnd, Lower
<1>2. n \in Nat
  BY <1>1
<1>3. new \in Seq(Nat)
  <2> HIDE DEF n
  <2> QED
    BY <1>2
<1>4. req' = req \o new /\ pushed' = p + n
  BY DEF Topup
<1> HIDE DEF n, new
<1> QED
  BY <1>2, <1>3, <1>4

LEMMA InitType == Init => TypeInv
<1> SUFFICES ASSUME Init PROVE TypeInv
  OBVIOUS
<1> USE SlotAssumption, ModelAssumption, WorkloadAssumption, PassLenPos
<1>1. TypeOK
  <2>1. sdData \in [Slots -> [1..MaxChunk -> Contents]] /\ bounce \in Contents
    BY DEF Init, Contents
  <2>2. mainPC \in MainPCs /\ sdPC \in SdPCs /\ main \in MainState
    <3>1. 0 \in 0..PassLen-1 /\ 0 \in 0..NMat-1 /\ 0 \in Slots /\ 1 \in 1..MaxChunk+1
      BY DEF Slots
    <3>2. "prompt" \in Forwards
      OBVIOUS
    <3> QED
      BY <3>1, <3>2 DEF Init, MainPCs, SdPCs, MainState
  <2>3. sd \in SdState
    BY DEF Init, Slots, SdState
  <2>4. req \in Seq(Nat) /\ faults \in 0..MaxFault
    BY DEF Init
  <2>5. /\ sdMidx \in [Slots -> {Free, Reading} \cup Nat] /\ sdReady \in [Slots -> BOOLEAN]
        /\ nib \in [0..NMat-1 -> {Nowhere} \cup Slots]
    BY DEF Init
  <2>6. /\ pushed \in Nat \cup {-1} /\ consumed \in Nat \cup {-1}
        /\ passBase \in Nat /\ busy \in 0..1 /\ fd \in {Closed} \cup 0..Layers-1
    BY DEF Init
  <2>7. /\ pfFail \subseteq 0..PassLen-1 /\ shutdown \in BOOLEAN
        /\ reqWait \subseteq {"main", "sd"} /\ doneWait \subseteq {"main"}
    BY DEF Init
  <2> QED
    BY <2>1, <2>2, <2>3, <2>4, <2>5, <2>6, <2>7 DEF TypeOK
<1>2. MainThreadInv /\ SdThreadInv
  BY DEF Init, MainThreadInv, SdThreadInv, SdWrites
<1> QED
  BY <1>1, <1>2 DEF TypeInv

\* The position of the matrix in flight, and of the matrix the main thread fetches.
LEMMA InPass ==
    ASSUME TypeOK
    PROVE  /\ SdPos \in 0..PassLen-1 /\ Layer(SdPos) \in 0..Layers-1
           /\ Mat(SdPos) \in 0..NMat-1 /\ Chunks[Mat(SdPos)] \in 1..MaxChunk
           /\ (Layer(SdPos) * NMat) + Mat(SdPos) = SdPos
           /\ main.pos \in 0..PassLen-1 /\ Mat(main.pos) \in 0..NMat-1
           /\ Chunks[Mat(main.pos)] \in 1..MaxChunk
           /\ Midx \in Nat
<1>1. sd.midx \in Nat /\ main.pos \in 0..PassLen-1 /\ passBase \in Nat
  BY DEF TypeOK, MainState, SdState
<1>2. SdPos \in 0..PassLen-1
  BY <1>1, PassLenPos, DivMod DEF SdPos
<1> QED
  BY <1>1, <1>2, PosFacts, PassLenPos DEF Midx

\* The thread records with one field changed.
LEMMA ChunkType ==
    ASSUME TypeOK, NEW c \in 1..MaxChunk+1
    PROVE  /\ [main EXCEPT !.chunk = c] \in MainState
           /\ [main EXCEPT !.chunk = c].chunk = c
           /\ [main EXCEPT !.chunk = c].pos = main.pos
           /\ [sd EXCEPT !.chunk = c] \in SdState
           /\ [sd EXCEPT !.chunk = c].chunk = c
           /\ [sd EXCEPT !.chunk = c].midx = sd.midx
<1> DEFINE C == 1..MaxChunk+1
           P == 0..PassLen-1
           U == 0..NMat-1
<1>1. main \in [kind: Forwards, pos: P, use: U, slot: Slots, chunk: C]
  BY DEF TypeOK, MainState
<1>2. sd \in [midx: Nat, slot: Slots, chunk: C] /\ c \in C
  BY DEF TypeOK, SdState
<1> HIDE DEF C, P, U
<1>3. /\ [main EXCEPT !.chunk = c] \in [kind: Forwards, pos: P, use: U, slot: Slots, chunk: C]
      /\ [main EXCEPT !.chunk = c].chunk = c
      /\ [main EXCEPT !.chunk = c].pos = main.pos
  BY <1>1, <1>2
<1>4. /\ [sd EXCEPT !.chunk = c] \in [midx: Nat, slot: Slots, chunk: C]
      /\ [sd EXCEPT !.chunk = c].chunk = c
      /\ [sd EXCEPT !.chunk = c].midx = sd.midx
  BY <1>2
<1> QED
  BY <1>3, <1>4 DEF MainState, SdState, C, P, U

\* While a chunk is being loaded its number is one of its matrix.
LEMMA ChunkRange ==
    ASSUME TypeInv
    PROVE  /\ 1 \in 1..MaxChunk+1
           /\ mainPC \in {"pread", "memcpy"} =>
                 main.chunk \in 1..MaxChunk /\ main.chunk + 1 \in 1..MaxChunk+1
           /\ sdPC \in {"pread", "memcpy"} =>
                 sd.chunk \in 1..MaxChunk /\ sd.chunk + 1 \in 1..MaxChunk+1
<1>1. MaxChunk \in Nat \ {0}
  BY ModelAssumption
<1>2. main.chunk \in 1..MaxChunk+1 /\ sd.chunk \in 1..MaxChunk+1
  BY DEF TypeInv, TypeOK, MainState, SdState
<1>3. Chunks[Mat(main.pos)] \in 1..MaxChunk /\ Chunks[Mat(SdPos)] \in 1..MaxChunk
  BY InPass DEF TypeInv
<1>4. mainPC \in {"pread", "memcpy"} => main.chunk <= Chunks[Mat(main.pos)]
  BY DEF TypeInv, MainThreadInv
<1>5. sdPC \in {"pread", "memcpy"} => sd.chunk <= Chunks[Mat(SdPos)]
  BY DEF TypeInv, SdThreadInv
<1>6. ASSUME NEW x \in 1..MaxChunk+1, NEW k \in 1..MaxChunk, x <= k
      PROVE  x \in 1..MaxChunk /\ x + 1 \in 1..MaxChunk+1
  BY <1>1, <1>6
<1> QED
  BY <1>1, <1>2, <1>3, <1>4, <1>5, <1>6

\* What layer_io_mat leaves when it returns slot s.
LEMMA HandType ==
    ASSUME TypeOK, NEW s \in Slots, Hand(s)
    PROVE  /\ nib' \in [0..NMat-1 -> {Nowhere} \cup Slots]
           /\ mainPC' \in {"fetch", "use"} /\ main' \in MainState
           /\ MainThreadInv'
<1> USE InPass, ModelAssumption
<1>1. nib' \in [0..NMat-1 -> {Nowhere} \cup Slots]
  BY DEF Hand, TypeOK
<1>2. CASE main.kind = "decode" /\ Mat(main.pos) = UpMat
  <2>1. mainPC' = "fetch" /\ main' = [main EXCEPT !.pos = main.pos + 1]
    BY <1>2 DEF Hand
  <2>2. main.pos + 1 \in 0..PassLen-1
    BY <1>2, UpNext
  <2>3. main' \in MainState
    BY <2>1, <2>2 DEF TypeOK, MainState
  <2> QED
    BY <1>1, <2>1, <2>3 DEF MainThreadInv
<1>3. CASE ~(main.kind = "decode" /\ Mat(main.pos) = UpMat)
  <2> DEFINE u == IF main.kind = "decode" /\ Mat(main.pos) = UpMat + 1
                  THEN UpMat ELSE Mat(main.pos)
  <2>1. mainPC' = "use" /\ main' = [main EXCEPT !.use = u]
    BY <1>3 DEF Hand
  <2>2. u \in 0..NMat-1 /\ (u = Mat(main.pos) \/ (u = UpMat /\ Mat(main.pos) = UpMat + 1))
    OBVIOUS
  <2> HIDE DEF u
  <2>3. main' \in MainState /\ main'.use = u /\ main'.pos = main.pos
    BY <2>1, <2>2 DEF TypeOK, MainState
  <2> QED
    BY <1>1, <2>1, <2>2, <2>3 DEF MainThreadInv
<1> QED
  BY <1>2, <1>3

\* What taking a free slot, or waiting for one, leaves.
LEMMA ClaimType ==
    ASSUME TypeOK, NEW sm \in [Slots -> {Free, Reading} \cup Nat],
           NEW waiting \in SUBSET {"main", "sd"}, NEW waitPC \in {"cold", "refill"},
           Claim(sm, waiting, waitPC)
    PROVE  /\ sdMidx' \in [Slots -> {Free, Reading} \cup Nat]
           /\ mainPC' \in {"sync", "cold", "refill"} /\ main' \in MainState
           /\ reqWait' \subseteq {"main", "sd"}
           /\ MainThreadInv'
<1>1. CASE \E s \in Slots : /\ sdMidx' = [sm EXCEPT ![s] = Reading]
                            /\ mainPC' = "sync" /\ main' = [main EXCEPT !.slot = s]
                            /\ reqWait' = waiting
  BY <1>1 DEF TypeOK, MainState, MainThreadInv
<1>2. CASE sdMidx' = sm /\ mainPC' = waitPC /\ main' = main /\ reqWait' = waiting \cup {"main"}
  BY <1>2 DEF TypeOK, MainThreadInv
<1> QED
  BY <1>1, <1>2 DEF Claim

\* What the wait for a matrix leaves.
LEMMA AwaitType ==
    ASSUME TypeOK, NEW sm \in [Slots -> {Free, Reading} \cup Nat],
           NEW ready \in [Slots -> BOOLEAN], NEW waiting \in SUBSET {"main", "sd"},
           AwaitMat(sm, ready, waiting)
    PROVE  /\ sdMidx' \in [Slots -> {Free, Reading} \cup Nat]
           /\ sdReady' \in [Slots -> BOOLEAN]
           /\ mainPC' \in {"fetch", "use", "sync", "refill", "await"} /\ main' \in MainState
           /\ reqWait' \subseteq {"main", "sd"} /\ doneWait' \subseteq {"main"}
           /\ pfFail' \subseteq 0..PassLen-1
           /\ nib' \in [0..NMat-1 -> {Nowhere} \cup Slots]
           /\ MainThreadInv'
<1>0. sdReady' = ready
  BY DEF AwaitMat
<1>1. CASE \E s \in Slots : /\ Hand(s)
                            /\ sdMidx' = sm /\ reqWait' = waiting
                            /\ UNCHANGED <<pfFail, doneWait>>
  BY <1>0, <1>1, HandType DEF TypeOK
<1>2. CASE /\ pfFail' = pfFail \ {main.pos}
           /\ Claim(sm, waiting, "refill")
           /\ UNCHANGED <<nib, doneWait>>
  <2>1. mainPC' \in {"sync", "refill"}
    BY <1>2 DEF Claim
  <2> QED
    BY <1>0, <1>2, <2>1, ClaimType DEF TypeOK
<1>3. CASE /\ mainPC' = "await" /\ main' = main
           /\ doneWait' = doneWait \cup {"main"}
           /\ sdMidx' = sm /\ reqWait' = waiting
           /\ UNCHANGED <<pfFail, nib>>
  BY <1>0, <1>3 DEF TypeOK, MainThreadInv
<1> QED
  BY <1>1, <1>2, <1>3 DEF AwaitMat

LEMMA ReleasedType ==
    ASSUME TypeOK
    PROVE  /\ ReleasedMidx \in [Slots -> {Free, Reading} \cup Nat]
           /\ ReleasedReady \in [Slots -> BOOLEAN]
BY DEF TypeOK, ReleasedMidx, ReleasedReady

-----------------------------------------------------------------------------
(* One lemma per action: the variables it changes keep their types, the    *)
(* frame keeps the others.                                                 *)

LEMMA FetchColdType ==
    ASSUME TypeInv, FetchCold
    PROVE  TypeInv'
<1> USE InPass, PassLenPos DEF TypeInv
<1>1. /\ sdData' = sdData /\ req' = req /\ pushed' = pushed /\ pfFail' = pfFail
      /\ passBase' = passBase /\ busy' = busy /\ shutdown' = shutdown
      /\ bounce' = bounce /\ fd' = fd /\ doneWait' = doneWait /\ nib' = nib
      /\ sdPC' = sdPC /\ sd' = sd /\ faults' = faults
  BY DEF FetchCold, slotVars, queueVars, condVars, mainVars, sdVars
<1>2. consumed' \in Nat \cup {-1}
  BY DEF FetchCold
<1>3. sdReady' \in [Slots -> BOOLEAN]
  BY ReleasedType DEF FetchCold
<1>4. /\ sdMidx' \in [Slots -> {Free, Reading} \cup Nat]
      /\ mainPC' \in MainPCs /\ main' \in MainState
      /\ reqWait' \subseteq {"main", "sd"} /\ MainThreadInv'
  BY ReleasedType, ClaimType DEF FetchCold, TypeOK, MainPCs
<1>5. SdThreadInv'
  BY <1>1 DEF SdThreadInv, SdWrites, SdPos
<1>6. TypeOK'
  BY <1>1, <1>2, <1>3, <1>4 DEF TypeOK
<1> QED
  BY <1>2, <1>3, <1>4, <1>5, <1>6

LEMMA FetchPipelinedType ==
    ASSUME TypeInv, FetchPipelined
    PROVE  TypeInv'
<1> USE InPass, PassLenPos DEF TypeInv
<1>1. /\ sdData' = sdData /\ passBase' = passBase /\ busy' = busy
      /\ shutdown' = shutdown /\ bounce' = bounce /\ fd' = fd /\ sdPC' = sdPC
      /\ sd' = sd /\ faults' = faults
  BY DEF FetchPipelined, slotVars, queueVars, condVars, mainVars, sdVars
<1>2. consumed' \in Nat \cup {-1}
  BY DEF FetchPipelined
<1>3. req' \in Seq(Nat) /\ pushed' \in Nat \cup {-1}
  BY TopupType DEF FetchPipelined, TypeOK
<1>4. /\ sdMidx' \in [Slots -> {Free, Reading} \cup Nat] /\ sdReady' \in [Slots -> BOOLEAN]
      /\ mainPC' \in MainPCs /\ main' \in MainState
      /\ reqWait' \subseteq {"main", "sd"} /\ doneWait' \subseteq {"main"}
      /\ pfFail' \subseteq 0..PassLen-1 /\ nib' \in [0..NMat-1 -> {Nowhere} \cup Slots]
      /\ MainThreadInv'
  BY ReleasedType, AwaitType DEF FetchPipelined, MainPCs, Signalled
<1>5. SdThreadInv'
  BY <1>1 DEF SdThreadInv, SdWrites, SdPos
<1>6. TypeOK'
  BY <1>1, <1>2, <1>3, <1>4 DEF TypeOK
<1> QED
  BY <1>2, <1>3, <1>4, <1>5, <1>6

LEMMA AwaitWokenType ==
    ASSUME TypeInv, AwaitWoken
    PROVE  TypeInv'
<1> USE InPass, PassLenPos DEF TypeInv
<1>1. /\ sdData' = sdData /\ req' = req /\ pushed' = pushed
      /\ consumed' = consumed /\ passBase' = passBase /\ busy' = busy
      /\ shutdown' = shutdown /\ bounce' = bounce /\ fd' = fd /\ sdPC' = sdPC
      /\ sd' = sd /\ faults' = faults
  BY DEF AwaitWoken, slotVars, queueVars, condVars, mainVars, sdVars
<1>2. /\ sdMidx' \in [Slots -> {Free, Reading} \cup Nat] /\ sdReady' \in [Slots -> BOOLEAN]
      /\ mainPC' \in MainPCs /\ main' \in MainState
      /\ reqWait' \subseteq {"main", "sd"} /\ doneWait' \subseteq {"main"}
      /\ pfFail' \subseteq 0..PassLen-1 /\ nib' \in [0..NMat-1 -> {Nowhere} \cup Slots]
      /\ MainThreadInv'
  BY AwaitType DEF AwaitWoken, MainPCs, TypeOK
<1>3. SdThreadInv'
  BY <1>1 DEF SdThreadInv, SdWrites, SdPos
<1>4. TypeOK'
  BY <1>1, <1>2 DEF TypeOK
<1> QED
  BY <1>2, <1>3, <1>4

LEMMA ClaimWokenType ==
    ASSUME TypeInv, ClaimWoken
    PROVE  TypeInv'
<1> USE InPass, PassLenPos DEF TypeInv
<1>1. /\ sdReady' = sdReady /\ sdData' = sdData /\ req' = req
      /\ pushed' = pushed /\ consumed' = consumed /\ pfFail' = pfFail
      /\ passBase' = passBase /\ busy' = busy /\ shutdown' = shutdown
      /\ bounce' = bounce /\ fd' = fd /\ doneWait' = doneWait /\ nib' = nib
      /\ sdPC' = sdPC /\ sd' = sd /\ faults' = faults
  BY DEF ClaimWoken, slotVars, queueVars, condVars, mainVars, sdVars
<1>2. /\ sdMidx' \in [Slots -> {Free, Reading} \cup Nat]
      /\ mainPC' \in MainPCs /\ main' \in MainState
      /\ reqWait' \subseteq {"main", "sd"} /\ MainThreadInv'
  BY ClaimType DEF ClaimWoken, TypeOK, MainPCs
<1>3. SdThreadInv'
  BY <1>1 DEF SdThreadInv, SdWrites, SdPos
<1>4. TypeOK'
  BY <1>1, <1>2 DEF TypeOK
<1> QED
  BY <1>2, <1>3, <1>4

LEMMA SyncOpenType ==
    ASSUME TypeInv, SyncOpen
    PROVE  TypeInv'
<1> USE InPass, PassLenPos DEF TypeInv
<1>1. /\ sdMidx' = sdMidx /\ sdReady' = sdReady /\ sdData' = sdData
      /\ req' = req /\ pushed' = pushed /\ consumed' = consumed
      /\ pfFail' = pfFail /\ passBase' = passBase /\ busy' = busy
      /\ shutdown' = shutdown /\ bounce' = bounce /\ fd' = fd
      /\ reqWait' = reqWait /\ doneWait' = doneWait /\ nib' = nib
      /\ sdPC' = sdPC /\ sd' = sd /\ faults' = faults
  BY DEF SyncOpen, slotVars, queueVars, condVars, mainVars, sdVars
<1>2. mainPC' = "pread" /\ main' \in MainState /\ main'.chunk = 1 /\ main'.pos = main.pos
  BY ChunkRange, ChunkType DEF SyncOpen
<1>3. mainPC' \in MainPCs /\ MainThreadInv'
  BY <1>2 DEF MainThreadInv, MainPCs
<1>4. SdThreadInv'
  BY <1>1 DEF SdThreadInv, SdWrites, SdPos
<1>5. TypeOK'
  BY <1>1, <1>2, <1>3 DEF TypeOK
<1> QED
  BY <1>2, <1>3, <1>4, <1>5

LEMMA SyncPreadType ==
    ASSUME TypeInv, SyncPread
    PROVE  TypeInv'
<1> USE InPass, PassLenPos DEF TypeInv
<1>1. /\ sdMidx' = sdMidx /\ sdReady' = sdReady /\ sdData' = sdData
      /\ req' = req /\ pushed' = pushed /\ consumed' = consumed
      /\ pfFail' = pfFail /\ passBase' = passBase /\ busy' = busy
      /\ shutdown' = shutdown /\ fd' = fd /\ reqWait' = reqWait
      /\ doneWait' = doneWait /\ nib' = nib /\ main' = main /\ sdPC' = sdPC
      /\ sd' = sd /\ faults' = faults
  BY DEF SyncPread, slotVars, queueVars, condVars, mainVars, sdVars
<1>2. mainPC' = "memcpy" /\ main.chunk \in 1..MaxChunk
  BY ChunkRange DEF SyncPread
<1>3. mainPC' \in MainPCs /\ MainThreadInv'
  BY <1>1, <1>2 DEF MainThreadInv, MainPCs, SyncPread
<1>4. bounce' \in Contents
  BY <1>2 DEF SyncPread, Contents, Chunk
<1>5. SdThreadInv'
  BY <1>1 DEF SdThreadInv, SdWrites, SdPos
<1>6. TypeOK'
  BY <1>1, <1>2, <1>3, <1>4 DEF TypeOK
<1> QED
  BY <1>2, <1>3, <1>4, <1>5, <1>6

LEMMA SyncMemcpyType ==
    ASSUME TypeInv, SyncMemcpy
    PROVE  TypeInv'
<1> USE InPass, PassLenPos DEF TypeInv
<1>1. /\ sdMidx' = sdMidx /\ sdReady' = sdReady /\ req' = req
      /\ pushed' = pushed /\ consumed' = consumed /\ pfFail' = pfFail
      /\ passBase' = passBase /\ busy' = busy /\ shutdown' = shutdown
      /\ bounce' = bounce /\ fd' = fd /\ reqWait' = reqWait
      /\ doneWait' = doneWait /\ nib' = nib /\ sdPC' = sdPC /\ sd' = sd
      /\ faults' = faults
  BY DEF SyncMemcpy, slotVars, queueVars, condVars, mainVars, sdVars
<1>2. main.chunk \in 1..MaxChunk /\ main.chunk <= Chunks[Mat(main.pos)] /\ main.slot \in Slots
  <2>1. main.slot \in Slots
    BY DEF TypeOK, MainState
  <2> QED
    BY <2>1, ChunkRange DEF SyncMemcpy, MainThreadInv
<1>3. sdData' \in [Slots -> [1..MaxChunk -> Contents]]
  BY <1>2 DEF SyncMemcpy, TypeOK
<1>4. main' \in MainState /\ main'.chunk = main.chunk + 1 /\ main'.pos = main.pos
  BY ChunkRange, ChunkType DEF SyncMemcpy
<1>5. mainPC' \in MainPCs /\ MainThreadInv'
  BY <1>2, <1>4 DEF SyncMemcpy, MainThreadInv, MainPCs
<1>6. SdThreadInv'
  BY <1>1 DEF SdThreadInv, SdWrites, SdPos
<1>7. TypeOK'
  BY <1>1, <1>2, <1>3, <1>4, <1>5 DEF TypeOK
<1> QED
  BY <1>2, <1>3, <1>4, <1>5, <1>6, <1>7

LEMMA SyncFailsType ==
    ASSUME TypeInv, SyncFails
    PROVE  TypeInv'
<1> USE InPass, PassLenPos DEF TypeInv
<1>1. /\ sdMidx' = sdMidx /\ sdReady' = sdReady /\ sdData' = sdData
      /\ req' = req /\ pushed' = pushed /\ consumed' = consumed
      /\ pfFail' = pfFail /\ passBase' = passBase /\ busy' = busy
      /\ shutdown' = shutdown /\ bounce' = bounce /\ fd' = fd
      /\ reqWait' = reqWait /\ doneWait' = doneWait /\ nib' = nib
      /\ main' = main /\ sdPC' = sdPC /\ sd' = sd
  BY DEF SyncFails, slotVars, queueVars, condVars, mainVars, sdVars
<1>2. faults' \in 0..MaxFault
  BY WorkloadAssumption DEF SyncFails, TypeOK
<1>3. mainPC' \in MainPCs /\ MainThreadInv'
  BY DEF SyncFails, MainThreadInv, MainPCs
<1>4. SdThreadInv'
  BY <1>1 DEF SdThreadInv, SdWrites, SdPos
<1>5. TypeOK'
  BY <1>1, <1>2, <1>3 DEF TypeOK
<1> QED
  BY <1>2, <1>3, <1>4, <1>5

LEMMA SyncPlaceType ==
    ASSUME TypeInv, SyncPlace
    PROVE  TypeInv'
<1> USE InPass, PassLenPos DEF TypeInv
<1>1. /\ sdData' = sdData /\ consumed' = consumed /\ pfFail' = pfFail
      /\ passBase' = passBase /\ busy' = busy /\ shutdown' = shutdown
      /\ bounce' = bounce /\ fd' = fd /\ doneWait' = doneWait /\ sdPC' = sdPC
      /\ sd' = sd /\ faults' = faults
  BY DEF SyncPlace, slotVars, queueVars, condVars, mainVars, sdVars
<1>2. main.slot \in Slots
  BY DEF TypeOK, MainState
<1>3. sdMidx' \in [Slots -> {Free, Reading} \cup Nat] /\ sdReady' \in [Slots -> BOOLEAN]
  BY <1>2 DEF SyncPlace, TypeOK
<1>4. /\ nib' \in [0..NMat-1 -> {Nowhere} \cup Slots]
      /\ mainPC' \in MainPCs /\ main' \in MainState /\ MainThreadInv'
  BY <1>2, HandType DEF SyncPlace, MainPCs
<1>5. req' \in Seq(Nat) /\ pushed' \in Nat \cup {-1} /\ reqWait' \subseteq {"main", "sd"}
  BY TopupType DEF SyncPlace, TypeOK, Signalled
<1>6. SdThreadInv'
  BY <1>1 DEF SdThreadInv, SdWrites, SdPos
<1>7. TypeOK'
  BY <1>1, <1>2, <1>3, <1>4, <1>5 DEF TypeOK
<1> QED
  BY <1>2, <1>3, <1>4, <1>5, <1>6, <1>7

LEMMA UseEndType ==
    ASSUME TypeInv, UseEnd
    PROVE  TypeInv'
<1> USE InPass, PassLenPos DEF TypeInv
<1>1. /\ sdMidx' = sdMidx /\ sdReady' = sdReady /\ sdData' = sdData
      /\ req' = req /\ pushed' = pushed /\ consumed' = consumed
      /\ pfFail' = pfFail /\ passBase' = passBase /\ busy' = busy
      /\ shutdown' = shutdown /\ bounce' = bounce /\ fd' = fd
      /\ reqWait' = reqWait /\ doneWait' = doneWait /\ sdPC' = sdPC /\ sd' = sd
      /\ faults' = faults
  BY DEF UseEnd, slotVars, queueVars, condVars, mainVars, sdVars
<1>2. nib' \in [0..NMat-1 -> {Nowhere} \cup Slots]
  BY DEF UseEnd, TypeOK
<1>3. mainPC' \in MainPCs /\ main' \in MainState /\ MainThreadInv'
  <2>1. CASE main.use # Mat(main.pos) /\ mainPC' = mainPC /\ main' = [main EXCEPT !.use = main.use + 1]
    <3>1. main.use = UpMat /\ Mat(main.pos) = UpMat + 1 /\ UpMat + 1 \in 0..NMat-1
      BY <2>1, ModelAssumption DEF MainThreadInv, UseEnd
    <3>2. main' \in MainState /\ main'.use = UpMat + 1 /\ main'.pos = main.pos
      BY <2>1, <3>1 DEF TypeOK, MainState
    <3> QED
      BY <2>1, <3>1, <3>2 DEF UseEnd, MainThreadInv, MainPCs
  <2>2. CASE /\ main.pos < PassLen - 1
             /\ mainPC' = "fetch" /\ main' = [main EXCEPT !.pos = main.pos + 1]
    <3>1. main.pos + 1 \in 0..PassLen-1
      BY <2>2
    <3>2. main' \in MainState
      BY <2>2, <3>1 DEF TypeOK, MainState
    <3> QED
      BY <2>2, <3>2 DEF MainThreadInv, MainPCs
  <2>3. CASE mainPC' = "drain" /\ main' = main
    BY <2>3 DEF TypeOK, MainThreadInv, MainPCs
  <2> QED
    BY <2>1, <2>2, <2>3 DEF UseEnd
<1>4. SdThreadInv'
  BY <1>1 DEF SdThreadInv, SdWrites, SdPos
<1>5. TypeOK'
  BY <1>1, <1>2, <1>3 DEF TypeOK
<1> QED
  BY <1>2, <1>3, <1>4, <1>5

LEMMA DrainType ==
    ASSUME TypeInv, Drain
    PROVE  TypeInv'
<1> USE InPass, PassLenPos DEF TypeInv
<1>1. /\ sdMidx' = sdMidx /\ sdReady' = sdReady /\ sdData' = sdData
      /\ req' = req /\ pushed' = pushed /\ consumed' = consumed
      /\ pfFail' = pfFail /\ busy' = busy /\ shutdown' = shutdown
      /\ bounce' = bounce /\ fd' = fd /\ reqWait' = reqWait /\ nib' = nib
      /\ main' = main /\ sdPC' = sdPC /\ sd' = sd /\ faults' = faults
  BY DEF Drain, slotVars, queueVars, condVars, mainVars, sdVars
<1>2. passBase' \in Nat
  BY DEF Drain, TypeOK
<1>3. doneWait' \subseteq {"main"}
  BY DEF Drain, TypeOK
<1>4. mainPC' \in MainPCs /\ MainThreadInv'
  BY <1>1 DEF Drain, TypeOK, MainThreadInv, MainPCs, mainVars
<1>5. SdThreadInv'
  BY <1>1 DEF SdThreadInv, SdWrites, SdPos
<1>6. TypeOK'
  BY <1>1, <1>2, <1>3, <1>4 DEF TypeOK
<1> QED
  BY <1>2, <1>3, <1>4, <1>5, <1>6

LEMMA NextForwardType ==
    ASSUME TypeInv, NextForward
    PROVE  TypeInv'
<1> USE InPass, PassLenPos DEF TypeInv
<1>1. /\ sdMidx' = sdMidx /\ sdReady' = sdReady /\ sdData' = sdData
      /\ req' = req /\ pushed' = pushed /\ consumed' = consumed
      /\ pfFail' = pfFail /\ passBase' = passBase /\ busy' = busy
      /\ shutdown' = shutdown /\ bounce' = bounce /\ fd' = fd
      /\ reqWait' = reqWait /\ doneWait' = doneWait /\ sdPC' = sdPC /\ sd' = sd
      /\ faults' = faults
  BY DEF NextForward, slotVars, queueVars, condVars, mainVars, sdVars
<1>2. nib' \in [0..NMat-1 -> {Nowhere} \cup Slots]
  BY DEF NextForward
<1>3. mainPC' = "fetch" /\ main' \in MainState
  <2>1. PICK k \in Forwards : mainPC' = "fetch" /\ main' = [main EXCEPT !.pos = 0, !.kind = k]
    BY DEF NextForward
  <2>2. 0 \in 0..PassLen-1
    OBVIOUS
  <2> DEFINE C == 1..MaxChunk+1
             P == 0..PassLen-1
             U == 0..NMat-1
  <2>3. main \in [kind: Forwards, pos: P, use: U, slot: Slots, chunk: C] /\ 0 \in P
    BY <2>2 DEF TypeOK, MainState
  <2> HIDE DEF C, P, U
  <2>4. main' \in [kind: Forwards, pos: P, use: U, slot: Slots, chunk: C]
    BY <2>1, <2>3
  <2> QED
    BY <2>1, <2>4 DEF MainState, C, P, U
<1>4. mainPC' \in MainPCs /\ MainThreadInv'
  BY <1>3 DEF MainThreadInv, MainPCs
<1>5. SdThreadInv'
  BY <1>1 DEF SdThreadInv, SdWrites, SdPos
<1>6. TypeOK'
  BY <1>1, <1>2, <1>3, <1>4 DEF TypeOK
<1> QED
  BY <1>2, <1>3, <1>4, <1>5, <1>6

LEMMA ShutdownType ==
    ASSUME TypeInv, Shutdown
    PROVE  TypeInv'
<1> USE InPass, PassLenPos DEF TypeInv
<1>1. /\ sdMidx' = sdMidx /\ sdReady' = sdReady /\ sdData' = sdData
      /\ req' = req /\ pushed' = pushed /\ consumed' = consumed
      /\ pfFail' = pfFail /\ passBase' = passBase /\ busy' = busy
      /\ bounce' = bounce /\ fd' = fd /\ nib' = nib /\ main' = main
      /\ sdPC' = sdPC /\ sd' = sd /\ faults' = faults
  BY DEF Shutdown, slotVars, queueVars, condVars, mainVars, sdVars
<1>2. shutdown' \in BOOLEAN /\ reqWait' \subseteq {"main", "sd"} /\ doneWait' \subseteq {"main"}
  BY DEF Shutdown, Signalled
<1>3. mainPC' \in MainPCs /\ MainThreadInv'
  BY DEF Shutdown, MainThreadInv, MainPCs
<1>4. SdThreadInv'
  BY <1>1 DEF SdThreadInv, SdWrites, SdPos
<1>5. TypeOK'
  BY <1>1, <1>2, <1>3 DEF TypeOK
<1> QED
  BY <1>2, <1>3, <1>4, <1>5

LEMMA JoinType ==
    ASSUME TypeInv, Join
    PROVE  TypeInv'
<1> USE InPass, PassLenPos DEF TypeInv
<1>1. /\ sdMidx' = sdMidx /\ sdReady' = sdReady /\ sdData' = sdData
      /\ req' = req /\ pushed' = pushed /\ consumed' = consumed
      /\ pfFail' = pfFail /\ passBase' = passBase /\ busy' = busy
      /\ shutdown' = shutdown /\ bounce' = bounce /\ fd' = fd
      /\ reqWait' = reqWait /\ doneWait' = doneWait /\ nib' = nib
      /\ main' = main /\ sdPC' = sdPC /\ sd' = sd /\ faults' = faults
  BY DEF Join, slotVars, queueVars, condVars, mainVars, sdVars
<1>2. mainPC' \in MainPCs /\ MainThreadInv'
  BY DEF Join, MainThreadInv, MainPCs
<1>3. SdThreadInv'
  BY <1>1 DEF SdThreadInv, SdWrites, SdPos
<1>4. TypeOK'
  BY <1>1, <1>2 DEF TypeOK
<1> QED
  BY <1>2, <1>3, <1>4

LEMMA SdLeaveType ==
    ASSUME TypeInv, SdLeave
    PROVE  TypeInv'
<1> USE InPass, PassLenPos DEF TypeInv
<1>1. /\ sdMidx' = sdMidx /\ sdReady' = sdReady /\ sdData' = sdData
      /\ req' = req /\ pushed' = pushed /\ consumed' = consumed
      /\ pfFail' = pfFail /\ passBase' = passBase /\ busy' = busy
      /\ shutdown' = shutdown /\ bounce' = bounce /\ reqWait' = reqWait
      /\ doneWait' = doneWait /\ nib' = nib /\ mainPC' = mainPC /\ main' = main
      /\ sd' = sd /\ faults' = faults
  BY DEF SdLeave, slotVars, queueVars, condVars, mainVars, sdVars
<1>2. fd' \in {Closed} \cup 0..Layers-1
  BY DEF SdLeave
<1>3. sdPC' \in SdPCs /\ SdThreadInv'
  BY <1>1 DEF SdLeave, SdThreadInv, SdWrites, SdPCs
<1>4. MainThreadInv'
  BY <1>1 DEF MainThreadInv
<1>5. TypeOK'
  BY <1>1, <1>2, <1>3 DEF TypeOK
<1> QED
  BY <1>2, <1>3, <1>4, <1>5

LEMMA SdTakeType ==
    ASSUME TypeInv, SdTake
    PROVE  TypeInv'
<1> USE InPass, PassLenPos DEF TypeInv
<1>1. /\ sdReady' = sdReady /\ sdData' = sdData /\ pushed' = pushed
      /\ consumed' = consumed /\ pfFail' = pfFail /\ passBase' = passBase
      /\ shutdown' = shutdown /\ bounce' = bounce /\ fd' = fd
      /\ reqWait' = reqWait /\ doneWait' = doneWait /\ nib' = nib
      /\ mainPC' = mainPC /\ main' = main /\ faults' = faults
  BY DEF SdTake, slotVars, queueVars, condVars, mainVars, sdVars
<1>2. sdMidx' \in [Slots -> {Free, Reading} \cup Nat]
  BY DEF SdTake, TypeOK
<1>3. req # <<>> /\ Head(req) \in Nat /\ req' \in Seq(Nat)
  BY DEF SdTake, TypeOK
<1>4. sd' \in SdState
  BY <1>3 DEF SdTake, TypeOK, SdState
<1>5. sdPC' = "open" /\ busy' = 1
  BY DEF SdTake, SdThreadInv, SdWrites
<1>6. sdPC' \in SdPCs /\ busy' \in 0..1 /\ SdThreadInv'
  BY <1>5 DEF SdThreadInv, SdWrites, SdPCs
<1>7. MainThreadInv'
  BY <1>1 DEF MainThreadInv
<1>8. TypeOK'
  BY <1>1, <1>2, <1>3, <1>4, <1>5, <1>6 DEF TypeOK
<1> QED
  BY <1>2, <1>3, <1>4, <1>5, <1>6, <1>7, <1>8

LEMMA SdWaitType ==
    ASSUME TypeInv, SdWait
    PROVE  TypeInv'
<1> USE InPass, PassLenPos DEF TypeInv
<1>1. /\ sdMidx' = sdMidx /\ sdReady' = sdReady /\ sdData' = sdData
      /\ req' = req /\ pushed' = pushed /\ consumed' = consumed
      /\ pfFail' = pfFail /\ passBase' = passBase /\ busy' = busy
      /\ shutdown' = shutdown /\ bounce' = bounce /\ fd' = fd
      /\ doneWait' = doneWait /\ nib' = nib /\ mainPC' = mainPC /\ main' = main
      /\ sdPC' = sdPC /\ sd' = sd /\ faults' = faults
  BY DEF SdWait, slotVars, queueVars, condVars, mainVars, sdVars
<1>2. reqWait' \subseteq {"main", "sd"}
  BY DEF SdWait, TypeOK
<1>3. MainThreadInv'
  BY <1>1 DEF MainThreadInv
<1>4. SdThreadInv'
  BY <1>1 DEF SdThreadInv, SdWrites, SdPos
<1>5. TypeOK'
  BY <1>1, <1>2 DEF TypeOK
<1> QED
  BY <1>2, <1>3, <1>4, <1>5

LEMMA SdOpenType ==
    ASSUME TypeInv, SdOpen
    PROVE  TypeInv'
<1> USE InPass, PassLenPos DEF TypeInv
<1>1. /\ sdMidx' = sdMidx /\ sdReady' = sdReady /\ sdData' = sdData
      /\ req' = req /\ pushed' = pushed /\ consumed' = consumed
      /\ pfFail' = pfFail /\ passBase' = passBase /\ busy' = busy
      /\ shutdown' = shutdown /\ bounce' = bounce /\ reqWait' = reqWait
      /\ doneWait' = doneWait /\ nib' = nib /\ mainPC' = mainPC /\ main' = main
  BY DEF SdOpen, slotVars, queueVars, condVars, mainVars, sdVars
<1>2. fd' \in {Closed} \cup 0..Layers-1
  BY DEF SdOpen
<1>3. faults' \in 0..MaxFault
  BY WorkloadAssumption DEF SdOpen, TypeOK
<1>4. sdPC' \in SdPCs /\ sd' \in SdState /\ SdThreadInv'
  <2>1. CASE fd' = Layer(SdPos) /\ sdPC' = "pread" /\ sd' = [sd EXCEPT !.chunk = 1]
    <3>1. sd' \in SdState /\ sd'.chunk = 1 /\ sd'.midx = sd.midx
      BY <2>1, ChunkRange, ChunkType
    <3> QED
      BY <1>1, <2>1, <3>1 DEF SdOpen, SdThreadInv, SdWrites, SdPos, SdPCs
  <2>2. CASE sdPC' = "nofd" /\ sd' = sd
    BY <1>1, <2>2 DEF SdOpen, SdThreadInv, SdWrites, SdPCs, TypeOK
  <2> QED
    BY <2>1, <2>2 DEF SdOpen
<1>5. MainThreadInv'
  BY <1>1 DEF MainThreadInv
<1>6. TypeOK'
  BY <1>1, <1>2, <1>3, <1>4 DEF TypeOK
<1> QED
  BY <1>2, <1>3, <1>4, <1>5, <1>6

LEMMA SdNoFdType ==
    ASSUME TypeInv, SdNoFd
    PROVE  TypeInv'
<1> USE InPass, PassLenPos DEF TypeInv
<1>1. /\ sdReady' = sdReady /\ sdData' = sdData /\ req' = req
      /\ pushed' = pushed /\ consumed' = consumed /\ pfFail' = pfFail
      /\ passBase' = passBase /\ shutdown' = shutdown /\ bounce' = bounce
      /\ fd' = fd /\ doneWait' = doneWait /\ nib' = nib /\ mainPC' = mainPC
      /\ main' = main /\ sd' = sd /\ faults' = faults
  BY DEF SdNoFd, slotVars, queueVars, condVars, mainVars, sdVars
<1>2. sd.slot \in Slots
  BY DEF TypeOK, SdState
<1>3. sdMidx' \in [Slots -> {Free, Reading} \cup Nat]
  BY <1>2 DEF SdNoFd, TypeOK
<1>4. reqWait' \subseteq {"main", "sd"}
  BY DEF SdNoFd, Signalled
<1>5. sdPC' = "loop" /\ busy' = 0
  BY DEF SdNoFd, SdThreadInv, SdWrites
<1>6. sdPC' \in SdPCs /\ busy' \in 0..1 /\ SdThreadInv'
  BY <1>5 DEF SdThreadInv, SdWrites, SdPCs
<1>7. MainThreadInv'
  BY <1>1 DEF MainThreadInv
<1>8. TypeOK'
  BY <1>1, <1>2, <1>3, <1>4, <1>5, <1>6 DEF TypeOK
<1> QED
  BY <1>2, <1>3, <1>4, <1>5, <1>6, <1>7, <1>8

LEMMA SdPreadType ==
    ASSUME TypeInv, SdPread
    PROVE  TypeInv'
<1> USE InPass, PassLenPos DEF TypeInv
<1>1. /\ sdMidx' = sdMidx /\ sdReady' = sdReady /\ sdData' = sdData
      /\ req' = req /\ pushed' = pushed /\ consumed' = consumed
      /\ pfFail' = pfFail /\ passBase' = passBase /\ busy' = busy
      /\ shutdown' = shutdown /\ fd' = fd /\ reqWait' = reqWait
      /\ doneWait' = doneWait /\ nib' = nib /\ mainPC' = mainPC /\ main' = main
      /\ sd' = sd
  BY DEF SdPread, slotVars, queueVars, condVars, mainVars, sdVars
<1>2. fd = Layer(SdPos) /\ sd.chunk \in 1..MaxChunk
  BY ChunkRange DEF SdPread, SdThreadInv
<1>3. bounce' \in Contents
  BY <1>2 DEF SdPread, TypeOK, Contents, Chunk
<1>4. faults' \in 0..MaxFault
  BY WorkloadAssumption DEF SdPread, TypeOK
<1>5. sdPC' \in SdPCs /\ SdThreadInv'
  BY <1>1 DEF SdPread, SdThreadInv, SdWrites, SdPos, SdPCs
<1>6. MainThreadInv'
  BY <1>1 DEF MainThreadInv
<1>7. TypeOK'
  BY <1>1, <1>2, <1>3, <1>4, <1>5 DEF TypeOK
<1> QED
  BY <1>2, <1>3, <1>4, <1>5, <1>6, <1>7

LEMMA SdMemcpyType ==
    ASSUME TypeInv, SdMemcpy
    PROVE  TypeInv'
<1> USE InPass, PassLenPos DEF TypeInv
<1>1. /\ sdMidx' = sdMidx /\ sdReady' = sdReady /\ req' = req
      /\ pushed' = pushed /\ consumed' = consumed /\ pfFail' = pfFail
      /\ passBase' = passBase /\ busy' = busy /\ shutdown' = shutdown
      /\ bounce' = bounce /\ fd' = fd /\ reqWait' = reqWait
      /\ doneWait' = doneWait /\ nib' = nib /\ mainPC' = mainPC /\ main' = main
      /\ faults' = faults
  BY DEF SdMemcpy, slotVars, queueVars, condVars, mainVars, sdVars
<1>2. sd.chunk \in 1..MaxChunk /\ sd.chunk <= Chunks[Mat(SdPos)] /\ sd.slot \in Slots
  <2>1. sd.slot \in Slots
    BY DEF TypeOK, SdState
  <2> QED
    BY <2>1, ChunkRange DEF SdMemcpy, SdThreadInv
<1>3. sdData' \in [Slots -> [1..MaxChunk -> Contents]]
  BY <1>2 DEF SdMemcpy, TypeOK
<1>4. sd' \in SdState /\ sd'.chunk = sd.chunk + 1 /\ sd'.midx = sd.midx
  BY ChunkRange, ChunkType DEF SdMemcpy
<1>5. sdPC' \in SdPCs /\ SdThreadInv'
  BY <1>1, <1>2, <1>4 DEF SdMemcpy, SdThreadInv, SdWrites, SdPos, SdPCs
<1>6. MainThreadInv'
  BY <1>1 DEF MainThreadInv
<1>7. TypeOK'
  BY <1>1, <1>2, <1>3, <1>4, <1>5 DEF TypeOK
<1> QED
  BY <1>2, <1>3, <1>4, <1>5, <1>6, <1>7

LEMMA SdPublishType ==
    ASSUME TypeInv, SdPublish
    PROVE  TypeInv'
<1> USE InPass, PassLenPos DEF TypeInv
<1>1. /\ sdData' = sdData /\ req' = req /\ pushed' = pushed
      /\ consumed' = consumed /\ passBase' = passBase /\ shutdown' = shutdown
      /\ bounce' = bounce /\ fd' = fd /\ nib' = nib /\ mainPC' = mainPC
      /\ main' = main /\ sd' = sd /\ faults' = faults
  BY DEF SdPublish, slotVars, queueVars, condVars, mainVars, sdVars
<1>2. sd.slot \in Slots /\ sd.midx \in Nat
  BY DEF TypeOK, SdState
<1>3. sdMidx' \in [Slots -> {Free, Reading} \cup Nat] /\ sdReady' \in [Slots -> BOOLEAN]
  BY <1>2 DEF SdPublish, TypeOK
<1>4. pfFail' \subseteq 0..PassLen-1
  BY DEF SdPublish, TypeOK
<1>5. reqWait' \subseteq {"main", "sd"} /\ doneWait' \subseteq {"main"}
  BY DEF SdPublish, Signalled
<1>6. sdPC' = "loop" /\ busy' = 0
  BY DEF SdPublish, SdThreadInv, SdWrites
<1>7. sdPC' \in SdPCs /\ busy' \in 0..1 /\ SdThreadInv'
  BY <1>6 DEF SdThreadInv, SdWrites, SdPCs
<1>8. MainThreadInv'
  BY <1>1 DEF MainThreadInv
<1>9. TypeOK'
  BY <1>1, <1>2, <1>3, <1>4, <1>5, <1>6, <1>7 DEF TypeOK
<1> QED
  BY <1>2, <1>3, <1>4, <1>5, <1>6, <1>7, <1>8, <1>9

LEMMA NextType ==
    ASSUME TypeInv, [Next]_vars
    PROVE  TypeInv'
<1>1. CASE UNCHANGED vars
  BY <1>1 DEF vars, TypeInv, TypeOK, MainThreadInv, SdThreadInv, SdWrites, SdPos, slotVars, queueVars,
              condVars, mainVars, sdVars
<1>2. CASE MainNext
  BY <1>2, FetchColdType, FetchPipelinedType, AwaitWokenType, ClaimWokenType, SyncOpenType,
     SyncPreadType, SyncMemcpyType, SyncFailsType, SyncPlaceType, UseEndType, DrainType,
     NextForwardType, ShutdownType, JoinType DEF MainNext
<1>3. CASE SdNext
  BY <1>3, SdLeaveType, SdTakeType, SdWaitType, SdOpenType, SdNoFdType, SdPreadType,
     SdMemcpyType, SdPublishType DEF SdNext
<1> QED
  BY <1>1, <1>2, <1>3 DEF Next, Terminated

\* Every variable stays in its type in every execution of either thread, whatever
\* the SD card does and whichever forwards are run.
THEOREM TypeCorrect == Spec => []TypeOK
<1>1. Init => TypeInv
  BY InitType
<1>2. TypeInv /\ [Next]_vars => TypeInv'
  BY NextType
<1>3. TypeInv => TypeOK
  BY DEF TypeInv
<1> QED
  BY <1>1, <1>2, <1>3, PTL DEF Spec

-----------------------------------------------------------------------------
(* The slots have one writer at a time: a thread writes only into a slot it has *)
(* marked SD_READING with the lock held, and only an empty slot can be marked.  *)

\* The slot a thread writes is marked, and the threads write different ones.
SlotInv ==
    /\ SdWrites => sdMidx[sd.slot] = Reading
    /\ MainWrites => sdMidx[main.slot] = Reading
    /\ SlotExclusive

\* What a step needs to know of the types.
LEMMA SlotTypes ==
    ASSUME TypeInv
    PROVE  /\ sdMidx \in [Slots -> {Free, Reading} \cup Nat]
           /\ sd.slot \in Slots /\ sd.midx \in Nat /\ main.slot \in Slots /\ Midx \in Nat
<1>1. /\ sdMidx \in [Slots -> {Free, Reading} \cup Nat] /\ sd \in SdState
      /\ main \in MainState /\ passBase \in Nat
  BY DEF TypeInv, TypeOK
<1>2. sd.slot \in Slots /\ sd.midx \in Nat /\ main.slot \in Slots /\ main.pos \in 0..PassLen-1
  BY <1>1 DEF SdState, MainState
<1> QED
  BY <1>1, <1>2, PassLenPos DEF Midx

\* Releasing the matrix that was multiplied empties no slot being filled.
LEMMA ReleaseKeeps ==
    ASSUME TypeInv
    PROVE  /\ ReleasedMidx \in [Slots -> {Free, Reading} \cup Nat]
           /\ \A s \in Slots : sdMidx[s] = Reading => ReleasedMidx[s] = Reading
<1>1. sdMidx \in [Slots -> {Free, Reading} \cup Nat] /\ Midx \in Nat
  BY SlotTypes
<1>2. \A s \in Slots : sdMidx[s] = Reading => ~Released(s)
  BY <1>1 DEF Released, Reading
<1> QED
  BY <1>1, <1>2 DEF ReleasedMidx

\* A claim marks an empty slot, so not the one the prefetch thread fills.
LEMMA ClaimSlot ==
    ASSUME TypeInv, NEW sm \in [Slots -> {Free, Reading} \cup Nat], NEW W, NEW P,
           P \in {"cold", "refill"},
           SdWrites => sm[sd.slot] = Reading, sdPC' = sdPC, sd' = sd, Claim(sm, W, P)
    PROVE  SlotInv'
<1>1. sd.slot \in Slots /\ main \in MainState
  BY SlotTypes DEF TypeInv, TypeOK
<1>2. SdWrites' <=> SdWrites
  BY DEF SdWrites
<1>3. CASE NoneFree(sm) /\ sdMidx' = sm /\ mainPC' = P
  BY <1>2, <1>3 DEF SlotInv, SlotExclusive, MainWrites
<1>4. ASSUME NEW s \in Slots, FirstFree(sm, s), sdMidx' = [sm EXCEPT ![s] = Reading],
             main' = [main EXCEPT !.slot = s]
      PROVE  SlotInv'
  <2>1. main'.slot = s
    BY <1>1, <1>4 DEF MainState
  <2>2. sm[s] = Free /\ sdMidx'[s] = Reading
    BY <1>4 DEF FirstFree
  <2>3. SdWrites => s # sd.slot
    BY <2>2 DEF Free, Reading
  <2>4. SdWrites => sdMidx'[sd.slot] = Reading
    BY <1>1, <1>4
  <2> QED
    BY <1>2, <2>1, <2>2, <2>3, <2>4 DEF SlotInv, SlotExclusive
<1> QED
  BY <1>3, <1>4 DEF Claim

\* A step of the main thread after which it writes no slot keeps SlotInv when it
\* takes no mark from the prefetch thread's slot.
LEMMA MainRests ==
    ASSUME SlotInv, sdPC' = sdPC, sd' = sd, ~MainWrites',
           SdWrites => sdMidx'[sd.slot] = sdMidx[sd.slot]
    PROVE  SlotInv'
  BY DEF SlotInv, SlotExclusive, SdWrites

\* The wait for a matrix hands it over, claims a slot to read it, or waits.
LEMMA AwaitSlot ==
    ASSUME TypeInv, SlotInv, NEW sm \in [Slots -> {Free, Reading} \cup Nat], NEW R, NEW W,
           SdWrites => sm[sd.slot] = Reading, sdPC' = sdPC, sd' = sd, AwaitMat(sm, R, W)
    PROVE  SlotInv'
<1>1. CASE \E s \in Slots : sm[s] = Midx /\ R[s] /\ Hand(s) /\ sdMidx' = sm
  BY <1>1, MainRests DEF Hand, MainWrites, SlotInv
<1>2. CASE Claim(sm, W, "refill")
  BY <1>2, ClaimSlot
<1>3. CASE mainPC' = "await" /\ sdMidx' = sm
  BY <1>3, MainRests DEF MainWrites, SlotInv
<1> QED
  BY <1>1, <1>2, <1>3 DEF AwaitMat

\* One step of the main thread.
LEMMA MainSlot ==
    ASSUME TypeInv, SlotInv, MainNext
    PROVE  SlotInv'
<1>1. sdPC' = sdPC /\ sd' = sd
  BY DEF MainNext, FetchCold, FetchPipelined, AwaitWoken, ClaimWoken, SyncOpen, SyncPread,
         SyncMemcpy, SyncFails, SyncPlace, UseEnd, Drain, NextForward, Shutdown, Join, sdVars
<1>2. SdWrites => sdMidx[sd.slot] = Reading /\ ReleasedMidx[sd.slot] = Reading
  BY SlotTypes, ReleaseKeeps DEF SlotInv
<1>3. CASE FetchCold
  <2>1. Claim(ReleasedMidx, reqWait, "cold")
    BY <1>3 DEF FetchCold
  <2> QED
    BY <1>1, <1>2, <2>1, ReleaseKeeps, ClaimSlot
<1>4. CASE FetchPipelined
  <2>1. AwaitMat(ReleasedMidx, ReleasedReady, Signalled)
    BY <1>4 DEF FetchPipelined
  <2> QED
    BY <1>1, <1>2, <2>1, ReleaseKeeps, AwaitSlot
<1>5. CASE AwaitWoken
  <2>1. AwaitMat(sdMidx, sdReady, reqWait)
    BY <1>5 DEF AwaitWoken
  <2> QED
    BY <1>1, <1>2, <2>1, SlotTypes, AwaitSlot
<1>6. CASE ClaimWoken
  <2>1. mainPC \in {"cold", "refill"} /\ Claim(sdMidx, reqWait, mainPC)
    BY <1>6 DEF ClaimWoken
  <2> QED
    BY <1>1, <1>2, <2>1, SlotTypes, ClaimSlot
<1>7. CASE SyncOpen \/ SyncPread \/ SyncMemcpy
  <2>1. MainWrites /\ sdMidx' = sdMidx /\ main'.slot = main.slot
    BY <1>7 DEF SyncOpen, SyncPread, SyncMemcpy, MainWrites, slotVars, TypeInv, TypeOK, MainState
  <2> QED
    BY <1>1, <2>1 DEF SlotInv, SlotExclusive, SdWrites
<1>8. CASE SyncPlace
  <2>1. sdMidx' = [sdMidx EXCEPT ![main.slot] = Midx] /\ ~MainWrites' /\ MainWrites
    BY <1>8 DEF SyncPlace, Hand, MainWrites
  <2>2. SdWrites => sdMidx'[sd.slot] = sdMidx[sd.slot]
    BY <2>1, SlotTypes DEF SlotInv, SlotExclusive
  <2> QED
    BY <1>1, <2>1, <2>2, MainRests
<1>9. CASE SyncFails \/ UseEnd \/ Drain \/ NextForward \/ Shutdown \/ Join
  <2>1. sdMidx' = sdMidx /\ ~MainWrites'
    BY <1>9 DEF SyncFails, UseEnd, Drain, NextForward, Shutdown, Join, MainWrites, slotVars, mainVars
  <2> QED
    BY <1>1, <2>1, MainRests
<1> QED
  BY <1>3, <1>4, <1>5, <1>6, <1>7, <1>8, <1>9 DEF MainNext

\* One step of the prefetch thread.
LEMMA SdSlot ==
    ASSUME TypeInv, SlotInv, SdNext
    PROVE  SlotInv'
<1>1. mainPC' = mainPC /\ main' = main
  BY DEF SdNext, SdLeave, SdTake, SdWait, SdOpen, SdNoFd, SdPread, SdMemcpy, SdPublish, mainVars
<1>2. MainWrites' <=> MainWrites
  BY <1>1 DEF MainWrites
<1>3. CASE SdTake
  <2>1. PICK s \in Slots : FirstFree(sdMidx, s) /\ sdMidx' = [sdMidx EXCEPT ![s] = Reading]
                           /\ sd' = [sd EXCEPT !.midx = Head(req), !.slot = s]
    BY <1>3 DEF SdTake
  <2>2. sd'.slot = s /\ sdMidx'[s] = Reading /\ sdMidx[s] = Free
    BY <2>1, SlotTypes DEF FirstFree, TypeInv, TypeOK, SdState
  <2>3. MainWrites => main.slot # s /\ sdMidx'[main.slot] = Reading
    BY <2>1, <2>2, SlotTypes DEF SlotInv, Free, Reading
  <2> QED
    BY <1>1, <1>2, <2>2, <2>3 DEF SlotInv, SlotExclusive
<1>4. CASE SdOpen \/ SdPread \/ SdMemcpy
  <2>1. SdWrites /\ sdMidx' = sdMidx /\ sd'.slot = sd.slot
    BY <1>4 DEF SdOpen, SdPread, SdMemcpy, SdWrites, slotVars, TypeInv, TypeOK, SdState
  <2> QED
    BY <1>1, <1>2, <2>1 DEF SlotInv, SlotExclusive
<1>5. CASE SdNoFd \/ SdPublish
  <2>1. SdWrites /\ ~SdWrites'
    BY <1>5 DEF SdNoFd, SdPublish, SdWrites
  <2>2. \A t \in Slots : t # sd.slot => sdMidx'[t] = sdMidx[t]
    BY <1>5, SlotTypes DEF SdNoFd, SdPublish
  <2> QED
    BY <1>1, <1>2, <2>1, <2>2, SlotTypes DEF SlotInv, SlotExclusive
<1>6. CASE SdLeave \/ SdWait
  <2>1. ~SdWrites' /\ sdMidx' = sdMidx
    BY <1>6 DEF SdLeave, SdWait, SdWrites, slotVars, sdVars
  <2> QED
    BY <1>1, <1>2, <2>1 DEF SlotInv, SlotExclusive
<1> QED
  BY <1>3, <1>4, <1>5, <1>6 DEF SdNext

LEMMA NextSlot ==
    ASSUME TypeInv, SlotInv, [Next]_vars
    PROVE  SlotInv'
<1>1. ASSUME UNCHANGED vars PROVE SlotInv'
  BY <1>1 DEF vars, slotVars, mainVars, sdVars, SlotInv, SlotExclusive, SdWrites, MainWrites
<1> QED
  BY <1>1, MainSlot, SdSlot DEF Next, Terminated

\* A slot that is being filled has one writer, in every execution of the two
\* threads, whatever the SD card does and whichever forwards are run.
THEOREM OneWriter == Spec => []SlotExclusive
<1>1. Init => TypeInv /\ SlotInv
  BY InitType DEF Init, SlotInv, SlotExclusive, SdWrites, MainWrites
<1>2. TypeInv /\ SlotInv /\ [Next]_vars => (TypeInv /\ SlotInv)'
  BY NextSlot, NextType
<1>3. SlotInv => SlotExclusive
  BY DEF SlotInv
<1> QED
  BY <1>1, <1>2, <1>3, PTL DEF Spec

(***************************************************************************)
(* The ring of requests and what becomes of every matrix in it, the bytes  *)
(* every matmul reads, and that the prefetcher is the stream of weights    *)
(* WeightStream promises.                                                  *)
(***************************************************************************)
-----------------------------------------------------------------------------
(* Where the matrices are.  They are numbered on over the passes; up to DoneTo  *)
(* they have been handed to a forward, up to TakenTo they have left the queue.   *)
DoneTo ==
    IF mainPC \in {"use", "drain"} THEN Midx
    ELSE IF mainPC \in {"head", "join", "done"} THEN passBase - 1 ELSE Midx - 1
TakenTo == pushed - Len(req)

\* The main thread reads a matrix whose prefetch has failed.
Rereads == mainPC = "refill" \/ (MainWrites /\ Midx <= pushed)

\* The queue holds the matrices after TakenTo, all of this pass.
Queued ==
    /\ \A i \in 1..Len(req) : req[i] = TakenTo + i
    /\ pushed < passBase + PassLen
    /\ Len(req) <= QCap /\ Len(req) <= Lookahead
Order ==
    /\ Queued
    /\ consumed <= DoneTo /\ DoneTo <= TakenTo
    /\ \E k \in Nat : passBase = PassLen * k

\* What is in a slot, being read or marked failed has left the queue, and the last two
\* are still to be handed over.
ReadySlots == \A s \in Slots : sdReady[s] <=> sdMidx[s] >= 0
Numbers ==
    /\ ReadySlots
    /\ \A s \in Slots : sdMidx[s] <= TakenTo
    /\ SdWrites => DoneTo < sd.midx /\ sd.midx <= TakenTo
    /\ \A p \in pfFail : DoneTo < passBase + p /\ passBase + p <= TakenTo
    /\ Rereads => Midx <= TakenTo

\* A matrix is in one of these places only.
Absent(sm, m) == \A s \in Slots : sm[s] # m
Distinct(sm) == \A s, t \in Slots : sm[s] = sm[t] /\ sm[s] >= 0 => s = t
Once ==
    /\ Distinct(sdMidx)
    /\ SdWrites => Absent(sdMidx, sd.midx) /\ \A p \in pfFail : sd.midx # passBase + p
    /\ \A p \in pfFail : Absent(sdMidx, passBase + p)
    /\ Rereads => main.pos \notin pfFail /\ (SdWrites => sd.midx # Midx) /\ Absent(sdMidx, Midx)

Stages ==
    /\ mainPC = "cold" => Midx > pushed
    /\ mainPC = "drain" => main.pos = PassLen - 1
    /\ mainPC \in {"head", "join", "done"} => Len(req) = 0 /\ ~SdWrites

QInv == Order /\ Numbers /\ Once /\ Stages

\* The numbers that occur.
LEMMA QTypes ==
    ASSUME TypeInv
    PROVE  /\ sdMidx \in [Slots -> {Free, Reading} \cup Nat] /\ sdReady \in [Slots -> BOOLEAN]
           /\ req \in Seq(Nat) /\ Len(req) \in Nat /\ pushed \in Nat \cup {-1} /\ consumed \in Nat \cup {-1}
           /\ TakenTo \in Int /\ DoneTo \in Int /\ DoneTo >= passBase - 1 /\ passBase \in Nat
           /\ Midx \in Nat /\ Midx = passBase + main.pos /\ main.pos \in 0..PassLen-1
           /\ sd.midx \in Nat /\ sd.slot \in Slots /\ main.slot \in Slots /\ sd \in SdState /\ main \in MainState
           /\ pfFail \subseteq 0..PassLen-1 /\ PassLen \in Nat \ {0}
           /\ QCap \in Nat \ {0} /\ Lookahead \in Nat \ {0}
<1>1. /\ sdMidx \in [Slots -> {Free, Reading} \cup Nat] /\ sdReady \in [Slots -> BOOLEAN]
      /\ req \in Seq(Nat) /\ pushed \in Nat \cup {-1} /\ consumed \in Nat \cup {-1} /\ passBase \in Nat
      /\ sd \in SdState /\ main \in MainState /\ pfFail \subseteq 0..PassLen-1
  BY DEF TypeInv, TypeOK
<1>2. Len(req) \in Nat
  BY <1>1
<1>3. main.pos \in 0..PassLen-1 /\ main.slot \in Slots /\ sd.midx \in Nat /\ sd.slot \in Slots
  BY <1>1 DEF MainState, SdState
<1>4. Midx \in Nat /\ Midx = passBase + main.pos
  BY <1>1, <1>3, PassLenPos DEF Midx
<1>5. TakenTo \in Int
  BY <1>1, <1>2 DEF TakenTo
<1>6. DoneTo \in Int /\ DoneTo >= passBase - 1
  BY <1>1, <1>3, <1>4, PassLenPos DEF DoneTo
<1> QED
  BY <1>1, <1>2, <1>3, <1>4, <1>5, <1>6, PassLenPos, QueueAssumption

\* The position of a matrix of the pass.
LEMMA PosOf ==
    ASSUME NEW m \in Nat, NEW k \in Nat, passBase = PassLen * k,
           passBase <= m, m < passBase + PassLen
    PROVE  m % PassLen = m - passBase
<1>1. m - passBase \in 0..PassLen-1 /\ PassLen \in Nat \ {0} /\ PassLen * k \in Nat
  BY PassLenPos
<1>2. ((PassLen * k) + (m - passBase)) % PassLen = m - passBase
  BY <1>1, DivUnique
<1>3. (PassLen * k) + (m - passBase) = m
  BY <1>1
<1> QED
  BY <1>2, <1>3

\* Emptying slots, and marking empty ones, puts no matrix anywhere.
Fewer(new, old) == \A s \in Slots : new[s] = old[s] \/ new[s] \in {Free, Reading}

LEMMA FewerKeeps ==
    ASSUME NEW old \in [Slots -> {Free, Reading} \cup Nat],
           NEW new \in [Slots -> {Free, Reading} \cup Nat], Fewer(new, old)
    PROVE  /\ Distinct(old) => Distinct(new)
           /\ \A m \in Nat : Absent(old, m) => Absent(new, m)
           /\ \A T \in Int : T >= -1 /\ (\A s \in Slots : old[s] <= T) => \A s \in Slots : new[s] <= T
  BY DEF Fewer, Distinct, Absent, Free, Reading

\* ion_topup appends what follows, up to the end of the pass, the lookahead after c and
\* the size of the queue.
LEMMA TopupQueue ==
    ASSUME NEW p \in Nat \cup {-1}, NEW c \in Int, passBase \in Nat, req \in Seq(Nat),
           \A i \in 1..Len(req) : req[i] = p - Len(req) + i,
           p < passBase + PassLen, Len(req) <= QCap, Len(req) <= Lookahead,
           c <= p - Len(req), Topup(p, c)
    PROVE  /\ req' \in Seq(Nat) /\ pushed' - Len(req') = p - Len(req)
           /\ \A i \in 1..Len(req') : req'[i] = pushed' - Len(req') + i
           /\ pushed' < passBase + PassLen /\ Len(req') <= QCap /\ Len(req') <= Lookahead
           /\ pushed' >= p /\ pushed' \in Nat \cup {-1}
           /\ \A i \in 1..Len(req) : i \in 1..Len(req') /\ req'[i] = req[i]
<1> DEFINE n == IF TopupEnd(p, c) > p THEN TopupEnd(p, c) - p ELSE 0
           new == [i \in 1..n |-> p + i]
<1>1. PassLen \in Nat \ {0} /\ QCap \in Nat /\ Lookahead \in Nat /\ Len(req) \in Nat
  BY PassLenPos, QueueAssumption
<1>2. /\ TopupEnd(p, c) \in Int /\ TopupEnd(p, c) <= passBase + PassLen - 1
      /\ TopupEnd(p, c) <= c + Lookahead /\ TopupEnd(p, c) <= p + QCap - Len(req)
  BY <1>1 DEF TopupEnd, Lower
<1>3. n \in Nat /\ (n = 0 \/ (p + n <= passBase + PassLen - 1 /\ p + n <= c + Lookahead /\ n + Len(req) <= QCap))
  BY <1>1, <1>2
<1>4. req' = req \o new /\ pushed' = p + n
  BY DEF Topup
<1> HIDE DEF n
<1>5. new \in Seq(Nat) /\ Len(new) = n
  BY <1>3
<1> HIDE DEF new
<1>6. req' \in Seq(Nat) /\ Len(req') = Len(req) + n
  <2>1. req \o new \in Seq(Nat) /\ Len(req \o new) = Len(req) + Len(new)
    BY <1>5, ConcatProperties
  <2> QED
    BY <1>4, <1>5, <2>1
<1>7. ASSUME NEW i \in 1..Len(req') PROVE req'[i] = p - Len(req) + i
  <2>1. CASE i <= Len(req)
    BY <1>1, <1>3, <1>4, <1>5, <1>6, <2>1
  <2>2. CASE i > Len(req)
    <3>1. req'[i] = new[i - Len(req)] /\ i - Len(req) \in 1..n
      BY <1>1, <1>3, <1>4, <1>5, <1>6, <2>2
    <3>2. new[i - Len(req)] = p + (i - Len(req))
      BY <3>1 DEF new
    <3> QED
      BY <1>1, <3>1, <3>2
  <2> QED
    BY <1>1, <1>6, <2>1, <2>2
<1>8. pushed' - Len(req') = p - Len(req)
  BY <1>1, <1>3, <1>4, <1>6
<1>9. ASSUME NEW i \in 1..Len(req) PROVE i \in 1..Len(req') /\ req'[i] = req[i]
  <2>1. i \in 1..Len(req')
    BY <1>1, <1>3, <1>6
  <2>2. req[i] = p - Len(req) + i
    OBVIOUS
  <2> QED
    BY <1>7, <2>1, <2>2
<1> QED
  BY <1>1, <1>3, <1>4, <1>6, <1>7, <1>8, <1>9
-----------------------------------------------------------------------------
(* The steps that touch no number.                                          *)
SameNumbers ==
    /\ UNCHANGED <<sdMidx, sdReady, pfFail, passBase, req, pushed, consumed>>
    /\ (SdWrites' <=> SdWrites) /\ (SdWrites => sd'.midx = sd.midx)

LEMMA Quiet ==
    ASSUME TypeInv, QInv, SameNumbers, DoneTo' = DoneTo,
           Rereads' => Rereads /\ main'.pos = main.pos, Stages'
    PROVE  QInv'
<1>1. TakenTo' = TakenTo /\ (Rereads' => Midx' = Midx)
  BY DEF TakenTo, Midx, SameNumbers
<1>2. Order'
  BY <1>1 DEF QInv, Order, Queued, SameNumbers
<1>3. Numbers'
  BY <1>1 DEF QInv, Numbers, ReadySlots, SameNumbers
<1>4. Once'
  BY <1>1 DEF QInv, Once, Distinct, Absent, SameNumbers
<1> QED
  BY <1>2, <1>3, <1>4 DEF QInv

LEMMA QuietMain ==
    ASSUME TypeInv, QInv,
           SyncOpen \/ SyncPread \/ SyncMemcpy \/ SyncFails \/ UseEnd \/ NextForward
           \/ Shutdown \/ Join
    PROVE  QInv'
<1>1. SameNumbers
  BY DEF SyncOpen, SyncPread, SyncMemcpy, SyncFails, UseEnd, NextForward, Shutdown, Join,
         SameNumbers, SdWrites, slotVars, queueVars, sdVars
<1>2. main \in MainState /\ passBase \in Nat /\ main.pos \in 0..PassLen-1 /\ PassLen \in Nat
  BY QTypes
<1>3. CASE SyncOpen \/ SyncPread \/ SyncMemcpy
  <2>1. main'.pos = main.pos /\ Midx' = Midx /\ MainWrites /\ MainWrites'
    BY <1>2, <1>3 DEF SyncOpen, SyncPread, SyncMemcpy, MainState, MainWrites, Midx
  <2>2. DoneTo' = DoneTo
    BY <2>1 DEF DoneTo, MainWrites
  <2>3. Rereads' => Rereads
    BY <1>1, <2>1 DEF Rereads, MainWrites, SameNumbers
  <2>4. Stages'
    BY <2>1 DEF Stages, MainWrites
  <2> QED
    BY <1>1, <2>1, <2>2, <2>3, <2>4, Quiet
<1>4. CASE SyncFails
  <2>1. mainPC' = "exit" /\ main' = main /\ Midx' = Midx /\ mainPC \in {"sync", "pread"}
    BY <1>4 DEF SyncFails, Midx
  <2> QED
    BY <1>1, <2>1, Quiet DEF DoneTo, Rereads, MainWrites, Stages
<1>5. CASE UseEnd
  <2>1. \/ mainPC' = "use" /\ main'.pos = main.pos
        \/ mainPC' = "fetch" /\ main'.pos = main.pos + 1
        \/ mainPC' = "drain" /\ main'.pos = main.pos /\ main.pos = PassLen - 1
    BY <1>2, <1>5 DEF UseEnd, MainState
  <2>2. mainPC = "use" /\ passBase' = passBase
    BY <1>5 DEF UseEnd
  <2>3. DoneTo' = DoneTo
    BY <1>2, <2>1, <2>2 DEF DoneTo, Midx
  <2> QED
    BY <1>1, <2>1, <2>2, <2>3, Quiet DEF Rereads, MainWrites, Stages
<1>6. CASE NextForward
  <2>1. mainPC = "head" /\ mainPC' = "fetch" /\ main'.pos = 0 /\ passBase' = passBase
    BY <1>2, <1>6 DEF NextForward, MainState
  <2>2. DoneTo' = DoneTo
    BY <1>2, <2>1 DEF DoneTo, Midx
  <2> QED
    BY <1>1, <2>1, <2>2, Quiet DEF Rereads, MainWrites, Stages
<1>7. CASE Shutdown \/ Join
  <2>1. /\ mainPC \in {"head", "join"} /\ mainPC' \in {"join", "done"} /\ main' = main
        /\ passBase' = passBase
    BY <1>7 DEF Shutdown, Join
  <2>2. DoneTo' = DoneTo
    BY <2>1 DEF DoneTo
  <2>3. Stages'
    BY <1>1, <2>1 DEF Stages, QInv, SameNumbers
  <2> QED
    BY <1>1, <2>1, <2>2, <2>3, Quiet DEF Rereads, MainWrites
<1> QED
  BY <1>3, <1>4, <1>5, <1>6, <1>7

LEMMA QuietSd ==
    ASSUME TypeInv, QInv, SdLeave \/ SdWait \/ SdOpen \/ SdPread \/ SdMemcpy
    PROVE  QInv'
<1>1. SameNumbers /\ mainPC' = mainPC /\ main' = main
  BY QTypes DEF SdLeave, SdWait, SdOpen, SdPread, SdMemcpy, SameNumbers, SdWrites, SdState,
         slotVars, queueVars, sdVars, mainVars
<1>2. DoneTo' = DoneTo /\ (Rereads' <=> Rereads)
  BY <1>1 DEF DoneTo, Rereads, MainWrites, Midx, SameNumbers
<1>3. Stages'
  BY <1>1 DEF Stages, QInv, Midx, SameNumbers
<1> QED
  BY <1>1, <1>2, <1>3, Quiet
-----------------------------------------------------------------------------
(* The main thread takes its next matrix.                                   *)

\* What a step of the main thread owes that empties or marks slots.
LEMMA MainKeeps ==
    ASSUME TypeInv, TypeInv', QInv, UNCHANGED <<sdVars, passBase>>,
           Fewer(sdMidx', sdMidx), ReadySlots', pfFail' \subseteq pfFail,
           Queued', TakenTo' = TakenTo, consumed' <= DoneTo', DoneTo' <= TakenTo,
           SdWrites => DoneTo' < sd.midx, \A p \in pfFail' : DoneTo' < passBase + p,
           Rereads' => /\ Midx' <= TakenTo /\ main'.pos \notin pfFail'
                       /\ (SdWrites => sd.midx # Midx') /\ Absent(sdMidx, Midx'),
           Stages'
    PROVE  QInv'
<1>1. /\ sdMidx \in [Slots -> {Free, Reading} \cup Nat] /\ sdMidx' \in [Slots -> {Free, Reading} \cup Nat]
      /\ TakenTo \in Int /\ DoneTo \in Int /\ DoneTo >= passBase - 1 /\ passBase \in Nat
      /\ sd.midx \in Nat
  BY QTypes DEF TypeInv, TypeOK
<1>9. pfFail \subseteq Nat
  BY QTypes
<1>2. Midx' \in Nat
  <2>1. main' \in MainState /\ passBase' \in Nat
    BY DEF TypeInv, TypeOK
  <2> QED
    BY <2>1, PassLenPos DEF Midx, MainState
<1>3. (SdWrites' <=> SdWrites) /\ sd' = sd
  BY DEF SdWrites, sdVars
<1>4. /\ Distinct(sdMidx')
      /\ \A m \in Nat : Absent(sdMidx, m) => Absent(sdMidx', m)
      /\ \A s \in Slots : sdMidx'[s] <= TakenTo
  <2>1. TakenTo >= -1 /\ (\A s \in Slots : sdMidx[s] <= TakenTo) /\ Distinct(sdMidx)
    BY <1>1 DEF QInv, Order, Numbers, Once
  <2> QED
    BY <1>1, <2>1, FewerKeeps
<1>5. Order'
  BY DEF QInv, Order
<1>6. Numbers'
  BY <1>3, <1>4 DEF QInv, Numbers
<1>7. Once'
  <2>1. SdWrites => Absent(sdMidx', sd.midx) /\ \A p \in pfFail' : sd.midx # passBase + p
    BY <1>1, <1>9, <1>4 DEF QInv, Once
  <2>2. \A p \in pfFail' : passBase + p \in Nat /\ Absent(sdMidx', passBase + p)
    BY <1>1, <1>9, <1>4 DEF QInv, Once
  <2> QED
    BY <1>2, <1>3, <1>4, <2>1, <2>2 DEF Once
<1> QED
  BY <1>5, <1>6, <1>7 DEF QInv

\* A claim marks one of the slots that are empty after the release.
LEMMA ClaimKeeps ==
    ASSUME TypeInv, NEW sm \in [Slots -> {Free, Reading} \cup Nat], NEW W, NEW P,
           Fewer(sm, sdMidx), sdReady' \in [Slots -> BOOLEAN], 
           \A s \in Slots : sdReady'[s] <=> sm[s] >= 0, Claim(sm, W, P)
    PROVE  /\ Fewer(sdMidx', sdMidx) /\ ReadySlots'
           /\ mainPC' \in {"sync", P} /\ main'.pos = main.pos
<1>1. sdMidx \in [Slots -> {Free, Reading} \cup Nat] /\ main \in MainState
  BY QTypes
<1>2. CASE NoneFree(sm) /\ sdMidx' = sm /\ mainPC' = P /\ main' = main
  BY <1>2 DEF Fewer, ReadySlots
<1>3. ASSUME NEW s \in Slots, FirstFree(sm, s), sdMidx' = [sm EXCEPT ![s] = Reading],
             mainPC' = "sync", main' = [main EXCEPT !.slot = s]
      PROVE  /\ Fewer(sdMidx', sdMidx) /\ ReadySlots'
             /\ mainPC' \in {"sync", P} /\ main'.pos = main.pos
  <2>1. main'.pos = main.pos
    BY <1>1, <1>3 DEF MainState
  <2>2. sm[s] = Free /\ \A t \in Slots : sdMidx'[t] = IF t = s THEN Reading ELSE sm[t]
    BY <1>3 DEF FirstFree
  <2>3. ReadySlots'
    BY <2>2 DEF ReadySlots, Free, Reading
  <2>4. Fewer(sdMidx', sdMidx)
    BY <2>2 DEF Fewer
  <2> QED
    BY <1>3, <2>1, <2>3, <2>4
<1> QED
  BY <1>2, <1>3 DEF Claim

\* The release empties the slot of the matrix that has been multiplied.
LEMMA ReleaseFewer ==
    ASSUME TypeInv, ReadySlots
    PROVE  /\ ReleasedMidx \in [Slots -> {Free, Reading} \cup Nat]
           /\ ReleasedReady \in [Slots -> BOOLEAN] /\ Fewer(ReleasedMidx, sdMidx)
           /\ \A s \in Slots : ReleasedReady[s] <=> ReleasedMidx[s] >= 0
<1>1. sdMidx \in [Slots -> {Free, Reading} \cup Nat] /\ sdReady \in [Slots -> BOOLEAN]
  BY QTypes
<1>2. \A s \in Slots : ReleasedMidx[s] = (IF Released(s) THEN Free ELSE sdMidx[s])
                       /\ ReleasedReady[s] = (IF Released(s) THEN FALSE ELSE sdReady[s])
  BY DEF ReleasedMidx, ReleasedReady
<1>3. ReleasedReady \in [Slots -> BOOLEAN]
  BY <1>1 DEF ReleasedReady
<1>4. Fewer(ReleasedMidx, sdMidx)
  BY <1>2 DEF Fewer
<1>5. ASSUME NEW s \in Slots PROVE ReleasedReady[s] <=> ReleasedMidx[s] >= 0
  <2>1. CASE Released(s)
    <3>1. ReleasedMidx[s] = -1 /\ ReleasedReady[s] = FALSE
      BY <1>2, <2>1 DEF Free
    <3> QED
      BY <3>1
  <2>2. CASE ~Released(s)
    <3>1. ReleasedMidx[s] = sdMidx[s] /\ ReleasedReady[s] = sdReady[s]
      BY <1>2, <2>2
    <3> QED
      BY <3>1 DEF ReadySlots
  <2> QED
    BY <2>1, <2>2
<1> QED
  BY <1>3, <1>4, <1>5, ReleaseKeeps

\* A matrix handed over is the last one that is done.
LEMMA HandDone ==
    ASSUME TypeInv, NEW s \in Slots, Hand(s), passBase' = passBase
    PROVE  DoneTo' = Midx /\ mainPC' \in {"fetch", "use"}
<1>1. main \in MainState /\ passBase \in Nat /\ main.pos \in Nat
  BY QTypes
<1>2. \/ mainPC' = "fetch" /\ main'.pos = main.pos + 1
      \/ mainPC' = "use" /\ main'.pos = main.pos
  BY <1>1 DEF Hand, MainState
<1> QED
  BY <1>1, <1>2 DEF DoneTo, Midx
\* The wait for the matrix hands it over, claims a slot for it when its prefetch has
\* failed, or goes on waiting.
LEMMA AwaitKeeps ==
    ASSUME TypeInv, TypeInv', QInv, UNCHANGED <<sdVars, passBase>>,
           NEW sm \in [Slots -> {Free, Reading} \cup Nat], NEW R \in [Slots -> BOOLEAN], NEW W,
           Fewer(sm, sdMidx), \A s \in Slots : R[s] <=> sm[s] >= 0,
           mainPC \in {"fetch", "await"}, Queued', TakenTo' = TakenTo,
           consumed' <= Midx - 1, consumed' \in Int, AwaitMat(sm, R, W)
    PROVE  QInv'
<1>1. /\ sdMidx \in [Slots -> {Free, Reading} \cup Nat] /\ passBase \in Nat /\ Midx \in Nat
      /\ Midx = passBase + main.pos /\ TakenTo \in Int /\ DoneTo \in Int /\ sd.midx \in Nat
      /\ pfFail \subseteq 0..PassLen-1 /\ main.pos \in 0..PassLen-1 /\ PassLen \in Nat
  BY QTypes
<1>2. DoneTo = Midx - 1
  BY DEF DoneTo
<1>3. sdReady' = R
  BY DEF AwaitMat
<1>4. ASSUME NEW s \in Slots, sm[s] = Midx, R[s], Hand(s), sdMidx' = sm, pfFail' = pfFail
      PROVE  QInv'
  <2>1. DoneTo' = Midx /\ mainPC' \in {"fetch", "use"}
    BY <1>4, HandDone
  <2>2. sdMidx[s] = Midx
    BY <1>1, <1>4 DEF Fewer, Free, Reading
  <2>3. Midx <= TakenTo
    BY <2>2 DEF QInv, Numbers
  <2>4. SdWrites => Midx < sd.midx
    BY <1>1, <1>2, <2>2 DEF QInv, Numbers, Once, Absent
  <2>5. \A p \in pfFail : Midx < passBase + p
    BY <1>1, <1>2, <2>2 DEF QInv, Numbers, Once, Absent
  <2>6. ReadySlots'
    BY <1>3, <1>4 DEF ReadySlots
  <2>7. Stages' /\ ~Rereads'
    BY <2>1 DEF Stages, Rereads, MainWrites
  <2> QED
    BY <1>1, <1>4, <2>1, <2>3, <2>4, <2>5, <2>6, <2>7, MainKeeps
<1>5. ASSUME main.pos \in pfFail, pfFail' = pfFail \ {main.pos}, Claim(sm, W, "refill")
      PROVE  QInv'
  <2>1. /\ Fewer(sdMidx', sdMidx) /\ ReadySlots'
        /\ mainPC' \in {"sync", "refill"} /\ main'.pos = main.pos
    BY <1>3, <1>5, ClaimKeeps
  <2>2. DoneTo' = DoneTo /\ Midx' = Midx
    BY <1>2, <2>1 DEF DoneTo, Midx
  <2>3. Midx <= TakenTo /\ (SdWrites => sd.midx # Midx) /\ Absent(sdMidx, Midx)
    BY <1>1, <1>5 DEF QInv, Numbers, Once
  <2>4. Stages'
    BY <2>1 DEF Stages
  <2>5. SdWrites => DoneTo < sd.midx
    BY DEF QInv, Numbers
  <2>6. \A p \in pfFail' : DoneTo < passBase + p
    BY <1>5 DEF QInv, Numbers
  <2>7. consumed' <= DoneTo' /\ DoneTo' <= TakenTo
    BY <1>1, <1>2, <2>2, <2>3
  <2>8. pfFail' \subseteq pfFail /\ main'.pos \notin pfFail'
    BY <1>5, <2>1
  <2> QED
    BY <2>1, <2>2, <2>3, <2>4, <2>5, <2>6, <2>7, <2>8, MainKeeps
<1>6. ASSUME mainPC' = "await", main' = main, sdMidx' = sm, pfFail' = pfFail
      PROVE  QInv'
  <2>1. DoneTo' = DoneTo /\ ~Rereads' /\ Stages'
    BY <1>2, <1>6 DEF DoneTo, Midx, Rereads, MainWrites, Stages
  <2>2. ReadySlots' /\ Fewer(sdMidx', sdMidx)
    BY <1>3, <1>6 DEF ReadySlots
  <2>3. DoneTo <= TakenTo /\ (SdWrites => DoneTo < sd.midx) /\ \A p \in pfFail : DoneTo < passBase + p
    BY DEF QInv, Order, Numbers
  <2> QED
    BY <1>2, <1>6, <2>1, <2>2, <2>3, MainKeeps
<1> QED
  BY <1>4, <1>5, <1>6 DEF AwaitMat

LEMMA FetchColdKeeps ==
    ASSUME TypeInv, TypeInv', QInv, FetchCold
    PROVE  QInv'
<1>1. /\ mainPC = "fetch" /\ Midx > pushed /\ consumed' = Midx - 1 /\ sdReady' = ReleasedReady
      /\ Claim(ReleasedMidx, reqWait, "cold") /\ pfFail' = pfFail
      /\ UNCHANGED <<req, pushed, passBase, sdVars>>
  BY DEF FetchCold
<1>2. /\ ReadySlots' /\ Fewer(sdMidx', sdMidx) /\ mainPC' \in {"sync", "cold"} /\ main'.pos = main.pos
  <2>1. ReadySlots
    BY DEF QInv, Numbers
  <2> QED
    BY <1>1, <2>1, ReleaseFewer, ClaimKeeps
<1>3. DoneTo' = DoneTo /\ DoneTo = Midx - 1 /\ Midx' = Midx /\ TakenTo' = TakenTo
  BY <1>1, <1>2 DEF DoneTo, Midx, TakenTo
<1>4. ~Rereads' /\ Stages'
  BY <1>1, <1>2, <1>3, QTypes DEF Rereads, MainWrites, Stages
<1>5. DoneTo <= TakenTo /\ (SdWrites => DoneTo < sd.midx) /\ \A p \in pfFail : DoneTo < passBase + p
  BY DEF QInv, Order, Numbers
<1>6. Queued'
  BY <1>1, <1>3 DEF QInv, Order, Queued
<1> QED
  BY <1>1, <1>2, <1>3, <1>4, <1>5, <1>6, QTypes, MainKeeps

\* Topping up leaves the matrices that have left the queue as they were.
LEMMA TopupKeeps ==
    ASSUME TypeInv, QInv, NEW c \in Int, c <= TakenTo, Topup(pushed, c), passBase' = passBase
    PROVE  Queued' /\ TakenTo' = TakenTo
<1>1. /\ pushed \in Nat \cup {-1} /\ passBase \in Nat /\ req \in Seq(Nat)
      /\ pushed < passBase + PassLen /\ Len(req) <= QCap /\ Len(req) <= Lookahead
      /\ \A i \in 1..Len(req) : req[i] = pushed - Len(req) + i
  BY QTypes DEF QInv, Order, Queued, TakenTo
<1>2. c <= pushed - Len(req)
  BY DEF TakenTo
<1> QED
  BY <1>1, <1>2, TopupQueue DEF Queued, TakenTo

LEMMA FetchPipelinedKeeps ==
    ASSUME TypeInv, TypeInv', QInv, FetchPipelined
    PROVE  QInv'
<1>1. /\ mainPC = "fetch" /\ consumed' = Midx - 1 /\ Topup(pushed, Midx - 1)
      /\ AwaitMat(ReleasedMidx, ReleasedReady, Signalled) /\ UNCHANGED <<passBase, sdVars>>
  BY DEF FetchPipelined
<1>2. Midx \in Nat /\ Midx - 1 <= TakenTo
  BY <1>1, QTypes DEF QInv, Order, DoneTo
<1>3. Queued' /\ TakenTo' = TakenTo
  BY <1>1, <1>2, TopupKeeps
<1>4. ReadySlots
  BY DEF QInv, Numbers
<1> QED
  BY <1>1, <1>2, <1>3, <1>4, ReleaseFewer, AwaitKeeps

LEMMA AwaitWokenKeeps ==
    ASSUME TypeInv, TypeInv', QInv, AwaitWoken
    PROVE  QInv'
<1>1. /\ mainPC = "await" /\ AwaitMat(sdMidx, sdReady, reqWait)
      /\ UNCHANGED <<req, pushed, consumed, passBase, sdVars>>
  BY DEF AwaitWoken, queueVars
<1>2. Queued' /\ TakenTo' = TakenTo
  BY <1>1 DEF QInv, Order, Queued, TakenTo
<1>3. consumed' <= Midx - 1 /\ consumed' \in Int
  BY <1>1, QTypes DEF QInv, Order, DoneTo
<1>4. ReadySlots /\ Fewer(sdMidx, sdMidx)
  BY DEF QInv, Numbers, Fewer
<1> QED
  BY <1>1, <1>2, <1>3, <1>4, QTypes, AwaitKeeps DEF ReadySlots

LEMMA ClaimWokenKeeps ==
    ASSUME TypeInv, TypeInv', QInv, ClaimWoken
    PROVE  QInv'
<1>1. /\ mainPC \in {"cold", "refill"} /\ Claim(sdMidx, reqWait, mainPC) /\ sdReady' = sdReady
      /\ UNCHANGED <<pfFail, req, pushed, consumed, passBase, sdVars>>
  BY DEF ClaimWoken, queueVars
<1>2. /\ Fewer(sdMidx', sdMidx) /\ ReadySlots' /\ mainPC' \in {"sync", mainPC} /\ main'.pos = main.pos
  BY <1>1, QTypes, ClaimKeeps DEF QInv, Numbers, ReadySlots, Fewer
<1>3. DoneTo' = DoneTo /\ Midx' = Midx /\ TakenTo' = TakenTo
  BY <1>1, <1>2 DEF DoneTo, Midx, TakenTo
<1>4. mainPC = "cold" => Midx > pushed
  BY DEF QInv, Stages
<1>5. Stages'
  BY <1>1, <1>2, <1>3, <1>4 DEF Stages
<1>6. Rereads' => Rereads
  BY <1>1, <1>2, <1>3, <1>4, QTypes DEF Rereads, MainWrites
<1>7. /\ consumed <= DoneTo /\ DoneTo <= TakenTo
      /\ (SdWrites => DoneTo < sd.midx) /\ \A p \in pfFail : DoneTo < passBase + p
      /\ Rereads => /\ Midx <= TakenTo /\ main.pos \notin pfFail
                    /\ (SdWrites => sd.midx # Midx) /\ Absent(sdMidx, Midx)
  BY DEF QInv, Order, Numbers, Once
<1>8. Queued'
  BY <1>1, <1>3 DEF QInv, Order, Queued
<1> QED
  BY <1>1, <1>2, <1>3, <1>5, <1>6, <1>7, <1>8, MainKeeps
\* The matrix the main thread has read is in its slot.  After a cold read the queue was
\* empty and the prefetch thread idle, and the matrix is the last one pushed.
LEMMA ColdIdle ==
    ASSUME TypeInv, QInv, mainPC \in {"fetch", "cold"} \cup {"sync", "pread", "memcpy", "place"},
           Midx > pushed
    PROVE  pushed = Midx - 1 /\ Len(req) = 0 /\ TakenTo = Midx - 1 /\ ~SdWrites /\ pfFail = {}
<1>1. /\ Midx \in Nat /\ pushed \in Int /\ Len(req) \in Nat /\ sd.midx \in Nat /\ passBase \in Nat
      /\ pfFail \subseteq Nat
  <2>1. pfFail \subseteq 0..PassLen-1 /\ PassLen \in Nat
    BY QTypes
  <2>2. pfFail \subseteq Nat
    BY <2>1
  <2> QED
    BY <2>2, QTypes
<1>2. DoneTo = Midx - 1 /\ DoneTo <= TakenTo
  BY DEF DoneTo, QInv, Order
<1>3. pushed = Midx - 1 /\ Len(req) = 0 /\ TakenTo = Midx - 1
  BY <1>1, <1>2 DEF TakenTo
<1>4. ~SdWrites /\ pfFail = {}
  BY <1>1, <1>2, <1>3 DEF QInv, Numbers
<1> QED
  BY <1>3, <1>4

LEMMA SyncPlaceKeeps ==
    ASSUME TypeInv, TypeInv', QInv, SyncPlace
    PROVE  QInv'
<1>1. /\ sdMidx \in [Slots -> {Free, Reading} \cup Nat] /\ sdReady \in [Slots -> BOOLEAN]
      /\ passBase \in Nat /\ Midx \in Nat /\ pushed \in Nat \cup {-1} /\ consumed \in Int /\ Len(req) \in Nat
      /\ Midx = passBase + main.pos /\ TakenTo \in Int /\ DoneTo \in Int /\ sd.midx \in Nat
      /\ main.pos \in 0..PassLen-1 /\ PassLen \in Nat /\ main.slot \in Slots /\ req \in Seq(Nat)
      /\ QCap \in Nat /\ Lookahead \in Nat
  BY QTypes
<1>2. pfFail \subseteq Nat
  <2>1. pfFail \subseteq 0..PassLen-1
    BY QTypes
  <2> QED
    BY <2>1, <1>1
<1>3. /\ mainPC = "place" /\ sdMidx' = [sdMidx EXCEPT ![main.slot] = Midx]
      /\ sdReady' = [sdReady EXCEPT ![main.slot] = TRUE] /\ Hand(main.slot)
      /\ UNCHANGED <<consumed, pfFail, passBase, sdVars>>
  BY DEF SyncPlace
<1>4. DoneTo' = Midx /\ mainPC' \in {"fetch", "use"} /\ DoneTo = Midx - 1
  BY <1>1, <1>3, HandDone DEF DoneTo
<1>5. (SdWrites' <=> SdWrites) /\ sd' = sd /\ ~Rereads' /\ Stages'
  BY <1>3, <1>4 DEF SdWrites, sdVars, Rereads, MainWrites, Stages
<1>6. \A s \in Slots : sdMidx'[s] = (IF s = main.slot THEN Midx ELSE sdMidx[s])
                       /\ sdReady'[s] = (IF s = main.slot THEN TRUE ELSE sdReady[s])
  BY <1>1, <1>3
<1>7. ReadySlots'
  <2> SUFFICES ASSUME NEW s \in Slots PROVE (sdReady'[s] <=> sdMidx'[s] >= 0)
    BY DEF ReadySlots
  <2>1. CASE s = main.slot
    <3>1. sdMidx'[s] = Midx /\ sdReady'[s] = TRUE
      BY <1>6, <2>1
    <3>2. Midx >= 0
      BY <1>1
    <3> QED
      BY <3>1, <3>2
  <2>2. CASE s # main.slot
    BY <1>6, <2>2 DEF QInv, Numbers, ReadySlots
  <2> QED
    BY <2>1, <2>2
<1>8. consumed <= Midx
  BY <1>1, <1>4 DEF QInv, Order
<1>9. CASE Midx > pushed /\ Topup(Midx, consumed)
  <2>1. pushed = Midx - 1 /\ Len(req) = 0 /\ TakenTo = Midx - 1 /\ ~SdWrites /\ pfFail = {}
    BY <1>3, <1>9, ColdIdle
  <2>2. /\ pushed' - Len(req') = Midx /\ \A i \in 1..Len(req') : req'[i] = pushed' - Len(req') + i
        /\ pushed' < passBase + PassLen /\ Len(req') <= QCap /\ Len(req') <= Lookahead
    <3>1. /\ Midx < passBase + PassLen /\ consumed <= Midx - Len(req)
          /\ \A i \in 1..Len(req) : req[i] = Midx - Len(req) + i
      BY <1>1, <1>8, <2>1
    <3> HIDE DEF Midx
    <3> QED
      BY <1>1, <1>9, <2>1, <3>1, TopupQueue
  <2>3. TakenTo' = Midx /\ Queued'
    BY <1>3, <2>2 DEF TakenTo, Queued
  <2>4. \A s \in Slots : sdMidx[s] <= Midx - 1
    BY <2>1 DEF QInv, Numbers
  <2>5. Order'
    BY <1>1, <1>3, <1>4, <1>8, <2>3 DEF Order, QInv
  <2>6. Numbers'
    <3>1. \A s \in Slots : sdMidx'[s] <= Midx
      <4> SUFFICES ASSUME NEW s \in Slots PROVE sdMidx'[s] <= Midx
        OBVIOUS
      <4>1. sdMidx[s] <= Midx - 1
        BY <2>4
      <4>2. sdMidx[s] \in {Free, Reading} \cup Nat
        BY <1>1
      <4>3. sdMidx[s] \in Int
        BY <4>2 DEF Free, Reading
      <4>4. sdMidx'[s] = (IF s = main.slot THEN Midx ELSE sdMidx[s])
        BY <1>6
      <4>5. Midx \in Nat
        BY <1>1
      <4> HIDE DEF Midx
      <4> QED
        BY <4>1, <4>3, <4>4, <4>5
    <3> QED
      BY <1>3, <1>5, <1>7, <2>1, <2>3, <3>1 DEF Numbers
  <2>7. Distinct(sdMidx')
    <3>1. \A s \in Slots : sdMidx[s] # Midx
      BY <1>1, <2>4
    <3> QED
      BY <1>6, <3>1 DEF Distinct, QInv, Once
  <2> QED
    BY <1>3, <1>5, <2>1, <2>5, <2>6, <2>7 DEF QInv, Once
<1>10. CASE Midx <= pushed /\ req' = req /\ pushed' = pushed
  <2>1. /\ Midx <= TakenTo /\ main.pos \notin pfFail /\ (SdWrites => sd.midx # Midx) /\ Absent(sdMidx, Midx)
    BY <1>3, <1>10 DEF QInv, Numbers, Once, Rereads, MainWrites
  <2>2. TakenTo' = TakenTo /\ Queued'
    BY <1>3, <1>10 DEF TakenTo, Queued, QInv, Order
  <2>3. Order'
    BY <1>1, <1>3, <1>4, <1>8, <2>1, <2>2 DEF Order, QInv
  <2>4. (SdWrites => Midx < sd.midx) /\ \A p \in pfFail : passBase + p # Midx /\ Midx < passBase + p
    <3>1. (SdWrites => Midx - 1 < sd.midx) /\ \A p \in pfFail : Midx - 1 < passBase + p
      BY <1>4 DEF QInv, Numbers
    <3>2. SdWrites => Midx < sd.midx
      BY <1>1, <2>1, <3>1
    <3>3. ASSUME NEW p \in pfFail PROVE passBase + p # Midx /\ Midx < passBase + p
      <4>1. p \in Nat /\ p # main.pos /\ Midx - 1 < passBase + p
        BY <1>2, <2>1, <3>1
      <4> QED
        BY <1>1, <4>1
    <3> QED
      BY <3>2, <3>3
  <2>5. Numbers'
    BY <1>1, <1>3, <1>4, <1>5, <1>6, <1>7, <2>1, <2>2, <2>4 DEF Numbers, QInv
  <2>6. Distinct(sdMidx')
    BY <1>1, <1>6, <2>1 DEF Distinct, Absent, QInv, Once
  <2>7. SdWrites => Absent(sdMidx', sd.midx)
    BY <1>6, <2>1 DEF Absent, QInv, Once
  <2>8. \A p \in pfFail : Absent(sdMidx', passBase + p)
    BY <1>6, <2>4 DEF Absent, QInv, Once
  <2>9. Once'
    BY <1>3, <1>5, <2>6, <2>7, <2>8 DEF Once, QInv
  <2> QED
    BY <1>5, <2>3, <2>5, <2>9 DEF QInv
<1> QED
  BY <1>9, <1>10 DEF SyncPlace

\* ion_drain is over when the queue is empty and nothing is being read; nothing is
\* marked failed then: everything pushed has been multiplied.
LEMMA DrainIdle ==
    ASSUME TypeInv, QInv, mainPC = "drain", Len(req) = 0, busy = 0
    PROVE  /\ ~SdWrites /\ pfFail = {} /\ TakenTo = pushed /\ DoneTo = passBase + PassLen - 1
           /\ passBase \in Nat /\ PassLen \in Nat \ {0} /\ pushed \in Int
<1>1. /\ passBase \in Nat /\ PassLen \in Nat \ {0} /\ TakenTo \in Int /\ pushed \in Int /\ sd.midx \in Nat
      /\ pfFail \subseteq 0..PassLen-1 /\ Midx = passBase + main.pos
  BY QTypes
<1>2. pfFail \subseteq Nat
  BY <1>1
<1>3. ~SdWrites
  BY DEF TypeInv, SdThreadInv
<1>4. main.pos = PassLen - 1
  BY DEF QInv, Stages
<1>5. DoneTo = passBase + PassLen - 1 /\ pushed < passBase + PassLen /\ DoneTo <= TakenTo /\ TakenTo = pushed
  BY <1>1, <1>4 DEF DoneTo, QInv, Order, Queued, TakenTo
<1>6. pfFail = {}
  BY <1>1, <1>2, <1>5 DEF QInv, Numbers
<1> QED
  BY <1>1, <1>3, <1>5, <1>6

\* The numbers go on with the next pass.
LEMMA DrainKeeps ==
    ASSUME TypeInv, QInv, Drain
    PROVE  QInv'
<1>1. /\ UNCHANGED <<sdMidx, sdReady, pfFail, req, pushed, consumed, sdVars, main>> /\ mainPC = "drain"
  BY DEF Drain, slotVars, queueVars, mainVars
<1>2. CASE UNCHANGED <<mainVars, passBase>>
  <2>1. SameNumbers /\ DoneTo' = DoneTo /\ (Rereads' <=> Rereads) /\ Stages'
    BY <1>1, <1>2 DEF SameNumbers, SdWrites, sdVars, mainVars, DoneTo, Midx, Rereads, MainWrites,
           Stages, QInv
  <2> QED
    BY <1>1, <2>1, Quiet
<1>3. CASE Len(req) = 0 /\ busy = 0 /\ passBase' = passBase + PassLen /\ mainPC' = "head"
  <2>1. /\ passBase \in Nat /\ PassLen \in Nat \ {0} /\ pushed \in Int /\ pfFail = {} /\ ~SdWrites
        /\ DoneTo = passBase + PassLen - 1 /\ TakenTo = pushed
    BY <1>1, <1>3, DrainIdle
  <2>2. pushed < passBase + PassLen
    BY DEF QInv, Order, Queued
  <2>3. DoneTo' = DoneTo /\ TakenTo' = TakenTo /\ ~Rereads' /\ (SdWrites' <=> SdWrites)
    BY <1>1, <1>3, <2>1 DEF DoneTo, TakenTo, Rereads, MainWrites, SdWrites, sdVars
  <2>4. \E k \in Nat : passBase' = PassLen * k
    <3>1. PICK k \in Nat : passBase = PassLen * k
      BY DEF QInv, Order
    <3>2. PassLen * (k + 1) = (PassLen * k) + PassLen
      BY <2>1, MulSucc
    <3> QED
      BY <1>3, <3>1, <3>2
  <2>5. Queued'
    BY <1>1, <1>3, <2>1, <2>2, <2>3 DEF Queued, QInv, Order
  <2>6. Order'
    BY <1>1, <2>3, <2>4, <2>5 DEF Order, QInv
  <2>7. Numbers' /\ Once'
    BY <1>1, <2>1, <2>3 DEF Numbers, ReadySlots, Once, Distinct, QInv
  <2>8. Stages'
    BY <1>1, <1>3, <2>1, <2>3 DEF Stages
  <2> QED
    BY <2>6, <2>7, <2>8 DEF QInv
<1> QED
  BY <1>2, <1>3 DEF Drain
-----------------------------------------------------------------------------
(* The prefetch thread takes the head of the queue and puts it into a slot.  *)
LEMMA SdTakeKeeps ==
    ASSUME TypeInv, QInv, SdTake
    PROVE  QInv'
<1>1. /\ sdMidx \in [Slots -> {Free, Reading} \cup Nat] /\ req \in Seq(Nat) /\ Len(req) \in Nat
      /\ pushed \in Int /\ consumed \in Int /\ passBase \in Nat /\ DoneTo \in Int /\ TakenTo \in Int
      /\ sd \in SdState /\ DoneTo >= passBase - 1 /\ pfFail \subseteq 0..PassLen-1 /\ Midx \in Nat
      /\ QCap \in Nat /\ Lookahead \in Nat
  BY QTypes
<1>2. PICK s \in Slots : /\ FirstFree(sdMidx, s) /\ sdMidx' = [sdMidx EXCEPT ![s] = Reading]
                         /\ sdPC' = "open" /\ sd' = [sd EXCEPT !.midx = Head(req), !.slot = s]
  BY DEF SdTake
<1>3. /\ Len(req) > 0 /\ req' = Tail(req) /\ sdPC = "loop"
      /\ UNCHANGED <<sdReady, pushed, consumed, pfFail, passBase, mainPC, main>>
  BY DEF SdTake, mainVars
<1>4. sd'.midx = Head(req) /\ SdWrites' /\ ~SdWrites
  BY <1>1, <1>2, <1>3 DEF SdState, SdWrites
<1>5. /\ Len(req') = Len(req) - 1 /\ Head(req) = req[1]
      /\ \A i \in 1..Len(req') : req'[i] = req[i + 1] /\ i + 1 \in 1..Len(req)
  BY <1>1, <1>3
<1>6. Head(req) = TakenTo + 1 /\ TakenTo' = TakenTo + 1
  <2>1. 1 \in 1..Len(req)
    BY <1>1, <1>3
  <2>2. req[1] = TakenTo + 1
    BY <2>1 DEF QInv, Order, Queued
  <2>3. TakenTo' = pushed - (Len(req) - 1)
    BY <1>3, <1>5 DEF TakenTo
  <2> QED
    BY <1>1, <1>5, <2>2, <2>3 DEF TakenTo
<1>7. DoneTo' = DoneTo /\ (Rereads' <=> Rereads) /\ (MainWrites' <=> MainWrites) /\ Midx' = Midx
  BY <1>3 DEF DoneTo, Rereads, MainWrites, Midx
<1>8. \A t \in Slots : sdMidx'[t] = (IF t = s THEN Reading ELSE sdMidx[t]) /\ sdMidx[s] = Free
  BY <1>1, <1>2 DEF FirstFree
<1>9. Order'
  <2>1. DoneTo <= TakenTo /\ pushed < passBase + PassLen /\ Len(req) <= QCap /\ Len(req) <= Lookahead
    BY DEF QInv, Order, Queued
  <2>2. \A i \in 1..Len(req') : req'[i] = TakenTo' + i
    <3> SUFFICES ASSUME NEW i \in 1..Len(req') PROVE req'[i] = TakenTo' + i
      OBVIOUS
    <3>1. req'[i] = TakenTo + (i + 1) /\ i \in Nat
      BY <1>1, <1>5 DEF QInv, Order, Queued
    <3> QED
      BY <1>1, <1>6, <3>1
  <2>3. Queued'
    BY <1>1, <1>3, <1>5, <2>1, <2>2 DEF Queued
  <2> QED
    BY <1>1, <1>3, <1>6, <1>7, <2>1, <2>3 DEF Order, QInv
<1>10. \A t \in Slots : sdMidx[t] <= TakenTo /\ sdMidx[t] \in Int
  BY <1>1 DEF QInv, Numbers, Free, Reading
<1>11. \A p \in pfFail : p \in Int /\ DoneTo < passBase + p /\ passBase + p <= TakenTo
  BY <1>1 DEF QInv, Numbers
<1>12. Rereads => Midx <= TakenTo
  BY DEF QInv, Numbers
<1>13. Numbers'
  <2>1. ReadySlots'
    BY <1>3, <1>8 DEF ReadySlots, QInv, Numbers, Free, Reading
  <2>2. \A t \in Slots : sdMidx'[t] <= TakenTo'
    BY <1>1, <1>6, <1>8, <1>10 DEF QInv, Order, Reading
  <2>3. DoneTo' < sd'.midx /\ sd'.midx <= TakenTo'
    BY <1>1, <1>4, <1>6, <1>7 DEF QInv, Order
  <2>4. \A p \in pfFail' : DoneTo' < passBase' + p /\ passBase' + p <= TakenTo'
    BY <1>1, <1>3, <1>6, <1>7, <1>11
  <2>5. Rereads' => Midx' <= TakenTo'
    BY <1>1, <1>6, <1>7, <1>12
  <2> QED
    BY <2>1, <2>2, <2>3, <2>4, <2>5 DEF Numbers
<1>14. Fewer(sdMidx', sdMidx)
  BY <1>8 DEF Fewer
<1>15. /\ Distinct(sdMidx') /\ Absent(sdMidx', TakenTo + 1)
       /\ \A p \in pfFail : Absent(sdMidx', passBase + p)
       /\ Rereads => Absent(sdMidx', Midx)
  <2>1. Absent(sdMidx, TakenTo + 1)
    BY <1>1, <1>10 DEF Absent
  <2>2. Absent(sdMidx', TakenTo + 1)
    BY <1>1, <1>6, <1>8, <2>1 DEF Absent, Reading, QInv, Order
  <2>3. \A p \in pfFail : Absent(sdMidx', passBase + p)
    BY <1>1, <1>8, <1>11 DEF Absent, Reading, QInv, Once
  <2>4. Distinct(sdMidx')
    BY <1>8 DEF Distinct, Reading, QInv, Once
  <2>5. Rereads => Absent(sdMidx', Midx)
    BY <1>1, <1>8 DEF Absent, Reading, QInv, Once
  <2> QED
    BY <2>2, <2>3, <2>4, <2>5
<1>16. Once'
  <2>1. \A p \in pfFail : TakenTo + 1 # passBase + p
    BY <1>1, <1>11
  <2>2. Rereads => TakenTo + 1 # Midx
    BY <1>1, <1>12
  <2> QED
    BY <1>3, <1>4, <1>6, <1>7, <1>15, <2>1, <2>2 DEF Once, QInv
<1>17. Stages'
  <2>1. ~(mainPC \in {"head", "join", "done"})
    BY <1>3 DEF QInv, Stages
  <2> QED
    BY <1>3, <1>7, <2>1 DEF QInv, Stages
<1> QED
  BY <1>9, <1>13, <1>16, <1>17 DEF QInv

\* What the two ends of a request have in common: nothing is being read any more.
SdEnds ==
    /\ SdWrites /\ ~SdWrites'
    /\ UNCHANGED <<passBase, req, pushed, consumed, main, mainPC>>

LEMMA SdEndKeeps ==
    ASSUME TypeInv, QInv, SdEnds
    PROVE  /\ Order' /\ Stages' /\ DoneTo' = DoneTo /\ TakenTo' = TakenTo /\ Midx' = Midx
           /\ (Rereads' <=> Rereads) /\ passBase' = passBase /\ main' = main
<1>1. DoneTo' = DoneTo /\ TakenTo' = TakenTo /\ Midx' = Midx /\ (Rereads' <=> Rereads)
  BY DEF SdEnds, DoneTo, TakenTo, Midx, Rereads, MainWrites
<1> QED
  BY <1>1 DEF SdEnds, QInv, Order, Queued, Stages

\* The file could not be opened: the slot is empty again.
LEMMA SdNoFdKeeps ==
    ASSUME TypeInv, QInv, SlotInv, SdNoFd
    PROVE  QInv'
<1>1. /\ sdMidx \in [Slots -> {Free, Reading} \cup Nat] /\ sd.slot \in Slots
      /\ passBase \in Nat /\ DoneTo \in Int /\ TakenTo \in Int /\ pfFail \subseteq 0..PassLen-1
      /\ Midx \in Nat /\ PassLen \in Nat /\ DoneTo >= passBase - 1
  BY QTypes
<1>2. /\ SdEnds /\ sdMidx' = [sdMidx EXCEPT ![sd.slot] = Free] /\ UNCHANGED <<sdReady, pfFail>>
  BY DEF SdNoFd, SdEnds, SdWrites, queueVars, mainVars
<1>3. sdMidx[sd.slot] = Reading
  BY <1>2 DEF SdEnds, SlotInv
<1>4. \A t \in Slots : sdMidx'[t] = (IF t = sd.slot THEN Free ELSE sdMidx[t])
  BY <1>1, <1>2
<1>5. sdMidx' \in [Slots -> {Free, Reading} \cup Nat] /\ Fewer(sdMidx', sdMidx)
  BY <1>1, <1>2, <1>4 DEF Fewer
<1>6. pfFail \subseteq Nat
  BY <1>1
<1>7. Numbers'
  <2>1. ReadySlots'
    BY <1>2, <1>3, <1>4 DEF ReadySlots, QInv, Numbers, Free, Reading
  <2>2. \A t \in Slots : sdMidx'[t] <= TakenTo
    BY <1>1, <1>5, FewerKeeps DEF QInv, Order, Numbers
  <2> QED
    BY <1>2, <2>1, <2>2, SdEndKeeps DEF Numbers, QInv, SdEnds
<1>8. Once'
  <2>1. Distinct(sdMidx') /\ \A m \in Nat : Absent(sdMidx, m) => Absent(sdMidx', m)
    BY <1>1, <1>5, FewerKeeps DEF QInv, Once
  <2>2. \A p \in pfFail : passBase + p \in Nat
    BY <1>1, <1>6
  <2> QED
    BY <1>1, <1>2, <2>1, <2>2, SdEndKeeps DEF Once, QInv, SdEnds
<1> QED
  BY <1>2, <1>7, <1>8, SdEndKeeps DEF QInv

\* The matrix being read is of the pass, so its position is what the code computes.
LEMMA SdPosition ==
    ASSUME TypeInv, QInv, SdWrites
    PROVE  SdPos \in 0..PassLen-1 /\ passBase + SdPos = sd.midx
<1>1. /\ passBase \in Nat /\ sd.midx \in Nat /\ DoneTo \in Int /\ TakenTo \in Int /\ Len(req) \in Nat
      /\ pushed \in Int /\ PassLen \in Nat \ {0} /\ DoneTo >= passBase - 1
  BY QTypes
<1>2. passBase <= sd.midx /\ sd.midx < passBase + PassLen
  <2>1. DoneTo < sd.midx /\ sd.midx <= TakenTo /\ pushed < passBase + PassLen
    BY DEF QInv, Numbers, Order, Queued
  <2>2. TakenTo <= pushed
    BY <1>1 DEF TakenTo
  <2> QED
    BY <1>1, <2>1, <2>2
<1>3. PICK k \in Nat : passBase = PassLen * k
  BY DEF QInv, Order
<1>4. sd.midx % PassLen = sd.midx - passBase
  BY <1>1, <1>2, <1>3, PosOf
<1> QED
  BY <1>1, <1>2, <1>4 DEF SdPos
\* The matrix is published, or marked failed for the main thread to read.
LEMMA SdPublishKeeps ==
    ASSUME TypeInv, QInv, SlotInv, SdPublish
    PROVE  QInv'
<1>1. /\ sdMidx \in [Slots -> {Free, Reading} \cup Nat] /\ sdReady \in [Slots -> BOOLEAN]
      /\ sd.slot \in Slots /\ sd.midx \in Nat /\ Midx \in Nat /\ Midx = passBase + main.pos
      /\ passBase \in Nat /\ DoneTo \in Int /\ TakenTo \in Int /\ pfFail \subseteq 0..PassLen-1
      /\ PassLen \in Nat /\ main.pos \in 0..PassLen-1
  BY QTypes
<1>2. SdEnds
  BY DEF SdPublish, SdEnds, SdWrites, queueVars, mainVars
<1>3. sdMidx[sd.slot] = Reading
  BY <1>2 DEF SdEnds, SlotInv
<1>4. SdPos \in 0..PassLen-1 /\ passBase + SdPos = sd.midx
  BY <1>2, SdPosition DEF SdEnds
<1>5. pfFail \subseteq Nat
  BY <1>1
<1>6. /\ DoneTo < sd.midx /\ sd.midx <= TakenTo /\ Absent(sdMidx, sd.midx)
      /\ Rereads => sd.midx # Midx
  BY <1>2 DEF SdEnds, QInv, Numbers, Once
<1>7. CASE /\ sdMidx' = [sdMidx EXCEPT ![sd.slot] = sd.midx]
           /\ sdReady' = [sdReady EXCEPT ![sd.slot] = TRUE] /\ pfFail' = pfFail \ {SdPos}
  <2>1. \A t \in Slots : sdMidx'[t] = (IF t = sd.slot THEN sd.midx ELSE sdMidx[t])
    BY <1>1, <1>7
  <2>2. ReadySlots'
    <3> SUFFICES ASSUME NEW t \in Slots PROVE (sdReady'[t] <=> sdMidx'[t] >= 0)
      BY DEF ReadySlots
    <3>1. CASE t = sd.slot
      <4>1. sdMidx'[t] = sd.midx /\ sdReady'[t] = TRUE /\ sd.midx >= 0
        BY <1>1, <1>7, <2>1, <3>1
      <4> QED
        BY <4>1
    <3>2. CASE t # sd.slot
      <4>1. sdMidx'[t] = sdMidx[t] /\ sdReady'[t] = sdReady[t]
        BY <1>1, <1>7, <3>2
      <4> QED
        BY <4>1 DEF QInv, Numbers, ReadySlots
    <3> QED
      BY <3>1, <3>2
  <2>3. \A t \in Slots : sdMidx'[t] <= TakenTo
    BY <1>6, <2>1 DEF QInv, Numbers
  <2>4. \A p \in pfFail' : p \in pfFail /\ passBase + p # sd.midx
    BY <1>2, <1>7 DEF SdEnds, QInv, Once
  <2>5. Numbers'
    BY <1>2, <2>2, <2>3, <2>4, SdEndKeeps DEF Numbers, QInv, SdEnds
  <2>6. Distinct(sdMidx')
    BY <1>6, <2>1 DEF Distinct, Absent, QInv, Once
  <2>7. \A p \in pfFail' : Absent(sdMidx', passBase + p)
    BY <2>1, <2>4 DEF Absent, QInv, Once
  <2>8. Rereads => main.pos \notin pfFail' /\ Absent(sdMidx', Midx)
    BY <1>6, <1>7, <2>1 DEF Absent, QInv, Once
  <2>9. Once'
    BY <1>2, <2>6, <2>7, <2>8, SdEndKeeps DEF Once, SdEnds
  <2> QED
    BY <1>2, <2>5, <2>9, SdEndKeeps DEF QInv
<1>8. CASE /\ sdMidx' = [sdMidx EXCEPT ![sd.slot] = Free]
           /\ sdReady' = sdReady /\ pfFail' = pfFail \cup {SdPos}
  <2>1. \A t \in Slots : sdMidx'[t] = (IF t = sd.slot THEN Free ELSE sdMidx[t])
    BY <1>1, <1>8
  <2>2. ReadySlots'
    BY <1>3, <1>8, <2>1 DEF ReadySlots, QInv, Numbers, Free, Reading
  <2>3. sdMidx' \in [Slots -> {Free, Reading} \cup Nat] /\ Fewer(sdMidx', sdMidx)
    BY <1>1, <1>8, <2>1 DEF Fewer
  <2>4. /\ Distinct(sdMidx') /\ \A t \in Slots : sdMidx'[t] <= TakenTo
        /\ \A m \in Nat : Absent(sdMidx, m) => Absent(sdMidx', m)
    <3>1. TakenTo >= -1 /\ Distinct(sdMidx) /\ \A t \in Slots : sdMidx[t] <= TakenTo
      BY <1>1, <1>6 DEF QInv, Numbers, Once
    <3> QED
      BY <1>1, <2>3, <3>1, FewerKeeps
  <2>5. \A p \in pfFail' : DoneTo < passBase + p /\ passBase + p <= TakenTo
    BY <1>4, <1>6, <1>8 DEF QInv, Numbers
  <2>6. Numbers'
    BY <1>2, <2>2, <2>4, <2>5, SdEndKeeps DEF Numbers, QInv, SdEnds
  <2>7. \A p \in pfFail' : passBase + p \in Nat /\ Absent(sdMidx', passBase + p)
    <3>1. \A p \in pfFail : passBase + p \in Nat /\ Absent(sdMidx, passBase + p)
      BY <1>1, <1>5 DEF QInv, Once
    <3>2. passBase + SdPos \in Nat /\ Absent(sdMidx, passBase + SdPos)
      BY <1>1, <1>4, <1>6
    <3> QED
      BY <1>8, <2>4, <3>1, <3>2
  <2>8. Rereads => main.pos \notin pfFail' /\ Absent(sdMidx', Midx)
    <3> SUFFICES ASSUME Rereads PROVE main.pos \notin pfFail' /\ Absent(sdMidx', Midx)
      OBVIOUS
    <3>1. main.pos \notin pfFail /\ Absent(sdMidx, Midx) /\ sd.midx # Midx
      BY <1>6 DEF QInv, Once
    <3>2. main.pos # SdPos
      BY <1>1, <1>4, <3>1
    <3> QED
      BY <1>1, <1>8, <2>4, <3>1, <3>2
  <2>9. Once'
    BY <1>2, <2>4, <2>7, <2>8, SdEndKeeps DEF Once, SdEnds
  <2> QED
    BY <1>2, <2>6, <2>9, SdEndKeeps DEF QInv
<1> QED
  BY <1>7, <1>8 DEF SdPublish

-----------------------------------------------------------------------------
(* The invariant, and what it says of every execution.                       *)
LEMMA InitQueue == Init => QInv
<1> SUFFICES ASSUME Init PROVE QInv
  OBVIOUS
<1>1. /\ req = <<>> /\ Len(req) = 0 /\ pushed = -1 /\ consumed = -1 /\ passBase = 0 /\ pfFail = {}
      /\ mainPC = "head" /\ ~SdWrites /\ sdMidx = [s \in Slots |-> Free] /\ sdReady = [s \in Slots |-> FALSE]
  BY DEF Init, SdWrites
<1>2. DoneTo = -1 /\ TakenTo = -1 /\ ~Rereads /\ PassLen * 0 = 0
  BY <1>1, PassLenPos DEF DoneTo, TakenTo, Rereads, MainWrites
<1>3. Order
  <2>1. Queued
    BY <1>1, <1>2, PassLenPos, QueueAssumption DEF Queued
  <2> QED
    BY <1>1, <1>2, <2>1 DEF Order
<1>4. Numbers /\ Once
  BY <1>1, <1>2 DEF Numbers, ReadySlots, Once, Distinct, Free
<1>5. Stages
  BY <1>1 DEF Stages
<1> QED
  BY <1>3, <1>4, <1>5 DEF QInv

LEMMA NextQueue ==
    ASSUME TypeInv, TypeInv', SlotInv, QInv, [Next]_vars
    PROVE  QInv'
<1>1. CASE UNCHANGED vars
  <2>1. SameNumbers /\ DoneTo' = DoneTo /\ (Rereads' <=> Rereads) /\ Stages' /\ main' = main
    BY <1>1 DEF vars, slotVars, queueVars, mainVars, sdVars, SameNumbers, SdWrites, DoneTo, Midx,
           Rereads, MainWrites, Stages, QInv
  <2> QED
    BY <2>1, Quiet
<1>2. CASE MainNext
  BY <1>2, QuietMain, FetchColdKeeps, FetchPipelinedKeeps, AwaitWokenKeeps, ClaimWokenKeeps,
     SyncPlaceKeeps, DrainKeeps DEF MainNext
<1>3. CASE SdNext
  BY <1>3, QuietSd, SdTakeKeeps, SdNoFdKeeps, SdPublishKeeps DEF SdNext
<1> QED
  BY <1>1, <1>2, <1>3 DEF Next, Terminated

LEMMA AlwaysQueue == Spec => [](TypeInv /\ SlotInv /\ QInv)
<1>1. Init => TypeInv /\ SlotInv /\ QInv
  BY InitType, InitQueue DEF Init, SlotInv, SlotExclusive, SdWrites, MainWrites
<1>2. TypeInv /\ SlotInv /\ QInv /\ [Next]_vars => (TypeInv /\ SlotInv /\ QInv)'
  <2>1. ASSUME TypeInv, SlotInv, QInv, [Next]_vars PROVE (TypeInv /\ SlotInv /\ QInv)'
    <3>1. TypeInv'
      BY <2>1, NextType
    <3>2. SlotInv'
      BY <2>1, NextSlot
    <3> QED
      BY <2>1, <3>1, <3>2, NextQueue
  <2> QED
    BY <2>1
<1> QED
  BY <1>1, <1>2, PTL DEF Spec

\* The matrices of the request ring are consecutive, of the running pass, still to be
\* multiplied and no more than the ring and the lookahead allow, and no matrix is in two
\* slots: whatever the SD card does and whichever forwards are run.
THEOREM RingInOrder == Spec => []QueueInOrder
<1>1. TypeInv /\ QInv => QueueInOrder
  <2> SUFFICES ASSUME TypeInv, QInv PROVE QueueInOrder
    OBVIOUS
  <2>1. /\ TakenTo = pushed - Len(req) /\ Len(req) \in Nat /\ pushed \in Int /\ consumed \in Int
        /\ DoneTo \in Int /\ QCap \in Nat /\ Lookahead \in Nat
    BY QTypes DEF TakenTo
  <2>2. /\ \A i \in 1..Len(req) : req[i] = TakenTo + i
        /\ consumed <= DoneTo /\ DoneTo <= TakenTo /\ pushed < passBase + PassLen
        /\ Len(req) <= QCap /\ Len(req) <= Lookahead
    BY DEF QInv, Order, Queued
  <2>3. Len(req) > 0 => req[1] > consumed
    BY <2>1, <2>2
  <2> QED
    BY <2>1, <2>2, <2>3 DEF QueueInOrder, Lower, QInv, Once, Distinct
<1> QED
  BY <1>1, AlwaysQueue, PTL

\* While the LM head reads the SD card, and until the next pass begins, the prefetch
\* thread reads nothing and has nothing to read.
THEOREM IdleAtHead == Spec => []HeadQuiet
<1>1. TypeInv /\ QInv => HeadQuiet
  BY DEF TypeInv, SdThreadInv, QInv, Stages, HeadQuiet
<1> QED
  BY <1>1, AlwaysQueue, PTL
-----------------------------------------------------------------------------
(* Nothing is lost.                                                         *)

\* Where a matrix is that has left the queue and is still to be multiplied.
Filling == MainWrites \/ mainPC = "refill"
Held(m) ==
    \/ SdWrites /\ sd.midx = m
    \/ Filling /\ Midx = m
    \/ \E s \in Slots : sdMidx[s] = m
    \/ m - passBase \in pfFail
    \/ m \in stream.dropped

HeldInv ==
    /\ DOMAIN stream = {"served", "bytes", "dropped"}
    /\ mainPC # "exit" => \A m \in consumed + 1 .. TakenTo : Held(m)

\* A step that empties no slot and takes back no mark keeps what is held where it is.
KeepsSlots == \A s \in Slots : sdMidx[s] >= 0 => sdMidx'[s] = sdMidx[s]

LEMMA HeldStays ==
    ASSUME TypeInv, NEW m \in Nat, Held(m), (SdWrites' <=> SdWrites), SdWrites => sd'.midx = sd.midx,
           Filling /\ Midx = m => Filling' /\ Midx' = Midx,
           KeepsSlots, pfFail \subseteq pfFail', passBase' = passBase,
           stream.dropped \subseteq stream'.dropped
    PROVE  Held(m)'
  BY DEF Held, KeepsSlots

LEMMA HeldTypes ==
    ASSUME TypeInv, NEW m \in consumed + 1 .. TakenTo
    PROVE  m \in Nat /\ consumed \in Int /\ TakenTo \in Int
  BY QTypes

LEMMA HeldQuiet ==
    ASSUME TypeInv, HeldInv, SameNumbers, Filling => Filling', main'.pos = main.pos \/ ~Filling,
           mainPC # "exit",
           DOMAIN stream' = DOMAIN stream, stream'.dropped = stream.dropped
    PROVE  HeldInv'
<1>1. TakenTo' = TakenTo /\ consumed' = consumed /\ (Filling => Midx' = Midx)
  BY DEF SameNumbers, TakenTo, Midx
<1>2. ASSUME NEW m \in consumed + 1 .. TakenTo PROVE Held(m)'
  BY <1>1, <1>2, HeldTypes, HeldStays DEF HeldInv, SameNumbers, KeepsSlots
<1> QED
  BY <1>1, <1>2 DEF HeldInv

LEMMA HeldQuietMain ==
    ASSUME TypeInv, HeldInv,
           SyncOpen \/ SyncPread \/ SyncMemcpy \/ SyncFails \/ UseEnd \/ NextForward
           \/ Shutdown \/ Join
    PROVE  HeldInv'
<1>1. SameNumbers
  BY DEF SyncOpen, SyncPread, SyncMemcpy, SyncFails, UseEnd, NextForward, Shutdown, Join,
         SameNumbers, SdWrites, slotVars, queueVars, sdVars
<1>2. DOMAIN stream' = DOMAIN stream /\ stream'.dropped = stream.dropped
  <2>1. CASE UNCHANGED stream
    BY <2>1
  <2>2. CASE UseEnd
    BY <2>2 DEF UseEnd, HeldInv
  <2> QED
    BY <2>1, <2>2 DEF SyncOpen, SyncPread, SyncMemcpy, SyncFails, NextForward, Shutdown, Join
<1>3. CASE SyncFails
  BY <1>2, <1>3 DEF SyncFails, HeldInv
<1>4. CASE SyncOpen \/ SyncPread \/ SyncMemcpy
  <2>1. main \in MainState
    BY QTypes
  <2>2. main'.pos = main.pos /\ Filling' /\ mainPC # "exit"
    BY <1>4, <2>1 DEF SyncOpen, SyncPread, SyncMemcpy, MainState, Filling, MainWrites
  <2> QED
    BY <1>1, <1>2, <2>2, HeldQuiet
<1>5. CASE UseEnd \/ NextForward \/ Shutdown \/ Join
  <2>1. ~Filling /\ mainPC # "exit"
    BY <1>5 DEF UseEnd, NextForward, Shutdown, Join, Filling, MainWrites
  <2> QED
    BY <1>1, <1>2, <2>1, HeldQuiet
<1> QED
  BY <1>3, <1>4, <1>5

LEMMA HeldQuietSd ==
    ASSUME TypeInv, HeldInv, SdLeave \/ SdWait \/ SdOpen \/ SdPread \/ SdMemcpy
    PROVE  HeldInv'
<1>1. SameNumbers /\ mainPC' = mainPC /\ main' = main /\ stream' = stream /\ mainPC # "exit"
  BY QTypes DEF SdLeave, SdWait, SdOpen, SdPread, SdMemcpy, SameNumbers, SdWrites, SdState,
         slotVars, queueVars, sdVars, mainVars, Alive
<1>2. Filling => Filling'
  BY <1>1 DEF Filling, MainWrites
<1> QED
  BY <1>1, <1>2, HeldQuiet

\* A claim and a wait leave what the slots hold.
LEMMA ClaimHolds ==
    ASSUME TypeInv, NEW sm \in [Slots -> {Free, Reading} \cup Nat], NEW W, NEW P, Claim(sm, W, P)
    PROVE  /\ \A s \in Slots : sm[s] >= 0 => sdMidx'[s] = sm[s]
           /\ mainPC' \in {"sync", P} /\ main'.pos = main.pos
<1>1. main \in MainState
  BY QTypes
<1>2. CASE sdMidx' = sm /\ mainPC' = P /\ main' = main
  BY <1>2
<1>3. ASSUME NEW s \in Slots, FirstFree(sm, s), sdMidx' = [sm EXCEPT ![s] = Reading],
             mainPC' = "sync", main' = [main EXCEPT !.slot = s]
      PROVE  /\ \A t \in Slots : sm[t] >= 0 => sdMidx'[t] = sm[t]
             /\ mainPC' \in {"sync", P} /\ main'.pos = main.pos
  <2>1. main'.pos = main.pos
    BY <1>1, <1>3 DEF MainState
  <2>2. sm[s] = Free /\ \A t \in Slots : sdMidx'[t] = IF t = s THEN Reading ELSE sm[t]
    BY <1>3 DEF FirstFree
  <2> QED
    BY <1>3, <2>1, <2>2 DEF Free
<1> QED
  BY <1>2, <1>3 DEF Claim

\* The wait: a matrix marked failed is claimed by the main thread when the mark goes.
LEMMA AwaitHolds ==
    ASSUME TypeInv, HeldInv, UNCHANGED <<sdVars, passBase, stream>>,
           NEW sm \in [Slots -> {Free, Reading} \cup Nat], NEW R, NEW W,
           mainPC \in {"fetch", "await"}, TakenTo' = TakenTo, consumed' \in Int, consumed' >= consumed,
           \A s \in Slots : sdMidx[s] > consumed' => sm[s] = sdMidx[s], AwaitMat(sm, R, W)
    PROVE  HeldInv'
<1>1. /\ sdMidx \in [Slots -> {Free, Reading} \cup Nat] /\ passBase \in Nat /\ Midx = passBase + main.pos
      /\ main.pos \in 0..PassLen-1 /\ consumed \in Int /\ consumed >= -1 /\ TakenTo \in Int
      /\ PassLen \in Nat
  BY QTypes
<1>2. (SdWrites' <=> SdWrites) /\ sd' = sd
  BY DEF SdWrites, sdVars
<1>3. ~Filling /\ mainPC # "exit"
  BY DEF Filling, MainWrites
<1>4. SUFFICES ASSUME NEW m, m \in consumed' + 1 .. TakenTo PROVE Held(m)'
  BY DEF HeldInv
<1>5. m \in Nat /\ Held(m) /\ m > consumed'
  <2>1. consumed' \in Int /\ consumed \in Int /\ TakenTo \in Int /\ consumed' >= consumed
    BY <1>1
  <2>2. PICK c \in Int : c = consumed'
    BY <2>1
  <2>3. m \in c + 1 .. TakenTo /\ c >= consumed
    BY <1>4, <2>1, <2>2
  <2>4. m \in consumed + 1 .. TakenTo /\ m \in Nat /\ m > c
    BY <1>1, <2>1, <2>3
  <2> QED
    BY <1>3, <2>2, <2>4 DEF HeldInv
<1>6. \A s \in Slots : sdMidx[s] = m => sm[s] = m
  BY <1>5
<1>7. CASE sdMidx' = sm /\ pfFail' = pfFail
  BY <1>2, <1>3, <1>5, <1>6, <1>7 DEF Held
<1>8. CASE Claim(sm, W, "refill") /\ main.pos \in pfFail /\ pfFail' = pfFail \ {main.pos}
  <2>1. /\ \A s \in Slots : sm[s] >= 0 => sdMidx'[s] = sm[s]
        /\ mainPC' \in {"sync", "refill"} /\ main'.pos = main.pos
    BY <1>8, ClaimHolds
  <2>2. Filling' /\ Midx' = Midx
    BY <2>1 DEF Filling, MainWrites, Midx
  <2>3. CASE m = Midx
    BY <2>2, <2>3 DEF Held
  <2>4. CASE m # Midx
    <3>1. m - passBase \in pfFail => m - passBase \in pfFail'
      BY <1>1, <1>5, <1>8, <2>4
    <3>2. \A s \in Slots : sdMidx[s] = m => sdMidx'[s] = m
      BY <1>5, <1>6, <2>1
    <3> QED
      BY <1>2, <1>3, <1>5, <3>1, <3>2 DEF Held
  <2> QED
    BY <2>3, <2>4
<1> QED
  BY <1>7, <1>8 DEF AwaitMat

LEMMA FetchHolds ==
    ASSUME TypeInv, QInv, HeldInv, FetchCold \/ FetchPipelined
    PROVE  HeldInv'
<1>1. /\ mainPC = "fetch" /\ consumed' = Midx - 1 /\ UNCHANGED <<passBase, sdVars, stream>>
  BY DEF FetchCold, FetchPipelined
<1>2. /\ Midx \in Nat /\ consumed \in Int /\ sdMidx \in [Slots -> {Free, Reading} \cup Nat]
      /\ pushed \in Int /\ Len(req) \in Nat
  BY QTypes
<1>3. DoneTo = Midx - 1 /\ consumed <= DoneTo /\ DoneTo <= TakenTo
  BY <1>1 DEF DoneTo, QInv, Order
<1>4. CASE FetchCold
  <2>1. TakenTo' = Midx - 1
    BY <1>1, <1>4, ColdIdle DEF FetchCold, TakenTo
  <2>2. consumed' + 1 .. TakenTo' = {}
    BY <1>1, <1>2, <2>1
  <2> QED
    BY <1>1, <2>2 DEF HeldInv
<1>5. CASE FetchPipelined
  <2>1. Topup(pushed, Midx - 1) /\ AwaitMat(ReleasedMidx, ReleasedReady, Signalled)
    BY <1>5 DEF FetchPipelined
  <2>2. TakenTo' = TakenTo
    BY <1>1, <1>2, <1>3, <2>1, TopupKeeps
  <2>3. \A s \in Slots : sdMidx[s] > consumed' => ReleasedMidx[s] = sdMidx[s]
    BY <1>1, <1>2 DEF ReleasedMidx, Released
  <2>4. consumed' \in Int /\ consumed' >= consumed
    BY <1>1, <1>2, <1>3
  <2> QED
    BY <1>1, <2>1, <2>2, <2>3, <2>4, ReleaseKeeps, AwaitHolds
<1> QED
  BY <1>4, <1>5

LEMMA AwaitWokenHolds ==
    ASSUME TypeInv, HeldInv, AwaitWoken
    PROVE  HeldInv'
<1>1. /\ mainPC = "await" /\ AwaitMat(sdMidx, sdReady, reqWait)
      /\ UNCHANGED <<req, pushed, consumed, passBase, sdVars, stream>>
  BY DEF AwaitWoken, queueVars
<1>2. TakenTo' = TakenTo /\ sdMidx \in [Slots -> {Free, Reading} \cup Nat]
  BY <1>1, QTypes DEF TakenTo
<1>3. consumed \in Int
  BY QTypes
<1>4. consumed' \in Int /\ consumed' >= consumed
  BY <1>1, <1>3
<1> QED
  BY <1>1, <1>2, <1>4, AwaitHolds

LEMMA ClaimWokenHolds ==
    ASSUME TypeInv, HeldInv, ClaimWoken
    PROVE  HeldInv'
<1>1. /\ mainPC \in {"cold", "refill"} /\ Claim(sdMidx, reqWait, mainPC)
      /\ UNCHANGED <<pfFail, req, pushed, consumed, passBase, sdVars, stream>>
  BY DEF ClaimWoken, queueVars
<1>2. KeepsSlots /\ mainPC' \in {"sync", mainPC} /\ main'.pos = main.pos
  BY <1>1, QTypes, ClaimHolds DEF KeepsSlots
<1>3. /\ TakenTo' = TakenTo /\ consumed' = consumed /\ Midx' = Midx /\ (Filling => Filling')
      /\ (SdWrites' <=> SdWrites) /\ sd' = sd /\ mainPC # "exit"
  BY <1>1, <1>2 DEF TakenTo, Midx, Filling, MainWrites, SdWrites, sdVars
<1>4. ASSUME NEW m \in consumed + 1 .. TakenTo PROVE Held(m)'
  BY <1>1, <1>2, <1>3, <1>4, HeldTypes, HeldStays DEF HeldInv
<1> QED
  BY <1>1, <1>3, <1>4 DEF HeldInv

LEMMA SyncPlaceHolds ==
    ASSUME TypeInv, SlotInv, QInv, QInv', HeldInv, SyncPlace
    PROVE  HeldInv'
<1>1. /\ mainPC = "place" /\ sdMidx' = [sdMidx EXCEPT ![main.slot] = Midx]
      /\ UNCHANGED <<consumed, pfFail, passBase, sdVars, stream>>
  BY DEF SyncPlace
<1>2. /\ sdMidx \in [Slots -> {Free, Reading} \cup Nat] /\ main.slot \in Slots /\ Midx \in Nat
      /\ consumed \in Int /\ TakenTo \in Int /\ sdMidx[main.slot] = Reading
  BY <1>1, QTypes DEF SlotInv, MainWrites
<1>3. \A s \in Slots : sdMidx'[s] = IF s = main.slot THEN Midx ELSE sdMidx[s]
  BY <1>1, <1>2
<1>4. (SdWrites' <=> SdWrites) /\ sd' = sd
  BY <1>1 DEF SdWrites, sdVars
<1>5. TakenTo' \in {TakenTo, Midx} /\ (TakenTo' # TakenTo => TakenTo = Midx - 1)
  <2>1. CASE Midx <= pushed /\ req' = req /\ pushed' = pushed
    BY <2>1 DEF TakenTo
  <2>2. CASE Midx > pushed /\ Topup(Midx, consumed)
    <3>1. pushed = Midx - 1 /\ Len(req) = 0 /\ TakenTo = Midx - 1
      BY <1>1, <2>2, ColdIdle
    <3>2. /\ passBase \in Nat /\ req \in Seq(Nat) /\ main.pos \in 0..PassLen-1 /\ PassLen \in Nat
          /\ QCap \in Nat /\ Lookahead \in Nat /\ Midx = passBase + main.pos
      BY QTypes
    <3>3. DoneTo = Midx - 1 /\ consumed <= DoneTo
      BY <1>1 DEF DoneTo, QInv, Order
    <3>4. Midx < passBase + PassLen
      BY <3>2
    <3>5. \A i \in 1..Len(req) : req[i] = Midx - Len(req) + i
      BY <3>1
    <3>6. consumed <= Midx - Len(req)
      BY <1>2, <3>1, <3>3
    <3> HIDE DEF Midx
    <3>7. pushed' - Len(req') = Midx
      BY <1>2, <2>2, <3>1, <3>2, <3>4, <3>5, <3>6, TopupQueue
    <3> QED
      BY <3>1, <3>7 DEF TakenTo
  <2> QED
    BY <2>1, <2>2 DEF SyncPlace
<1>6. ASSUME NEW m \in consumed + 1 .. TakenTo' PROVE Held(m)'
  <2>1. CASE m = Midx
    BY <1>2, <1>3, <2>1 DEF Held
  <2>2. CASE m # Midx
    <3>1. m \in consumed + 1 .. TakenTo
      BY <1>2, <1>5, <1>6, <2>2
    <3>2. m \in Nat /\ Held(m)
      BY <1>1, <3>1, HeldTypes DEF HeldInv
    <3>3. \A s \in Slots : sdMidx[s] = m => sdMidx'[s] = m
      BY <1>2, <1>3, <3>2 DEF Reading
    <3> QED
      BY <1>1, <1>4, <2>2, <3>2, <3>3 DEF Held
  <2> QED
    BY <2>1, <2>2
<1> QED
  BY <1>1, <1>6 DEF HeldInv

LEMMA DrainHolds ==
    ASSUME TypeInv, QInv, HeldInv, Drain
    PROVE  HeldInv'
<1>1. /\ UNCHANGED <<sdMidx, sdReady, pfFail, req, pushed, consumed, sdVars, main, stream>>
      /\ mainPC = "drain"
  BY DEF Drain, slotVars, queueVars, mainVars
<1>2. TakenTo' = TakenTo /\ (SdWrites' <=> SdWrites) /\ ~Filling
  BY <1>1 DEF TakenTo, SdWrites, sdVars, Filling, MainWrites
<1>3. CASE passBase' = passBase
  BY <1>1, <1>2, <1>3, HeldQuiet DEF SameNumbers, sdVars
<1>4. CASE Len(req) = 0 /\ busy = 0
  <2>1. pfFail = {} /\ ~SdWrites
    BY <1>1, <1>4, DrainIdle
  <2>2. ASSUME NEW m \in consumed + 1 .. TakenTo PROVE Held(m)'
    BY <1>1, <1>2, <2>1, <2>2 DEF HeldInv, Held
  <2> QED
    BY <1>1, <1>2, <2>2 DEF HeldInv
<1> QED
  BY <1>3, <1>4 DEF Drain

LEMMA SdTakeHolds ==
    ASSUME TypeInv, QInv, HeldInv, SdTake
    PROVE  HeldInv'
<1>1. /\ sdMidx \in [Slots -> {Free, Reading} \cup Nat] /\ req \in Seq(Nat) /\ Len(req) \in Nat
      /\ pushed \in Int /\ consumed \in Int /\ TakenTo \in Int /\ sd \in SdState
  BY QTypes
<1>2. PICK s \in Slots : /\ FirstFree(sdMidx, s) /\ sdMidx' = [sdMidx EXCEPT ![s] = Reading]
                         /\ sdPC' = "open" /\ sd' = [sd EXCEPT !.midx = Head(req), !.slot = s]
  BY DEF SdTake
<1>3. /\ Len(req) > 0 /\ req' = Tail(req) /\ sdPC = "loop" /\ mainPC # "exit"
      /\ UNCHANGED <<pushed, consumed, pfFail, passBase, mainPC, main, stream>>
  BY DEF SdTake, mainVars, Alive
<1>4. sd'.midx = Head(req) /\ SdWrites' /\ ~SdWrites
  BY <1>1, <1>2, <1>3 DEF SdState, SdWrites
<1>5. Head(req) = TakenTo + 1
  <2>1. 1 \in 1..Len(req) /\ Head(req) = req[1]
    BY <1>1, <1>3
  <2> QED
    BY <2>1 DEF QInv, Order, Queued
<1>6. TakenTo' = TakenTo + 1
  <2>1. Len(req') = Len(req) - 1
    BY <1>1, <1>3
  <2>2. TakenTo' = pushed - (Len(req) - 1) /\ TakenTo = pushed - Len(req)
    BY <1>3, <2>1 DEF TakenTo
  <2> QED
    BY <1>1, <2>2
<1>7. \A t \in Slots : sdMidx'[t] = (IF t = s THEN Reading ELSE sdMidx[t]) /\ sdMidx[s] = Free
  BY <1>1, <1>2 DEF FirstFree
<1>8. (Filling' <=> Filling) /\ Midx' = Midx
  BY <1>3 DEF Filling, MainWrites, Midx
<1>9. ASSUME NEW m \in consumed + 1 .. TakenTo' PROVE Held(m)'
  <2>1. CASE m = TakenTo + 1
    BY <1>4, <1>5, <2>1 DEF Held
  <2>2. CASE m # TakenTo + 1
    <3>1. m \in consumed + 1 .. TakenTo
      BY <1>1, <1>6, <1>9, <2>2
    <3>2. m \in Nat /\ Held(m)
      BY <1>3, <3>1, HeldTypes DEF HeldInv
    <3>3. \A t \in Slots : sdMidx[t] = m => sdMidx'[t] = m
      BY <1>7, <3>2 DEF Free
    <3> QED
      BY <1>3, <1>4, <1>8, <3>2, <3>3 DEF Held
  <2> QED
    BY <2>1, <2>2
<1> QED
  BY <1>3, <1>9 DEF HeldInv

LEMMA SdEndHolds ==
    ASSUME TypeInv, QInv, SlotInv, HeldInv, SdNoFd \/ SdPublish
    PROVE  HeldInv'
<1>1. SdEnds /\ mainPC # "exit"
  BY DEF SdNoFd, SdPublish, SdEnds, SdWrites, queueVars, mainVars, Alive
<1>2. /\ sdMidx \in [Slots -> {Free, Reading} \cup Nat] /\ sd.slot \in Slots /\ sd.midx \in Nat
      /\ sdMidx[sd.slot] = Reading /\ passBase \in Nat
  BY <1>1, QTypes DEF SlotInv, SdEnds
<1>3. SdPos \in 0..PassLen-1 /\ passBase + SdPos = sd.midx /\ PassLen \in Nat
  BY <1>1, SdPosition, QTypes DEF SdEnds
<1>4. /\ TakenTo' = TakenTo /\ consumed' = consumed /\ passBase' = passBase
      /\ Midx' = Midx /\ (Filling' <=> Filling)
  BY <1>1 DEF SdEnds, TakenTo, Midx, Filling, MainWrites
<1>5. \A t \in Slots : t # sd.slot => sdMidx'[t] = sdMidx[t]
  BY <1>2 DEF SdNoFd, SdPublish
<1>6. DOMAIN stream' = DOMAIN stream /\ stream.dropped \subseteq stream'.dropped
      /\ (SdNoFd => sd.midx \in stream'.dropped)
  <2>1. CASE SdNoFd
    BY <2>1 DEF SdNoFd, HeldInv
  <2>2. CASE SdPublish /\ ~SdNoFd
    BY <2>2 DEF SdPublish
  <2> QED
    BY <2>1, <2>2
<1>7. \A p \in pfFail : p = SdPos \/ p \in pfFail'
  BY DEF SdNoFd, SdPublish
<1>8. ASSUME NEW m \in Nat, m = sd.midx PROVE Held(m)'
  <2>1. CASE SdNoFd
    BY <1>6, <1>8, <2>1 DEF Held
  <2>2. CASE sdMidx' = [sdMidx EXCEPT ![sd.slot] = sd.midx]
    <3>1. sdMidx'[sd.slot] = m
      BY <1>2, <1>8, <2>2
    <3> QED
      BY <1>2, <3>1 DEF Held
  <2>3. CASE pfFail' = pfFail \cup {SdPos}
    <3>1. m - passBase' = SdPos
      BY <1>2, <1>3, <1>4, <1>8
    <3>2. m - passBase' \in pfFail'
      BY <2>3, <3>1
    <3> QED
      BY <3>2 DEF Held
  <2> QED
    BY <2>1, <2>2, <2>3 DEF SdPublish
<1>9. ASSUME NEW m \in consumed + 1 .. TakenTo PROVE Held(m)'
  <2>1. CASE m = sd.midx
    BY <1>2, <1>8, <2>1
  <2>2. CASE m # sd.midx
    <3>1. m \in Nat /\ Held(m)
      BY <1>1, <1>9, HeldTypes DEF HeldInv
    <3>2. \A t \in Slots : sdMidx[t] = m => sdMidx'[t] = m
      BY <1>2, <1>5, <3>1 DEF Reading
    <3>3. m - passBase \in pfFail => m - passBase' \in pfFail'
      BY <1>2, <1>3, <1>4, <1>7, <2>2, <3>1
    <3> QED
      BY <1>4, <1>6, <2>2, <3>1, <3>2, <3>3 DEF Held
  <2> QED
    BY <2>1, <2>2
<1> QED
  BY <1>4, <1>6, <1>9 DEF HeldInv

\* A matrix that was pushed and is still to be multiplied is queued, being read, in its
\* slot or marked failed, whatever the SD card does and whichever forwards are run; the
\* only one that is forgotten is one whose file could not be opened.
THEOREM NoneForgotten == Spec => []NothingLost
<1>1. Init => HeldInv
  <2> SUFFICES ASSUME Init PROVE HeldInv
    OBVIOUS
  <2>1. consumed = -1 /\ TakenTo = -1
    BY DEF Init, TakenTo
  <2>2. consumed + 1 .. TakenTo = {}
    BY <2>1
  <2> QED
    BY <2>2 DEF HeldInv, Init
<1>2. TypeInv /\ SlotInv /\ QInv /\ TypeInv' /\ QInv' /\ HeldInv /\ [Next]_vars => HeldInv'
  <2> SUFFICES ASSUME TypeInv, SlotInv, QInv, TypeInv', QInv', HeldInv, [Next]_vars PROVE HeldInv'
    OBVIOUS
  <2>1. CASE UNCHANGED vars
    <3>1. /\ UNCHANGED <<sdMidx, sdPC, sd, mainPC, main, pfFail, passBase, stream, consumed, req, pushed>>
      BY <2>1 DEF vars, slotVars, queueVars, mainVars, sdVars
    <3> QED
      BY <3>1 DEF HeldInv, Held, Filling, MainWrites, SdWrites, Midx, TakenTo
  <2>2. CASE MainNext
    BY <2>2, HeldQuietMain, FetchHolds, AwaitWokenHolds, ClaimWokenHolds, SyncPlaceHolds, DrainHolds
       DEF MainNext
  <2>3. CASE SdNext
    BY <2>3, HeldQuietSd, SdTakeHolds, SdEndHolds DEF SdNext
  <2> QED
    BY <2>1, <2>2, <2>3 DEF Next, Terminated
<1>3. TypeInv /\ QInv /\ HeldInv => NothingLost
  <2> SUFFICES ASSUME TypeInv, QInv, HeldInv, mainPC # "exit", NEW m \in consumed + 1 .. pushed
               PROVE  \/ \E i \in 1..Len(req) : req[i] = m
                      \/ SdWrites /\ sd.midx = m
                      \/ MainWrites /\ Midx = m
                      \/ mainPC = "refill" /\ Midx = m
                      \/ \E s \in Slots : sdMidx[s] = m /\ sdReady[s]
                      \/ m - passBase \in pfFail
                      \/ m \in stream.dropped
    BY DEF NothingLost
  <2>1. /\ consumed \in Int /\ consumed >= -1 /\ pushed \in Int /\ Len(req) \in Nat /\ TakenTo \in Int
        /\ TakenTo = pushed - Len(req)
    BY QTypes DEF TakenTo
  <2>2. m \in Nat
    BY <2>1
  <2>3. CASE m <= TakenTo
    <3>1. Held(m)
      BY <2>1, <2>3 DEF HeldInv
    <3> QED
      BY <2>2, <3>1 DEF Held, Filling, QInv, Numbers, ReadySlots
  <2>4. CASE m > TakenTo
    <3>1. m - TakenTo \in 1..Len(req)
      BY <2>1, <2>2, <2>4
    <3>2. req[m - TakenTo] = TakenTo + (m - TakenTo)
      BY <3>1 DEF QInv, Order, Queued
    <3>3. TakenTo + (m - TakenTo) = m
      BY <2>1, <2>2
    <3> QED
      BY <3>1, <3>2, <3>3
  <2> QED
    BY <2>1, <2>2, <2>3, <2>4
<1> QED
  BY <1>1, <1>2, <1>3, AlwaysQueue, PTL DEF Spec
-----------------------------------------------------------------------------
(* The bytes, up to the first failed read: after it both threads use the one     *)
(* bounce buffer.  The opening of a file may fail at any time.                   *)
\* The main thread reads only the first matrix of a pass, which was never pushed, and
\* what it fetched last is in its slot.  That is the matrix it multiplies, but for up.
UpFirst == main.kind = "decode" /\ main.use = UpMat /\ Mat(main.pos) = UpMat + 1
ReadInv ==
    /\ sdPC # "perr" /\ pfFail = {} /\ mainPC # "refill"
    /\ MainWrites => Midx > pushed
    /\ mainPC = "use" => /\ nib[Mat(main.pos)] \in Slots /\ sdMidx[nib[Mat(main.pos)]] = Midx
                         /\ main.use = Mat(main.pos) \/ UpFirst

\* What has been copied of a matrix.
Copied(s, pos, n) == \A c \in 1..n : sdData[s][c] = Chunk(pos, c)
Whole(s, pos) == Copied(s, pos, Chunks[Mat(pos)])
SlotBytes == \A s \in Slots : sdMidx[s] >= 0 => Whole(s, sdMidx[s] % PassLen)
SdBytes ==
    /\ sdPC \in {"pread", "memcpy"} => Copied(sd.slot, SdPos, sd.chunk - 1)
    /\ sdPC = "memcpy" => bounce = Chunk(SdPos, sd.chunk)
    /\ sdPC = "publish" => Whole(sd.slot, SdPos)
MainBytes ==
    /\ mainPC \in {"pread", "memcpy"} => Copied(main.slot, main.pos, main.chunk - 1)
    /\ mainPC = "memcpy" => bounce = Chunk(main.pos, main.chunk)
    /\ mainPC = "place" => Whole(main.slot, main.pos)
DataInv == SlotBytes /\ SdBytes /\ MainBytes

\* Only one thread reads at a time.
LEMMA OneReads ==
    ASSUME TypeInv, QInv, ReadInv, MainWrites
    PROVE  ~SdWrites
  BY ColdIdle DEF ReadInv, MainWrites

\* The matrix handed over is in its slot.
LEMMA HandKeepsRead ==
    ASSUME TypeInv, ReadInv, NEW s \in Slots, Hand(s), sdMidx'[s] = Midx,
           UNCHANGED <<passBase, sdPC, pfFail>>
    PROVE  ReadInv'
<1>1. /\ main \in MainState /\ nib \in [0..NMat-1 -> {Nowhere} \cup Slots]
      /\ main.pos \in 0..PassLen-1 /\ UpMat \in Nat
  BY ModelAssumption DEF TypeInv, TypeOK, MainState
<1>2. Mat(main.pos) \in 0..NMat-1
  BY <1>1, PosFacts
<1>3. CASE main.kind = "decode" /\ Mat(main.pos) = UpMat
  <2>1. mainPC' = "fetch"
    BY <1>3 DEF Hand
  <2> QED
    BY <2>1 DEF ReadInv, MainWrites
<1>4. CASE ~(main.kind = "decode" /\ Mat(main.pos) = UpMat)
  <2>1. /\ nib' = [nib EXCEPT ![Mat(main.pos)] = s] /\ mainPC' = "use"
        /\ main' = [main EXCEPT !.use = IF main.kind = "decode" /\ Mat(main.pos) = UpMat + 1
                                        THEN UpMat ELSE Mat(main.pos)]
    BY <1>4 DEF Hand
  <2>2. main'.pos = main.pos /\ main'.kind = main.kind /\ Midx' = Midx /\ nib'[Mat(main.pos)] = s
    BY <1>1, <1>2, <2>1 DEF MainState, Midx
  <2>3. \/ main'.use = Mat(main.pos)
        \/ main.kind = "decode" /\ main'.use = UpMat /\ Mat(main.pos) = UpMat + 1
    BY <1>1, <2>1 DEF MainState
  <2> QED
    BY <2>1, <2>2, <2>3 DEF ReadInv, MainWrites, UpFirst
<1> QED
  BY <1>3, <1>4

LEMMA MainRead ==
    ASSUME TypeInv, QInv, ReadInv, MainNext
    PROVE  ReadInv'
<1>1. sdPC' = sdPC
  BY DEF MainNext, FetchCold, FetchPipelined, AwaitWoken, ClaimWoken, SyncOpen, SyncPread,
         SyncMemcpy, SyncFails, SyncPlace, UseEnd, Drain, NextForward, Shutdown, Join, sdVars
<1>2. main \in MainState /\ sdMidx \in [Slots -> {Free, Reading} \cup Nat]
  BY QTypes
<1>3. ASSUME NEW sm, NEW R, NEW W, AwaitMat(sm, R, W), passBase' = passBase
      PROVE  ReadInv'
  <2>1. CASE \E s \in Slots : sm[s] = Midx /\ Hand(s) /\ sdMidx' = sm /\ pfFail' = pfFail
    BY <1>1, <1>3, <2>1, HandKeepsRead
  <2>2. CASE mainPC' = "await" /\ pfFail' = pfFail
    BY <1>1, <2>2 DEF ReadInv, MainWrites
  <2> QED
    BY <1>3, <2>1, <2>2 DEF AwaitMat, ReadInv
<1>4. ASSUME NEW sm, NEW W, Claim(sm, W, "cold"), Midx > pushed,
             UNCHANGED <<passBase, pushed, pfFail>>
      PROVE  ReadInv'
  <2>1. mainPC' \in {"sync", "cold"} /\ main'.pos = main.pos
    BY <1>2, <1>4 DEF Claim, MainState
  <2>2. Midx' = Midx
    BY <1>4, <2>1 DEF Midx
  <2> QED
    BY <1>1, <1>4, <2>1, <2>2 DEF ReadInv, MainWrites
<1>5. CASE FetchCold
  BY <1>4, <1>5 DEF FetchCold
<1>6. CASE FetchPipelined
  BY <1>3, <1>6 DEF FetchPipelined
<1>7. CASE AwaitWoken
  BY <1>3, <1>7 DEF AwaitWoken
<1>8. CASE ClaimWoken
  <2>1. mainPC = "cold" /\ Midx > pushed /\ Claim(sdMidx, reqWait, "cold")
    BY <1>8 DEF ClaimWoken, ReadInv, QInv, Stages
  <2> QED
    BY <1>4, <1>8, <2>1 DEF ClaimWoken, queueVars
<1>9. CASE SyncOpen \/ SyncPread \/ SyncMemcpy
  <2>1. /\ MainWrites /\ MainWrites' /\ main'.pos = main.pos
        /\ UNCHANGED <<passBase, pushed, pfFail>>
    BY <1>2, <1>9 DEF SyncOpen, SyncPread, SyncMemcpy, MainWrites, MainState, queueVars
  <2>2. Midx' = Midx
    BY <2>1 DEF Midx
  <2> QED
    BY <1>1, <2>1, <2>2 DEF ReadInv, MainWrites
<1>10. CASE SyncPlace
  <2>1. Hand(main.slot) /\ main.slot \in Slots /\ sdMidx'[main.slot] = Midx
    BY <1>2, <1>10 DEF SyncPlace, MainState
  <2> QED
    BY <1>1, <1>10, <2>1, HandKeepsRead DEF SyncPlace
<1>11. CASE UseEnd
  <2>1. CASE main.use # Mat(main.pos) /\ main' = [main EXCEPT !.use = main.use + 1]
                                       /\ UNCHANGED <<mainPC, nib>>
    <3>1. UpFirst /\ main'.pos = main.pos /\ main'.use = main.use + 1
      BY <1>2, <1>11, <2>1 DEF UseEnd, ReadInv, MainState
    <3>2. main'.use = Mat(main'.pos) /\ Midx' = Midx
      BY <1>11, <3>1 DEF UpFirst, UseEnd, Midx
    <3> QED
      BY <1>1, <1>11, <2>1, <3>1, <3>2 DEF UseEnd, ReadInv, MainWrites, slotVars
  <2>2. CASE mainPC' \in {"fetch", "drain"}
    BY <1>1, <1>11, <2>2 DEF UseEnd, ReadInv, MainWrites
  <2> QED
    BY <1>11, <2>1, <2>2 DEF UseEnd
<1>12. CASE SyncFails \/ Drain \/ NextForward \/ Shutdown \/ Join
  BY <1>1, <1>12 DEF SyncFails, Drain, NextForward, Shutdown, Join, ReadInv, MainWrites, mainVars
<1> QED
  BY <1>5, <1>6, <1>7, <1>8, <1>9, <1>10, <1>11, <1>12 DEF MainNext

LEMMA SdRead ==
    ASSUME TypeInv, SlotInv, ReadInv, SdNext, ReadsFine'
    PROVE  ReadInv'
<1>1. UNCHANGED <<mainPC, main, nib, passBase, pushed>>
  BY DEF SdNext, SdLeave, SdTake, SdWait, SdOpen, SdNoFd, SdPread, SdMemcpy, SdPublish,
         mainVars, queueVars
<1>2. Midx' = Midx /\ (MainWrites' <=> MainWrites)
  BY <1>1 DEF Midx, MainWrites
<1>3. sdPC' # "perr" /\ pfFail' = {}
  <2>1. CASE SdPread
    <3>1. faults \in Nat
      BY DEF TypeInv, TypeOK
    <3>2. sdPC' # "perr"
      BY <2>1, <3>1 DEF SdPread, ReadsFine
    <3> QED
      BY <2>1, <3>2 DEF SdPread, ReadInv
  <2>2. CASE ~SdPread
    BY <2>2 DEF SdNext, SdLeave, SdTake, SdWait, SdOpen, SdNoFd, SdMemcpy, SdPublish, sdVars, ReadInv
  <2> QED
    BY <2>1, <2>2
<1>4. ASSUME NEW t \in Slots, sdMidx[t] = Midx PROVE sdMidx'[t] = Midx
  <2>1. /\ sdMidx \in [Slots -> {Free, Reading} \cup Nat] /\ sd.slot \in Slots /\ Midx \in Nat
    BY QTypes
  <2>2. CASE SdTake
    <3>1. PICK s \in Slots : FirstFree(sdMidx, s) /\ sdMidx' = [sdMidx EXCEPT ![s] = Reading]
      BY <2>2 DEF SdTake
    <3> QED
      BY <1>4, <2>1, <3>1 DEF FirstFree, Free
  <2>3. CASE SdNoFd \/ SdPublish
    <3>1. sdMidx[sd.slot] = Reading
      BY <2>3 DEF SdNoFd, SdPublish, SlotInv, SdWrites
    <3>2. t # sd.slot
      BY <1>4, <2>1, <3>1 DEF Reading
    <3> QED
      BY <1>4, <2>1, <2>3, <3>2 DEF SdNoFd, SdPublish
  <2>4. CASE SdLeave \/ SdWait \/ SdOpen \/ SdPread \/ SdMemcpy
    BY <1>4, <2>4 DEF SdLeave, SdWait, SdOpen, SdPread, SdMemcpy, slotVars
  <2> QED
    BY <2>2, <2>3, <2>4 DEF SdNext
<1> QED
  BY <1>1, <1>2, <1>3, <1>4 DEF ReadInv, UpFirst

\* The main thread's steps and the bytes.
LEMMA SameBytes ==
    ASSUME DataInv, sdData' = sdData, \A s \in Slots : sdMidx'[s] = sdMidx[s] \/ sdMidx'[s] \in {Free, Reading}
    PROVE  SlotBytes'
  BY DEF DataInv, SlotBytes, Whole, Copied, Free, Reading

LEMMA MainBytesKept ==
    ASSUME TypeInv, SlotInv, QInv, ReadInv, DataInv, MainNext
    PROVE  DataInv'
<1>1. sdPC' = sdPC /\ sd' = sd /\ SdPos' = SdPos
  BY DEF MainNext, FetchCold, FetchPipelined, AwaitWoken, ClaimWoken, SyncOpen, SyncPread,
         SyncMemcpy, SyncFails, SyncPlace, UseEnd, Drain, NextForward, Shutdown, Join, sdVars, SdPos
<1>2. /\ main \in MainState /\ main.slot \in Slots /\ main.pos \in 0..PassLen-1
      /\ sdMidx \in [Slots -> {Free, Reading} \cup Nat] /\ Midx \in Nat /\ Midx = passBase + main.pos
      /\ PassLen \in Nat /\ passBase \in Nat
  BY QTypes
<1>3. /\ sdData \in [Slots -> [1..MaxChunk -> Contents]] /\ Mat(main.pos) \in 0..NMat-1
      /\ Chunks[Mat(main.pos)] \in 1..MaxChunk /\ MaxChunk \in Nat /\ main.chunk \in 1..MaxChunk+1
  BY <1>2, PosFacts, ModelAssumption DEF TypeInv, TypeOK, MainState
<1>4. ASSUME sdData' = sdData, bounce' = bounce, Fewer(sdMidx', sdMidx),
             mainPC' \notin {"pread", "memcpy", "place"}
      PROVE  DataInv'
  <2>1. SlotBytes'
    BY <1>4, SameBytes DEF Fewer
  <2>2. SdBytes'
    BY <1>1, <1>4 DEF DataInv, SdBytes, Whole, Copied
  <2>3. MainBytes'
    BY <1>4 DEF MainBytes
  <2> QED
    BY <2>1, <2>2, <2>3 DEF DataInv
<1>5. CASE FetchCold \/ FetchPipelined \/ AwaitWoken \/ ClaimWoken
  <2>1. sdData' = sdData /\ bounce' = bounce
    BY <1>5 DEF FetchCold, FetchPipelined, AwaitWoken, ClaimWoken
  <2>2. ASSUME NEW sm \in [Slots -> {Free, Reading} \cup Nat], Fewer(sm, sdMidx),
               NEW W, NEW P, P \in {"cold", "refill"}, Claim(sm, W, P)
        PROVE  Fewer(sdMidx', sdMidx) /\ mainPC' \notin {"pread", "memcpy", "place"}
    BY <2>2 DEF Claim, Fewer
  <2>3. ASSUME NEW sm \in [Slots -> {Free, Reading} \cup Nat], Fewer(sm, sdMidx),
               NEW R, NEW W, AwaitMat(sm, R, W)
        PROVE  Fewer(sdMidx', sdMidx) /\ mainPC' \notin {"pread", "memcpy", "place"}
    BY <2>2, <2>3 DEF AwaitMat, Hand
  <2>4. /\ ReleasedMidx \in [Slots -> {Free, Reading} \cup Nat] /\ Fewer(ReleasedMidx, sdMidx)
        /\ Fewer(sdMidx, sdMidx)
    BY ReleaseFewer DEF QInv, Numbers, Fewer
  <2>5. Fewer(sdMidx', sdMidx) /\ mainPC' \notin {"pread", "memcpy", "place"}
    <3>1. CASE FetchCold
      BY <2>2, <2>4, <3>1 DEF FetchCold
    <3>2. CASE FetchPipelined
      BY <2>3, <2>4, <3>2 DEF FetchPipelined
    <3>3. CASE AwaitWoken
      BY <1>2, <2>3, <2>4, <3>3 DEF AwaitWoken
    <3>4. CASE ClaimWoken
      BY <1>2, <2>2, <2>4, <3>4 DEF ClaimWoken
    <3> QED
      BY <1>5, <3>1, <3>2, <3>3, <3>4
  <2> QED
    BY <1>4, <2>1, <2>5
<1>6. CASE SyncFails \/ UseEnd \/ Drain \/ NextForward \/ Shutdown \/ Join
  <2>1. sdData' = sdData /\ bounce' = bounce /\ sdMidx' = sdMidx
        /\ mainPC' \notin {"pread", "memcpy", "place"}
    BY <1>6 DEF SyncFails, UseEnd, Drain, NextForward, Shutdown, Join, slotVars, mainVars
  <2> QED
    BY <1>4, <2>1 DEF Fewer
<1>7. CASE SyncOpen
  <2>1. /\ sdData' = sdData /\ bounce' = bounce /\ sdMidx' = sdMidx /\ mainPC' = "pread"
        /\ main'.chunk = 1
    BY <1>2, <1>7 DEF SyncOpen, slotVars, MainState
  <2>2. SlotBytes' /\ SdBytes'
    BY <1>1, <2>1, SameBytes DEF DataInv, SdBytes, Whole, Copied
  <2>3. MainBytes'
    BY <2>1 DEF MainBytes, Copied
  <2> QED
    BY <2>2, <2>3 DEF DataInv
<1>8. CASE SyncPread
  <2>1. /\ sdData' = sdData /\ bounce' = Chunk(main.pos, main.chunk) /\ sdMidx' = sdMidx
        /\ mainPC = "pread" /\ mainPC' = "memcpy" /\ main' = main
    BY <1>8 DEF SyncPread, slotVars
  <2>2. ~SdWrites
    BY <2>1, OneReads DEF MainWrites
  <2>3. SlotBytes' /\ SdBytes'
    BY <1>1, <2>1, <2>2, SameBytes DEF SdBytes, SdWrites
  <2>4. MainBytes'
    BY <2>1 DEF DataInv, MainBytes, Copied
  <2> QED
    BY <2>3, <2>4 DEF DataInv
<1>9. CASE SyncMemcpy
  <2>1. /\ sdData' = [sdData EXCEPT ![main.slot][main.chunk] = bounce] /\ bounce' = bounce
        /\ mainPC = "memcpy" /\ sdMidx' = sdMidx
        /\ mainPC' = IF main.chunk < Chunks[Mat(main.pos)] THEN "pread" ELSE "place"
        /\ main'.chunk = main.chunk + 1 /\ main'.pos = main.pos /\ main'.slot = main.slot
    BY <1>2, <1>9 DEF SyncMemcpy, MainState
  <2>2. ~SdWrites /\ sdMidx[main.slot] = Reading
    BY <2>1, OneReads DEF MainWrites, SlotInv
  <2>3. SdBytes'
    BY <1>1, <2>2 DEF SdBytes, SdWrites
  <2>4. main.chunk <= Chunks[Mat(main.pos)] /\ main.chunk \in 1..MaxChunk
    BY <1>3, <2>1 DEF TypeInv, MainThreadInv
  <2>5. \A s \in Slots : \A c \in 1..MaxChunk :
            sdData'[s][c] = IF s = main.slot /\ c = main.chunk THEN bounce ELSE sdData[s][c]
    BY <1>2, <1>3, <2>1, <2>4
  <2>6. SlotBytes'
    <3> SUFFICES ASSUME NEW s \in Slots, sdMidx[s] >= 0 PROVE Whole(s, sdMidx[s] % PassLen)'
      BY <2>1 DEF SlotBytes
    <3>1. s # main.slot
      BY <2>2 DEF Reading
    <3>2. sdData'[s] = sdData[s]
      BY <1>2, <1>3, <2>1, <3>1
    <3>3. Whole(s, sdMidx[s] % PassLen)
      BY DEF DataInv, SlotBytes
    <3> QED
      BY <2>1, <3>2, <3>3 DEF Whole, Copied
  <2>7. \A c \in 1..main.chunk : sdData'[main.slot][c] = Chunk(main.pos, c)
    <3> SUFFICES ASSUME NEW c \in 1..main.chunk PROVE sdData'[main.slot][c] = Chunk(main.pos, c)
      OBVIOUS
    <3>1. c \in 1..MaxChunk
      BY <1>3, <2>4
    <3>2. bounce = Chunk(main.pos, main.chunk) /\ Copied(main.slot, main.pos, main.chunk - 1)
      BY <2>1 DEF DataInv, MainBytes
    <3>3. CASE c = main.chunk
      BY <1>2, <2>5, <3>1, <3>2, <3>3
    <3>4. CASE c # main.chunk
      <4>1. c \in 1..main.chunk - 1
        BY <2>4, <3>4
      <4> QED
        BY <1>2, <2>5, <3>1, <3>2, <3>4, <4>1 DEF Copied
    <3> QED
      BY <3>3, <3>4
  <2>8. MainBytes'
    <3>1. mainPC' = "pread" => \A c \in 1..main'.chunk - 1 : sdData'[main'.slot][c] = Chunk(main'.pos, c)
      BY <1>3, <2>1, <2>7
    <3>2. mainPC' = "place" => main.chunk = Chunks[Mat(main.pos)]
      BY <1>3, <2>1, <2>4
    <3>3. mainPC' = "place" => \A c \in 1..Chunks[Mat(main'.pos)] : sdData'[main'.slot][c] = Chunk(main'.pos, c)
      BY <2>1, <2>7, <3>2
    <3> QED
      BY <2>1, <3>1, <3>3 DEF MainBytes, Whole, Copied
  <2> QED
    BY <2>3, <2>6, <2>8 DEF DataInv
<1>10. CASE SyncPlace
  <2>1. /\ sdData' = sdData /\ bounce' = bounce /\ mainPC = "place" /\ Hand(main.slot)
        /\ sdMidx' = [sdMidx EXCEPT ![main.slot] = Midx]
    BY <1>10 DEF SyncPlace
  <2>2. SdBytes' /\ MainBytes'
    BY <1>1, <2>1 DEF DataInv, SdBytes, MainBytes, Whole, Copied, Hand
  <2>3. Midx % PassLen = main.pos
    <3>1. PICK k \in Nat : passBase = PassLen * k
      BY DEF QInv, Order
    <3>2. passBase <= Midx /\ Midx < passBase + PassLen
      BY <1>2
    <3>3. Midx % PassLen = Midx - passBase
      BY <1>2, <3>1, <3>2, PosOf
    <3> QED
      BY <1>2, <3>3
  <2>4. SlotBytes'
    <3> SUFFICES ASSUME NEW s \in Slots, sdMidx'[s] >= 0 PROVE Whole(s, sdMidx'[s] % PassLen)
      BY <2>1 DEF SlotBytes, Whole, Copied
    <3>1. CASE s = main.slot
      BY <1>2, <2>1, <2>3, <3>1 DEF DataInv, MainBytes
    <3>2. CASE s # main.slot
      <4>1. sdMidx'[s] = sdMidx[s]
        BY <1>2, <2>1, <3>2
      <4> QED
        BY <4>1 DEF DataInv, SlotBytes
    <3> QED
      BY <3>1, <3>2
  <2> QED
    BY <2>2, <2>4 DEF DataInv
<1> QED
  BY <1>5, <1>6, <1>7, <1>8, <1>9, <1>10 DEF MainNext
\* The prefetch thread's steps and the bytes.
LEMMA SdBytesKept ==
    ASSUME TypeInv, SlotInv, QInv, ReadInv, DataInv, SdNext, ReadsFine'
    PROVE  DataInv'
<1>1. mainPC' = mainPC /\ main' = main
  BY DEF SdNext, SdLeave, SdTake, SdWait, SdOpen, SdNoFd, SdPread, SdMemcpy, SdPublish, mainVars
<1>2. /\ sd \in SdState /\ sd.slot \in Slots /\ sd.midx \in Nat
      /\ sdMidx \in [Slots -> {Free, Reading} \cup Nat]
  BY QTypes
<1>3. /\ sdData \in [Slots -> [1..MaxChunk -> Contents]] /\ Chunks[Mat(SdPos)] \in 1..MaxChunk
      /\ MaxChunk \in Nat /\ sd.chunk \in 1..MaxChunk+1 /\ (Layer(SdPos) * NMat) + Mat(SdPos) = SdPos
  BY <1>2, InPass, ModelAssumption DEF TypeInv, TypeOK, SdState
<1>4. CASE SdLeave \/ SdTake \/ SdWait \/ SdOpen \/ SdNoFd
  <2>1. /\ sdData' = sdData /\ bounce' = bounce /\ sdPC' \notin {"memcpy", "publish"}
        /\ (sdPC' = "pread" => sd'.chunk = 1)
    BY <1>2, <1>4 DEF SdLeave, SdTake, SdWait, SdOpen, SdNoFd, sdVars, SdState, slotVars
  <2>2. Fewer(sdMidx', sdMidx)
    BY <1>2, <1>4 DEF SdLeave, SdTake, SdWait, SdOpen, SdNoFd, slotVars, Fewer
  <2>3. SlotBytes'
    BY <2>1, <2>2, SameBytes DEF Fewer
  <2>4. SdBytes'
    BY <2>1 DEF SdBytes, Copied
  <2>5. MainBytes'
    BY <1>1, <2>1 DEF DataInv, MainBytes, Whole, Copied
  <2> QED
    BY <2>3, <2>4, <2>5 DEF DataInv
<1>5. CASE SdPread
  <2>1. /\ sdData' = sdData /\ sdMidx' = sdMidx /\ sdPC = "pread" /\ sdPC' = "memcpy" /\ sd' = sd
        /\ bounce' = Chunk((fd * NMat) + Mat(SdPos), sd.chunk)
    <3>1. faults \in Nat
      BY DEF TypeInv, TypeOK
    <3>2. sdPC' # "perr"
      BY <1>5, <3>1 DEF SdPread, ReadsFine
    <3> QED
      BY <1>5, <3>2 DEF SdPread, slotVars
  <2>2. fd = Layer(SdPos) /\ ~MainWrites
    BY <2>1, OneReads DEF TypeInv, SdThreadInv, SdWrites
  <2>3. bounce' = Chunk(SdPos, sd.chunk)
    BY <1>3, <2>1, <2>2
  <2>4. SdPos' = SdPos
    BY <2>1 DEF SdPos
  <2>5. SlotBytes'
    BY <2>1, SameBytes
  <2>6. SdBytes'
    BY <2>1, <2>3, <2>4 DEF DataInv, SdBytes, Copied
  <2>7. MainBytes'
    BY <1>1, <2>2 DEF MainBytes, MainWrites
  <2> QED
    BY <2>5, <2>6, <2>7 DEF DataInv
<1>6. CASE SdMemcpy
  <2>1. /\ sdData' = [sdData EXCEPT ![sd.slot][sd.chunk] = bounce] /\ sdPC = "memcpy" /\ sdMidx' = sdMidx
        /\ sdPC' = IF sd.chunk < Chunks[Mat(SdPos)] THEN "pread" ELSE "publish"
        /\ sd'.chunk = sd.chunk + 1 /\ sd'.midx = sd.midx /\ sd'.slot = sd.slot
    BY <1>2, <1>6 DEF SdMemcpy, SdState
  <2>2. SdPos' = SdPos
    BY <2>1 DEF SdPos
  <2>3. ~MainWrites /\ sdMidx[sd.slot] = Reading
    BY <2>1, OneReads DEF SlotInv, SdWrites
  <2>4. MainBytes'
    BY <1>1, <2>3 DEF MainBytes, MainWrites
  <2>5. sd.chunk <= Chunks[Mat(SdPos)] /\ sd.chunk \in 1..MaxChunk
    BY <1>3, <2>1 DEF TypeInv, SdThreadInv
  <2>6. \A s \in Slots : \A c \in 1..MaxChunk :
            sdData'[s][c] = IF s = sd.slot /\ c = sd.chunk THEN bounce ELSE sdData[s][c]
    BY <1>2, <1>3, <2>1, <2>5
  <2>7. SlotBytes'
    <3> SUFFICES ASSUME NEW s \in Slots, sdMidx[s] >= 0 PROVE Whole(s, sdMidx[s] % PassLen)'
      BY <2>1 DEF SlotBytes
    <3>1. s # sd.slot
      BY <2>3 DEF Reading
    <3>2. sdData'[s] = sdData[s]
      BY <1>2, <1>3, <2>1, <3>1
    <3>3. Whole(s, sdMidx[s] % PassLen)
      BY DEF DataInv, SlotBytes
    <3> QED
      BY <2>1, <3>2, <3>3 DEF Whole, Copied
  <2>8. \A c \in 1..sd.chunk : sdData'[sd.slot][c] = Chunk(SdPos, c)
    <3> SUFFICES ASSUME NEW c \in 1..sd.chunk PROVE sdData'[sd.slot][c] = Chunk(SdPos, c)
      OBVIOUS
    <3>1. c \in 1..MaxChunk
      BY <1>3, <2>5
    <3>2. bounce = Chunk(SdPos, sd.chunk) /\ Copied(sd.slot, SdPos, sd.chunk - 1)
      BY <2>1 DEF DataInv, SdBytes
    <3>3. CASE c = sd.chunk
      BY <1>2, <2>6, <3>1, <3>2, <3>3
    <3>4. CASE c # sd.chunk
      <4>1. c \in 1..sd.chunk - 1
        BY <2>5, <3>4
      <4> QED
        BY <1>2, <2>6, <3>1, <3>2, <3>4, <4>1 DEF Copied
    <3> QED
      BY <3>3, <3>4
  <2>9. SdBytes'
    <3>1. sdPC' = "pread" => \A c \in 1..sd'.chunk - 1 : sdData'[sd'.slot][c] = Chunk(SdPos', c)
      BY <1>3, <2>1, <2>2, <2>8
    <3>2. sdPC' = "publish" => sd.chunk = Chunks[Mat(SdPos)]
      BY <1>3, <2>1, <2>5
    <3>3. sdPC' = "publish" => \A c \in 1..Chunks[Mat(SdPos')] : sdData'[sd'.slot][c] = Chunk(SdPos', c)
      BY <2>1, <2>2, <2>8, <3>2
    <3> QED
      BY <2>1, <3>1, <3>3 DEF SdBytes, Whole, Copied
  <2> QED
    BY <2>4, <2>7, <2>9 DEF DataInv
<1>7. CASE SdPublish
  <2>1. /\ sdPC = "publish" /\ sdMidx' = [sdMidx EXCEPT ![sd.slot] = sd.midx] /\ sdData' = sdData
        /\ bounce' = bounce /\ sdPC' = "loop"
    BY <1>7 DEF SdPublish, ReadInv
  <2>2. Whole(sd.slot, sd.midx % PassLen)
    BY <2>1 DEF DataInv, SdBytes, SdPos
  <2>3. SlotBytes'
    <3> SUFFICES ASSUME NEW s \in Slots, sdMidx'[s] >= 0 PROVE Whole(s, sdMidx'[s] % PassLen)
      BY <2>1 DEF SlotBytes, Whole, Copied
    <3>1. CASE s = sd.slot
      BY <1>2, <2>1, <2>2, <3>1
    <3>2. CASE s # sd.slot
      <4>1. sdMidx'[s] = sdMidx[s]
        BY <1>2, <2>1, <3>2
      <4> QED
        BY <4>1 DEF DataInv, SlotBytes
    <3> QED
      BY <3>1, <3>2
  <2>4. SdBytes' /\ MainBytes'
    BY <1>1, <2>1 DEF DataInv, SdBytes, MainBytes, Whole, Copied
  <2> QED
    BY <2>3, <2>4 DEF DataInv
<1> QED
  BY <1>4, <1>5, <1>6, <1>7 DEF SdNext

LEMMA InitBytes == Init => ReadInv /\ DataInv
<1> SUFFICES ASSUME Init PROVE ReadInv /\ DataInv
  OBVIOUS
<1>1. ReadInv
  BY DEF Init, ReadInv, MainWrites
<1>2. \A s \in Slots : sdMidx[s] = -1
  BY DEF Init, Free
<1>3. DataInv
  BY <1>2 DEF Init, DataInv, SlotBytes, SdBytes, MainBytes
<1> QED
  BY <1>1, <1>3

\* A read that has failed stays failed.
LEMMA FineBefore ==
    ASSUME TypeInv, [Next]_vars, ReadsFine'
    PROVE  ReadsFine
<1>1. faults \in Nat
  BY DEF TypeInv, TypeOK
<1>2. faults' = faults \/ faults' = faults + 1
  BY DEF Next, MainNext, SdNext, Terminated, vars, FetchCold, FetchPipelined, AwaitWoken, ClaimWoken,
         SyncOpen, SyncPread, SyncMemcpy, SyncFails, SyncPlace, UseEnd, Drain, NextForward, Shutdown,
         Join, SdLeave, SdTake, SdWait, SdOpen, SdNoFd, SdPread, SdMemcpy, SdPublish
<1> QED
  BY <1>1, <1>2 DEF ReadsFine

BytesInv == ReadsFine => ReadInv /\ DataInv

LEMMA NextBytes ==
    ASSUME TypeInv, SlotInv, QInv, BytesInv, [Next]_vars
    PROVE  BytesInv'
<1> SUFFICES ASSUME ReadsFine' PROVE ReadInv' /\ DataInv'
  BY DEF BytesInv
<1>1. ReadInv /\ DataInv
  BY FineBefore DEF BytesInv
<1>2. CASE UNCHANGED vars
  BY <1>1, <1>2 DEF vars, slotVars, queueVars, mainVars, sdVars, ReadInv, MainWrites, Midx, UpFirst,
         DataInv, SlotBytes, SdBytes, MainBytes, Whole, Copied, SdPos
<1>3. CASE MainNext
  BY <1>1, <1>3, MainRead, MainBytesKept
<1>4. CASE SdNext
  BY <1>1, <1>4, SdRead, SdBytesKept
<1> QED
  BY <1>2, <1>3, <1>4 DEF Next, Terminated

LEMMA AlwaysBytes == Spec => [](TypeInv /\ SlotInv /\ QInv /\ BytesInv)
<1>1. TypeInv /\ SlotInv /\ QInv /\ BytesInv /\ [Next]_vars => BytesInv'
  BY NextBytes
<1>2. Init => BytesInv
  BY InitBytes DEF BytesInv
<1> QED
  BY <1>1, <1>2, AlwaysQueue, PTL DEF Spec

\* What a multiplication reads.
LEMMA UseReads ==
    ASSUME TypeInv, QInv, ReadInv, DataInv, mainPC = "use", main.use = Mat(main.pos)
    PROVE  /\ main.pos \in 0..PassLen-1 /\ Midx % PassLen = main.pos
           /\ \A c \in 1..Chunks[main.use] : sdData[nib[main.use]][c] = Chunk(main.pos, c)
<1>1. nib[main.use] \in Slots /\ sdMidx[nib[main.use]] = Midx
  BY DEF ReadInv
<1>2. /\ main.pos \in 0..PassLen-1 /\ Midx \in Nat /\ Midx = passBase + main.pos /\ passBase \in Nat
      /\ PassLen \in Nat
  BY QTypes
<1>3. Midx % PassLen = main.pos
  <2>1. PICK k \in Nat : passBase = PassLen * k
    BY DEF QInv, Order
  <2>2. passBase <= Midx /\ Midx < passBase + PassLen
    BY <1>2
  <2>3. Midx % PassLen = Midx - passBase
    BY <1>2, <2>1, <2>2, PosOf
  <2> QED
    BY <1>2, <2>3
<1>4. Whole(nib[main.use], Midx % PassLen)
  BY <1>1, <1>2 DEF DataInv, SlotBytes
<1> QED
  BY <1>1, <1>2, <1>3, <1>4 DEF Whole, Copied

\* In prompts and in decode steps every matmul but that of up in a decode step reads the
\* file bytes of its matrix as long as it runs, until a read fails: for every number of
\* slots, layers, bounce loads and passes and whichever files could not be opened.
THEOREM OwnMatrix == Spec => []OwnBytes
<1>1. TypeInv /\ QInv /\ BytesInv => OwnBytes
  BY UseReads DEF BytesInv, OwnBytes
<1> QED
  BY <1>1, AlwaysBytes, PTL

\* What follows is said of prompts whose reads succeed: they multiply each matrix right
\* after it was fetched.
Clean == Forwards = {"prompt"} /\ "read" \notin Faults

LEMMA CleanReads ==
    ASSUME Clean, TypeInv, BytesInv
    PROVE  /\ ReadInv /\ DataInv /\ main.kind = "prompt"
           /\ mainPC = "use" => main.use = Mat(main.pos)
<1>1. main.kind = "prompt"
  BY DEF Clean, TypeInv, TypeOK, MainState
<1>2. ReadInv /\ DataInv
  BY DEF Clean, BytesInv, ReadsFine
<1> QED
  BY <1>1, <1>2 DEF ReadInv, UpFirst

\* "Bit-exact by construction" holds of them.
THEOREM Exact ==
    ASSUME Forwards = {"prompt"}, "read" \notin Faults
    PROVE  Spec => []BitExact
<1>1. Clean
  BY DEF Clean
<1>2. TypeInv /\ QInv /\ BytesInv => BitExact
  <2> SUFFICES ASSUME TypeInv, QInv, BytesInv, mainPC = "use", NEW c \in 1..Chunks[main.use]
               PROVE  sdData[nib[main.use]][c] = Chunk((main.pos - Mat(main.pos)) + main.use, c)
    BY DEF BitExact
  <2>1. ReadInv /\ DataInv /\ main.use = Mat(main.pos)
    BY <1>1, CleanReads
  <2>2. main.pos \in 0..PassLen-1 /\ sdData[nib[main.use]][c] = Chunk(main.pos, c)
    BY <2>1, UseReads
  <2>3. (main.pos - Mat(main.pos)) + Mat(main.pos) = main.pos
    <3>1. main.pos \in Int /\ Mat(main.pos) \in Int
      BY <2>2, PosFacts, PassLenPos
    <3> QED
      BY <3>1
  <2> QED
    BY <2>1, <2>2, <2>3
<1> QED
  BY <1>1, <1>2, AlwaysBytes, PTL
-----------------------------------------------------------------------------
(* The prefetcher is the stream of weights WeightStream promises: the matrices   *)
(* are multiplied in order, each once in a pass and with its own bytes, and the  *)
(* stream is closed between two passes only.                                     *)
ServedInv ==
    /\ DOMAIN stream = {"served", "bytes", "dropped"}
    /\ mainPC # "exit" =>
          stream.served = IF mainPC \in {"head", "join", "done"} THEN passBase
                          ELSE IF mainPC = "drain" THEN Midx + 1 ELSE Midx
    /\ shutdown => mainPC \in {"join", "done"}

\* The matrix being handed over is the next one.
LEMMA HandServed ==
    ASSUME TypeInv, main.kind = "prompt", ServedInv, NEW s \in Slots, Hand(s),
           mainPC \notin {"head", "join", "done", "exit", "drain"}, UNCHANGED <<passBase, stream, shutdown>>
    PROVE  ServedInv'
<1>1. main \in MainState
  BY DEF TypeInv, TypeOK
<1>2. mainPC' = "use" /\ main'.pos = main.pos
  BY <1>1 DEF Hand, MainState
<1> QED
  BY <1>2 DEF ServedInv, Midx

LEMMA MainServed ==
    ASSUME TypeInv, QInv, Clean, BytesInv, ServedInv, MainNext
    PROVE  ServedInv'
<1>0. ReadInv /\ main.kind = "prompt" /\ (mainPC = "use" => main.use = Mat(main.pos))
  BY CleanReads
<1>1. main \in MainState /\ main.slot \in Slots /\ Midx = passBase + main.pos /\ main.pos \in Nat
      /\ passBase \in Nat /\ sdMidx \in [Slots -> {Free, Reading} \cup Nat]
  BY QTypes
<1>2. ASSUME mainPC \in {"fetch", "cold", "await"} \cup {"sync", "pread", "memcpy", "place"},
             mainPC' \in {"cold", "await", "exit", "sync", "pread", "memcpy", "place"},
             main'.pos = main.pos, UNCHANGED <<passBase, stream, shutdown>>
      PROVE  ServedInv'
  BY <1>2 DEF ServedInv, Midx
<1>3. CASE FetchCold \/ ClaimWoken
  <2>1. mainPC \in {"fetch", "cold"} /\ UNCHANGED <<passBase, stream, shutdown>>
    BY <1>0, <1>3 DEF FetchCold, ClaimWoken, ReadInv
  <2>2. mainPC' \in {"sync", "cold"} /\ main'.pos = main.pos
    BY <1>1, <1>3, <2>1 DEF FetchCold, ClaimWoken, Claim, MainState
  <2> QED
    BY <1>2, <2>1, <2>2
<1>4. CASE FetchPipelined \/ AwaitWoken
  <2>1. mainPC \in {"fetch", "await"} /\ UNCHANGED <<passBase, stream, shutdown>>
    BY <1>4 DEF FetchPipelined, AwaitWoken
  <2>2. \/ \E s \in Slots : Hand(s)
        \/ mainPC' = "await" /\ main' = main
    BY <1>0, <1>4 DEF FetchPipelined, AwaitWoken, AwaitMat, ReadInv
  <2> QED
    BY <1>0, <1>2, <2>1, <2>2, HandServed
<1>5. CASE SyncOpen \/ SyncPread \/ SyncMemcpy \/ SyncFails
  <2>1. /\ mainPC \in {"sync", "pread", "memcpy"} /\ mainPC' \in {"pread", "memcpy", "place", "exit"}
        /\ UNCHANGED <<passBase, stream, shutdown>> /\ main'.pos = main.pos
    BY <1>1, <1>5 DEF SyncOpen, SyncPread, SyncMemcpy, SyncFails, MainState
  <2> QED
    BY <1>2, <2>1
<1>6. CASE SyncPlace
  <2>1. /\ mainPC = "place" /\ Hand(main.slot)
        /\ UNCHANGED <<passBase, stream, shutdown>>
    BY <1>1, <1>6 DEF SyncPlace
  <2> QED
    BY <1>0, <1>1, <2>1, HandServed
<1>7. CASE UseEnd
  <2>1. /\ mainPC = "use" /\ stream.served = Midx /\ ~shutdown
        /\ \/ mainPC' = "fetch" /\ main'.pos = main.pos + 1
           \/ mainPC' = "drain" /\ main' = main
        /\ UNCHANGED <<passBase, shutdown>>
    BY <1>0, <1>1, <1>7 DEF UseEnd, ServedInv, MainState
  <2>2. stream'.served = Midx + 1 /\ DOMAIN stream' = {"served", "bytes", "dropped"}
    BY <1>7, <2>1 DEF UseEnd, ServedInv
  <2> QED
    BY <1>1, <2>1, <2>2 DEF ServedInv, Midx
<1>8. CASE Drain
  <2>1. mainPC = "drain" /\ main.pos = PassLen - 1 /\ UNCHANGED <<stream, shutdown, main>> /\ ~shutdown
    BY <1>8 DEF Drain, QInv, Stages, mainVars, ServedInv
  <2>2. CASE UNCHANGED <<mainVars, passBase>>
    BY <2>1, <2>2 DEF mainVars, ServedInv, Midx
  <2>3. CASE passBase' = passBase + PassLen /\ mainPC' = "head"
    <3>1. (passBase + (PassLen - 1)) + 1 = passBase + PassLen
      BY <1>1, PassLenPos
    <3> QED
      BY <1>1, <2>1, <2>3, <3>1 DEF ServedInv
  <2> QED
    BY <1>8, <2>2, <2>3 DEF Drain
<1>9. CASE NextForward
  <2>1. /\ mainPC = "head" /\ mainPC' = "fetch" /\ main'.pos = 0 /\ UNCHANGED <<passBase, stream, shutdown>>
    BY <1>1, <1>9 DEF NextForward, MainState
  <2>2. Midx' = passBase
    BY <1>1, <2>1 DEF Midx
  <2> QED
    BY <2>1, <2>2 DEF ServedInv
<1>10. CASE Shutdown \/ Join
  BY <1>10 DEF Shutdown, Join, ServedInv
<1> QED
  BY <1>3, <1>4, <1>5, <1>6, <1>7, <1>8, <1>9, <1>10 DEF MainNext

\* The prefetch thread multiplies nothing.
LEMMA SdServed ==
    ASSUME ServedInv, SdNext
    PROVE  ServedInv' /\ stream'.served = stream.served /\ stream'.bytes = stream.bytes /\ shutdown' = shutdown
<1>1. UNCHANGED <<mainPC, main, passBase, shutdown>>
  BY DEF SdNext, SdLeave, SdTake, SdWait, SdOpen, SdNoFd, SdPread, SdMemcpy, SdPublish, mainVars
<1>2. /\ DOMAIN stream' = DOMAIN stream /\ stream'.served = stream.served /\ stream'.bytes = stream.bytes
  <2>1. CASE SdNoFd
    BY <2>1 DEF SdNoFd, ServedInv
  <2>2. CASE stream' = stream
    BY <2>2
  <2> QED
    BY <2>1, <2>2 DEF SdNext, SdLeave, SdTake, SdWait, SdOpen, SdPread, SdMemcpy, SdPublish
<1> QED
  BY <1>1, <1>2 DEF ServedInv, Midx

\* The multiplication of matrix pos reads the bytes of its file region.
LEMMA UseMultiplies ==
    ASSUME TypeInv, QInv, Clean, BytesInv, ServedInv, UseEnd
    PROVE  Stream!Multiply
<1>0. ReadInv /\ DataInv
  BY CleanReads
<1>1. mainPC = "use" /\ main.use = Mat(main.pos) /\ ~shutdown /\ stream.served = Midx /\ shutdown' = shutdown
  BY CleanReads DEF UseEnd, ServedInv
<1>2. /\ main.pos \in 0..PassLen-1 /\ Midx % PassLen = main.pos
      /\ \A c \in 1..Chunks[main.use] : sdData[nib[main.use]][c] = Chunk(main.pos, c)
  BY <1>0, <1>1, UseReads
<1>3. /\ stream'.served = stream.served + 1
      /\ stream'.bytes = [c \in 1..Chunks[main.use] |-> sdData[nib[main.use]][c]]
  BY DEF UseEnd, ServedInv
<1>4. stream'.bytes = FileBytes(main.pos)
  BY <1>1, <1>2, <1>3 DEF FileBytes
<1> QED
  BY <1>1, <1>2, <1>3, <1>4 DEF Stream!Multiply

\* A pass is over when the stream is closed.
LEMMA ShutdownCloses ==
    ASSUME TypeInv, QInv, ServedInv, Shutdown
    PROVE  Stream!Close
<1>1. mainPC = "head" /\ ~shutdown /\ stream.served = passBase /\ shutdown' = TRUE /\ stream' = stream
  BY DEF Shutdown, ServedInv
<1>2. PICK k \in Nat : passBase = PassLen * k
  BY DEF QInv, Order
<1>3. passBase % PassLen = 0
  <2>1. PassLen \in Nat \ {0} /\ 0 \in 0..PassLen-1 /\ PassLen * k \in Nat
    BY PassLenPos
  <2>2. ((PassLen * k) + 0) % PassLen = 0
    BY <2>1, DivUnique
  <2>3. (PassLen * k) + 0 = PassLen * k
    BY <2>1
  <2> QED
    BY <1>2, <2>2, <2>3
<1> QED
  BY <1>1, <1>3 DEF Stream!Close

\* In prompts whose reads succeed the prefetcher implements the stream, for every number
\* of slots, layers, bounce loads and passes, every ring and lookahead, and whichever files
\* could not be opened.  That the forwards go on is left to TLC (StreamSpec).
THEOREM ImplementsStream ==
    ASSUME Forwards = {"prompt"}, "read" \notin Faults
    PROVE  Spec => Stream!Safe
<1>1. Clean
  BY DEF Clean
<1>2. Init => ServedInv /\ Stream!Init
  BY DEF Init, ServedInv, Stream!Init
<1>3. TypeInv /\ QInv /\ BytesInv /\ ServedInv /\ [Next]_vars
        => ServedInv' /\ [Stream!Next]_(Stream!streamVars)
  <2> SUFFICES ASSUME TypeInv, QInv, BytesInv, ServedInv, [Next]_vars
               PROVE  ServedInv' /\ [Stream!Next]_(Stream!streamVars)
    OBVIOUS
  <2>1. CASE UNCHANGED vars
    BY <2>1 DEF vars, mainVars, ServedInv, Midx, Stream!streamVars
  <2>2. CASE MainNext
    <3>1. ServedInv'
      BY <1>1, <2>2, MainServed
    <3>2. CASE UseEnd
      BY <1>1, <3>1, <3>2, UseMultiplies DEF Stream!Next
    <3>3. CASE Shutdown
      BY <3>1, <3>3, ShutdownCloses DEF Stream!Next
    <3>4. CASE ~UseEnd /\ ~Shutdown
      <4>1. stream' = stream /\ shutdown' = shutdown
        BY <2>2, <3>4 DEF MainNext, FetchCold, FetchPipelined, AwaitWoken, ClaimWoken, SyncOpen,
           SyncPread, SyncMemcpy, SyncFails, SyncPlace, Drain, NextForward, Join
      <4> QED
        BY <3>1, <4>1 DEF Stream!streamVars
    <3> QED
      BY <3>2, <3>3, <3>4
  <2>3. CASE SdNext
    BY <2>3, SdServed DEF Stream!streamVars
  <2> QED
    BY <2>1, <2>2, <2>3 DEF Next, Terminated
<1> QED
  BY <1>1, <1>2, <1>3, AlwaysBytes, PTL DEF Spec, Stream!Safe
=============================================================================
