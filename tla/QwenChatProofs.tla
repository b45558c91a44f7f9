--------------------------- MODULE QwenChatProofs ---------------------------
(* What TLAPS proves of QwenChat, for every number of layers, every size of the *)
(* cache, every length of prompt and every number of decode steps.              *)
EXTENDS QwenChat, SequenceTheorems, FiniteSetTheorems, WellFoundedInduction, TLAPS

Base ==
    /\ Layers \in Nat \ {0} /\ KvCap \in Nat /\ KvCap > 7 /\ MaxSeq \in Nat /\ KvCap < MaxSeq
    /\ Headers \subseteq Int /\ Steps \subseteq Int /\ Deltas \subseteq Nat

LEMMA BaseFact == Base
  BY QwenChatAssumption DEF Base

Running == pc \in {"layer", "issue", "compute"}
Plans == [kind : {"prompt", "decode"}, gpos : Int, n : 1..MS, pool : {1, 3, 5, 7}, head : BOOLEAN]

Kinds ==
    /\ env \in Envs
    /\ pc \in {"regression", "decode", "chat", "pass", "layer", "issue", "compute",
               "shutdown", "join", "end", "exit"}
    /\ conv \in Nat /\ known \in Nat /\ tok \in Int /\ l \in 0..Layers
    /\ gen \in Nat /\ gen <= MaxSeq /\ kv_len \in Nat
    /\ todo \in Seq(Plans) /\ pass \in Plans \cup {NoPass}
    /\ DOMAIN kv = 0 .. Layers * KvCap - 1
    /\ pc = "regression" => conv <= 3
    /\ pc = "decode" => conv = 3
    /\ pc = "chat" => env.ask = "chat"

\* The passes still to make: the chunks of a prompt, one after the other up to its end,
\* the last one with a head; then decode steps, as many as the cache has room for.
PromptPlan(k) ==
    /\ todo[k].gpos \in Nat /\ todo[k].gpos + todo[k].n <= known /\ todo[k].gpos + todo[k].n <= KvCap
    /\ todo[k].head <=> todo[k].gpos + todo[k].n = known
    /\ todo[k].head => known + (Len(todo) - k) <= KvCap /\ gen + (Len(todo) - k) <= MaxSeq
    /\ \A j \in 1..k-1 : todo[j].kind = "prompt" /\ ~todo[j].head
    /\ k > 1 => todo[k].gpos = todo[k-1].gpos + todo[k-1].n
DecodePlan(k) ==
    /\ todo[k].n = 1 /\ todo[k].pool = 1 /\ todo[k].head
    /\ k > 1 => todo[k-1].head
    /\ env.ask = "chat" \/ conv > 3
PlanInv ==
    \A k \in 1..Len(todo) :
        /\ todo[k].kind = "prompt" => PromptPlan(k)
        /\ todo[k].kind = "decode" => DecodePlan(k)

\* The first n rows of a layer of the cache, or of all, are the keys of this conversation.
Filled(j, n) == \A r \in 0..n-1 : kv[j * KvCap + r] = [conv |-> conv, i |-> r, l |-> j, rope |-> r]
Kept(n) == \A j \in 0..Layers-1 : Filled(j, n)

\* What the next pass finds.
FirstInv ==
    pc = "pass" /\ todo # <<>> =>
        /\ todo[1].kind = "prompt" => todo[1].gpos = 0 \/ (todo[1].gpos = kv_len /\ Kept(kv_len))
        /\ todo[1].kind = "decode" =>
              /\ tok = kv_len /\ known = kv_len + 1 /\ Kept(kv_len)
              /\ kv_len + Len(todo) <= KvCap /\ gen + Len(todo) <= MaxSeq

\* The pass in hand: its rows are the tokens from gpos on, and went through l layers,
\* which have written their keys.
Hidden(n) == [m \in 1..pass.n |-> [conv |-> conv, i |-> pass.gpos + m - 1, layers |-> n]]
PassInv ==
    Running =>
        /\ pass \in Plans /\ pass.gpos \in Nat
        /\ pass.gpos + pass.n <= KvCap /\ pass.gpos + pass.n <= known
        /\ pass.head <=> pass.gpos + pass.n = known
        /\ pass.kind = "decode" => pass.n = 1 /\ pass.head /\ pass.pool = 1
        /\ x = Hidden(l)
        /\ pc # "layer" => weights = l /\ l < Layers
        /\ \A j \in 0..l-1 : Filled(j, pass.gpos + pass.n)
        /\ \A j \in l..Layers-1 : Filled(j, pass.gpos)
        /\ pass.kind = "prompt" /\ l > 0 => kv_len = pass.gpos + pass.n
HandInv ==
    Running =>
        /\ pass.head => /\ known + Len(todo) <= KvCap /\ gen + Len(todo) <= MaxSeq
                        /\ \A k \in 1..Len(todo) : todo[k].kind = "decode"
        /\ ~pass.head => \A k \in 1..Len(todo) :
              k = 1 => todo[k].kind = "prompt" /\ todo[k].gpos = pass.gpos + pass.n

\* Nothing of an attention is left when the pass is over.
SeenInv ==
    /\ pc \in {"regression", "decode", "chat", "pass"} => seen = <<>>
    /\ \A m \in DOMAIN seen :
          seen[m] = [s \in 1..(x[m].i + 1) |-> [conv |-> conv, i |-> s - 1, l |-> l - 1, rope |-> s - 1]]

\* The command buffers are given back when no prompt can come any more.
PoolInv ==
    \/ pools = {1, 3, 5, 7}
    \/ /\ 1 \in pools /\ pass.kind = "decode" /\ pc \notin {"regression", "decode", "chat"}
       /\ env.ask = "chat" \/ conv > 3
       /\ \A k \in 1..Len(todo) : todo[k].kind = "decode"

\* B_PREFETCH is delta layers ahead.
AheadInv ==
    Running /\ pass.kind = "decode" /\ env.delta # None =>
        /\ \A j \in l .. l + env.delta - 1 : j < Layers => j \in cached
        /\ pc # "layer" => l \in cached /\ (l + env.delta < Layers => l + env.delta \in cached)

IInv == Kinds /\ PlanInv /\ FirstInv /\ PassInv /\ HandInv /\ SeenInv /\ PoolInv /\ AheadInv

-----------------------------------------------------------------------------
(* The cache is one long array                                               *)

LEMMA Cell ==
    ASSUME NEW j \in 0..Layers-1, NEW r \in 0..KvCap-1
    PROVE  j * KvCap + r \in 0 .. Layers * KvCap - 1
<1>1. Layers \in Nat /\ KvCap \in Nat /\ j \in Nat /\ r \in Nat /\ r < KvCap
  BY BaseFact DEF Base
<1>2. PICK d \in Nat : Layers = j + 1 + d
  <2>1. Layers - j - 1 \in Nat /\ Layers = j + 1 + (Layers - j - 1)
    BY <1>1
  <2> QED
    BY <2>1
<1>3. PICK a \in Nat, b \in Nat : a = j * KvCap /\ b = d * KvCap
  BY <1>1, <1>2
<1>4. Layers * KvCap = a + KvCap + b
  BY <1>1, <1>2, <1>3
<1> QED
  BY <1>1, <1>3, <1>4

LEMMA CellsApart ==
    ASSUME NEW j \in 0..Layers-1, NEW r \in 0..KvCap-1, NEW k \in 0..Layers-1, NEW s \in 0..KvCap-1,
           j * KvCap + r = k * KvCap + s
    PROVE  j = k /\ r = s
<1>1. KvCap \in Nat /\ j \in Nat /\ r \in Nat /\ k \in Nat /\ s \in Nat /\ r < KvCap /\ s < KvCap
  BY BaseFact DEF Base
<1>2. ASSUME NEW a \in Nat, NEW b \in Nat, a < b PROVE a * KvCap + KvCap <= b * KvCap
  <2>1. PICK d \in Nat : b = a + 1 + d
    <3>1. b - a - 1 \in Nat /\ b = a + 1 + (b - a - 1)
      BY <1>2
    <3> QED
      BY <3>1
  <2>2. PICK u \in Nat, v \in Nat : u = a * KvCap /\ v = d * KvCap
    BY <1>1, <2>1
  <2>3. b * KvCap = u + KvCap + v
    BY <1>1, <2>1, <2>2
  <2> QED
    BY <1>1, <2>2, <2>3
<1>3. PICK u \in Nat, v \in Nat : u = j * KvCap /\ v = k * KvCap
  BY <1>1
<1>4. ~(j < k)
  BY <1>1, <1>2, <1>3
<1>5. ~(k < j)
  BY <1>1, <1>2, <1>3
<1>6. j = k
  BY <1>1, <1>4, <1>5
<1> QED
  BY <1>1, <1>3, <1>6

-----------------------------------------------------------------------------
(* How a prompt is cut and what follows it                                   *)

\* A prompt of n tokens, cut into chunks that follow one another, the last with a head.
Cut(ps, n) ==
    /\ ps \in Seq(Plans) /\ Len(ps) >= 1
    /\ \A k \in 1..Len(ps) :
          /\ ps[k].kind = "prompt" /\ ps[k].gpos \in Nat /\ ps[k].gpos + ps[k].n <= n
          /\ ps[k].head <=> ps[k].gpos + ps[k].n = n
          /\ ps[k].head <=> k = Len(ps)
          /\ k = 1 => ps[k].gpos = 0
          /\ k > 1 => ps[k].gpos = ps[k-1].gpos + ps[k-1].n

LEMMA PromptPlans ==
    ASSUME NEW g \in Nat, NEW n \in 1..7, NEW h \in BOOLEAN
    PROVE  /\ Prompt(g, n, h) \in Plans
           /\ Prompt(g, n, h).kind = "prompt" /\ Prompt(g, n, h).gpos = g
           /\ Prompt(g, n, h).n = n /\ (Prompt(g, n, h).head <=> h)
<1>1. PoolOf(n) \in {1, 3, 5, 7}
  BY DEF PoolOf
<1> QED
  BY <1>1 DEF Prompt, Plans, MS

LEMMA SingleCut ==
    ASSUME NEW n \in 1..7
    PROVE  Cut(<<Prompt(0, n, TRUE)>>, n)
<1>1. Prompt(0, n, TRUE) \in Plans /\ Prompt(0, n, TRUE).kind = "prompt" /\ Prompt(0, n, TRUE).gpos = 0
      /\ Prompt(0, n, TRUE).n = n /\ Prompt(0, n, TRUE).head
  BY PromptPlans
<1>2. PICK p \in Plans : p = Prompt(0, n, TRUE)
  BY <1>1
<1>3. PICK ps : ps = <<p>>
  OBVIOUS
<1>4. ps \in Seq(Plans) /\ Len(ps) = 1 /\ ps[1] = p
  BY <1>3
<1>5. ASSUME NEW k \in 1..Len(ps)
      PROVE  /\ ps[k].kind = "prompt" /\ ps[k].gpos \in Nat /\ ps[k].gpos + ps[k].n <= n
             /\ ps[k].head <=> ps[k].gpos + ps[k].n = n
             /\ ps[k].head <=> k = Len(ps)
             /\ k = 1 => ps[k].gpos = 0
             /\ ~(k > 1)
  <2>1. k = 1 /\ ps[k] = p
    BY <1>4
  <2>2. p.kind = "prompt" /\ p.gpos = 0 /\ p.n = n /\ p.head
    BY <1>1, <1>2
  <2> QED
    BY <1>4, <2>1, <2>2
<1>6. Cut(ps, n)
  BY <1>4, <1>5 DEF Cut
<1> QED
  BY <1>2, <1>3, <1>6

\* Seven tokens at a time, up to the last.
LEMMA ChunksCut ==
    ASSUME NEW n \in Nat \ {0}
    PROVE  Cut(Chunks(n), n)
<1> DEFINE c == (n + MS - 1) \div MS
           off(k) == MS * (k - 1)
<1>1. c \in Nat /\ c >= 1 /\ 7 * c >= n /\ 7 * (c - 1) < n
  BY DEF MS
<1>3. Chunks(n) = [k \in 1..c |-> Prompt(off(k), Min2(MS, n - off(k)), off(k) + Min2(MS, n - off(k)) = n)]
  BY DEF Chunks
<1> HIDE DEF c
<1>2. ASSUME NEW k \in 1..c
      PROVE  /\ off(k) \in Nat /\ Min2(MS, n - off(k)) \in 1..7 /\ off(k) + Min2(MS, n - off(k)) <= n
             /\ (off(k) + Min2(MS, n - off(k)) = n) <=> (k = c)
             /\ k < c => Min2(MS, n - off(k)) = 7
  <2>1. 7 * (k - 1) \in Nat /\ 7 * (k - 1) < n
    BY <1>1
  <2>2. CASE k = c
    BY <1>1, <2>1, <2>2 DEF Min2, MS
  <2>3. CASE k < c
    <3>1. 7 * (k - 1) + 7 < n
      BY <1>1, <2>3
    <3> QED
      BY <2>1, <2>3, <3>1 DEF Min2, MS
  <2> QED
    BY <1>1, <2>2, <2>3
<1> HIDE DEF off
<1>4. ASSUME NEW k \in 1..c
      PROVE  /\ Chunks(n)[k] \in Plans
             /\ Chunks(n)[k].kind = "prompt" /\ Chunks(n)[k].gpos = off(k)
             /\ Chunks(n)[k].n = Min2(MS, n - off(k))
             /\ Chunks(n)[k].head <=> k = c
  <2>1. PICK g \in Nat, m \in 1..7, h \in BOOLEAN :
            g = off(k) /\ m = Min2(MS, n - off(k)) /\ h = (off(k) + Min2(MS, n - off(k)) = n)
    BY <1>2
  <2>2. Chunks(n)[k] = Prompt(g, m, h)
    BY <1>3, <2>1
  <2>3. h <=> k = c
    BY <1>2, <2>1
  <2>4. /\ Prompt(g, m, h) \in Plans
        /\ Prompt(g, m, h).kind = "prompt" /\ Prompt(g, m, h).gpos = g
        /\ Prompt(g, m, h).n = m /\ (Prompt(g, m, h).head <=> h)
    BY PromptPlans
  <2>5. Chunks(n)[k] \in Plans
    BY <2>2, <2>4
  <2>6. Chunks(n)[k].kind = "prompt" /\ Chunks(n)[k].gpos = off(k) /\ Chunks(n)[k].n = Min2(MS, n - off(k))
    BY <2>1, <2>2, <2>4
  <2>7. Chunks(n)[k].head <=> k = c
    BY <2>2, <2>3, <2>4
  <2> QED
    BY <2>5, <2>6, <2>7
<1>5. Chunks(n) \in Seq(Plans) /\ Len(Chunks(n)) = c
  BY <1>1, <1>3, <1>4
<1>6. ASSUME NEW k \in 1..c, k > 1 PROVE Chunks(n)[k].gpos = Chunks(n)[k-1].gpos + Chunks(n)[k-1].n
  <2>1. k - 1 \in 1..c /\ k - 1 < c
    BY <1>1, <1>6
  <2>2. Min2(MS, n - off(k - 1)) = 7 /\ Chunks(n)[k-1].gpos = off(k - 1)
        /\ Chunks(n)[k-1].n = Min2(MS, n - off(k - 1)) /\ Chunks(n)[k].gpos = off(k)
    BY <1>2, <1>4, <2>1
  <2>3. off(k) = off(k - 1) + 7
    BY <1>1 DEF off, MS
  <2> QED
    BY <2>2, <2>3
<1>7. off(1) = 0
  BY DEF off, MS
<1>8. ASSUME NEW k \in 1..c
      PROVE  Chunks(n)[k].gpos + Chunks(n)[k].n <= n /\ (Chunks(n)[k].head <=> Chunks(n)[k].gpos + Chunks(n)[k].n = n)
  BY <1>2, <1>4
<1>9. ASSUME NEW k \in 1..c
      PROVE  /\ Chunks(n)[k].kind = "prompt" /\ Chunks(n)[k].gpos \in Nat
             /\ Chunks(n)[k].head <=> k = c
             /\ k = 1 => Chunks(n)[k].gpos = 0
  BY <1>2, <1>4, <1>7
<1> QED
  BY <1>1, <1>5, <1>6, <1>8, <1>9 DEF Cut

LEMMA DecodePlans ==
    ASSUME NEW d \in Nat
    PROVE  /\ Decodes(d) \in Seq(Plans) /\ Len(Decodes(d)) = d
           /\ \A k \in 1..d : Decodes(d)[k] = Decode
           /\ Decode.kind = "decode" /\ Decode.n = 1 /\ Decode.pool = 1 /\ Decode.head = TRUE
<1>1. Decode \in Plans
  BY DEF Decode, Plans, None, MS
<1> QED
  BY <1>1 DEF Decodes, Decode

\* The passes of a new conversation: the chunks of its prompt and d decode steps, where
\* there is room for them in the cache and in gen.
LEMMA NewPlan ==
    ASSUME NEW n \in Nat \ {0}, NEW d \in Nat, n + d <= KvCap, NEW ps, Cut(ps, n),
           todo' = ps \o Decodes(d), known' = n, gen' \in Nat, gen' + d <= MaxSeq,
           d > 0 => env'.ask = "chat" \/ conv' > 3
    PROVE  /\ todo' \in Seq(Plans) /\ todo' # <<>> /\ PlanInv'
           /\ todo'[1].kind = "prompt" /\ todo'[1].gpos = 0
<1> DEFINE c == Len(ps)
<1>1. /\ ps \in Seq(Plans) /\ c \in Nat /\ c >= 1
      /\ Decodes(d) \in Seq(Plans) /\ Len(Decodes(d)) = d
  <2>1. ps \in Seq(Plans) /\ c >= 1
    BY DEF Cut
  <2>2. Decodes(d) \in Seq(Plans) /\ Len(Decodes(d)) = d
    BY DecodePlans
  <2> QED
    BY <2>1, <2>2
<1>2. /\ todo' \in Seq(Plans) /\ Len(todo') = c + d
      /\ \A k \in 1..c+d : todo'[k] = IF k <= c THEN ps[k] ELSE Decodes(d)[k - c]
  BY <1>1, ConcatProperties
<1>3. KvCap \in Nat /\ MaxSeq \in Nat
  BY BaseFact DEF Base
<1>4. ASSUME NEW k \in 1..c
      PROVE  todo'[k] = ps[k] /\ todo'[k] \in Plans /\ todo'[k].kind = "prompt" /\ PromptPlan(k)'
  <2>1. todo'[k] = ps[k] /\ ps[k] \in Plans
    BY <1>1, <1>2
  <2>2. /\ ps[k].kind = "prompt" /\ ps[k].gpos \in Nat /\ ps[k].gpos + ps[k].n <= n
        /\ ps[k].head <=> ps[k].gpos + ps[k].n = n
        /\ ps[k].head <=> k = c
        /\ k > 1 => ps[k].gpos = ps[k-1].gpos + ps[k-1].n
    BY <1>1 DEF Cut
  <2>3. ps[k].n \in 1..7
    BY <2>1 DEF Plans, MS
  <2>4. \A j \in 1..k-1 : j \in 1..c /\ j # c /\ todo'[j] = ps[j]
    BY <1>1, <1>2
  <2>5. \A j \in 1..k-1 : todo'[j].kind = "prompt" /\ ~todo'[j].head
    BY <1>1, <2>4 DEF Cut
  <2>6. k > 1 => todo'[k-1] = ps[k-1]
    BY <1>1, <1>2
  <2>7. todo'[k].gpos + todo'[k].n <= KvCap
    <3>1. PICK g \in Nat, m \in Nat : g = ps[k].gpos /\ m = ps[k].n
      BY <2>2, <2>3
    <3>2. g + m <= n /\ n <= KvCap
      BY <1>3, <2>2, <3>1
    <3>3. g + m <= KvCap
      BY <1>3, <3>2
    <3> QED
      BY <2>1, <3>1, <3>3
  <2>8. todo'[k].head => known' + (Len(todo') - k) <= KvCap /\ gen' + (Len(todo') - k) <= MaxSeq
    <3>1. todo'[k].head => k = c
      BY <2>1, <2>2
    <3>2. Len(todo') - c = d
      BY <1>1, <1>2
    <3> QED
      BY <3>1, <3>2
  <2> QED
    BY <2>1, <2>2, <2>5, <2>6, <2>7, <2>8 DEF PromptPlan
<1>5. ASSUME NEW k \in 1..c+d, k > c
      PROVE  todo'[k].kind = "decode" /\ DecodePlan(k)'
  <2>1. todo'[k] = Decode /\ d > 0
    <3>1. k - c \in 1..d /\ todo'[k] = Decodes(d)[k - c]
      BY <1>1, <1>2, <1>5
    <3>2. PICK e \in 1..d : e = k - c
      BY <3>1
    <3>3. d > 0
      BY <3>2
    <3>4. Decodes(d)[e] = Decode
      BY DecodePlans
    <3>5. Decodes(d)[k - c] = Decode
      BY <3>2, <3>4
    <3> QED
      BY <3>1, <3>3, <3>5
  <2>2. todo'[k-1].head
    <3>1. CASE k - 1 = c
      <4>1. c \in 1..c /\ todo'[c] = ps[c] /\ ps[c].head
        BY <1>1, <1>4 DEF Cut
      <4> QED
        BY <3>1, <4>1
    <3>2. CASE k - 1 > c
      <4>1. k - 1 - c \in 1..d /\ k - 1 \in 1..c+d /\ todo'[k-1] = Decodes(d)[k - 1 - c]
        BY <1>1, <1>2, <1>5, <3>2
      <4> QED
        BY <4>1, DecodePlans
    <3>3. k \in Nat /\ (k - 1 = c \/ k - 1 > c)
      BY <1>1, <1>5
    <3> QED
      BY <3>1, <3>2, <3>3
  <2> QED
    BY <2>1, <2>2, DecodePlans DEF DecodePlan
<1>6. PlanInv'
  <2> SUFFICES ASSUME NEW k \in 1..c+d
               PROVE  /\ todo'[k].kind = "prompt" => PromptPlan(k)'
                      /\ todo'[k].kind = "decode" => DecodePlan(k)'
    BY <1>2 DEF PlanInv
  <2>1. CASE k \in 1..c
    BY <1>4, <2>1
  <2>2. CASE k > c
    BY <1>5, <2>2
  <2> QED
    BY <1>1, <2>1, <2>2
<1>7. 1 \in 1..c /\ ps[1].kind = "prompt" /\ ps[1].gpos = 0 /\ todo'[1] = ps[1]
  BY <1>1, <1>4 DEF Cut
<1>8. todo' # <<>>
  BY <1>1, <1>2
<1> QED
  BY <1>2, <1>6, <1>7, <1>8
-----------------------------------------------------------------------------
(* The first state, and the steps that leave the conversation alone           *)

LEMMA InitInv == Init => IInv
<1> SUFFICES ASSUME Init PROVE IInv
  OBVIOUS
<1>1. Layers \in Nat \ {0} /\ KvCap \in Nat /\ MaxSeq \in Nat
  BY BaseFact DEF Base
<1>2. /\ env \in Envs /\ pc = "regression" /\ todo = <<>> /\ conv = 0 /\ known = 0 /\ tok = None /\ gen = 0
      /\ pass = NoPass /\ l = 0 /\ seen = <<>> /\ kv_len = 0 /\ pools = {1, 3, 5, 7}
      /\ kv = [r \in 0 .. Layers * KvCap - 1 |-> NoRow]
  BY DEF Init
<1>3. todo \in Seq(Plans) /\ Len(todo) = 0
  BY <1>2
<1>4. Kinds
  BY <1>1, <1>2, <1>3 DEF Kinds, None
<1>5. PlanInv
  BY <1>3 DEF PlanInv
<1>6. FirstInv /\ PassInv /\ HandInv /\ AheadInv
  BY <1>2 DEF FirstInv, PassInv, HandInv, AheadInv, Running
<1>7. SeenInv /\ PoolInv
  BY <1>2 DEF SeenInv, PoolInv
<1> QED
  BY <1>4, <1>5, <1>6, <1>7 DEF IInv

\* The plan says nothing of the passes or the cache.
LEMMA PlanFrame ==
    ASSUME PlanInv, todo' = todo, known' = known, gen' = gen, conv' = conv, env' = env
    PROVE  PlanInv'
  BY DEF PlanInv, PromptPlan, DecodePlan

\* Only the reading thread moves.
LEMMA ChatFrame ==
    ASSUME IInv, UNCHANGED main
    PROVE  IInv'
<1>1. /\ env' = env /\ pc' = pc /\ todo' = todo /\ conv' = conv /\ known' = known /\ tok' = tok /\ gen' = gen
      /\ pass' = pass /\ l' = l /\ x' = x /\ weights' = weights /\ kv' = kv /\ kv_len' = kv_len
      /\ seen' = seen /\ pools' = pools /\ cached' = cached
  BY DEF main
<1>2. Kinds'
  BY <1>1 DEF IInv, Kinds
<1>3. PlanInv'
  BY <1>1, PlanFrame DEF IInv
<1>4. FirstInv'
  BY <1>1 DEF IInv, FirstInv, Kept, Filled
<1>5. PassInv'
  BY <1>1 DEF IInv, PassInv, Running, Hidden, Filled
<1>6. HandInv'
  BY <1>1 DEF IInv, HandInv, Running
<1>7. SeenInv' /\ PoolInv'
  BY <1>1 DEF IInv, SeenInv, PoolInv
<1>8. AheadInv'
  BY <1>1 DEF IInv, AheadInv, Running
<1> QED
  BY <1>2, <1>3, <1>4, <1>5, <1>6, <1>7, <1>8 DEF IInv

\* Main goes where no pass is in hand, and changes nothing else.
LEMMA BetweenInv ==
    ASSUME IInv, UNCHANGED <<State, todo, conv, known, tok, gen, pass, pools>>,
           \/ pc' \in {"shutdown", "join", "end", "exit"}
           \/ pc' \in {"regression", "decode", "chat"} /\ seen = <<>> /\ pools = {1, 3, 5, 7},
           pc' = "regression" => conv <= 3, pc' = "decode" => conv = 3, pc' = "chat" => env.ask = "chat"
    PROVE  IInv'
<1>1. /\ env' = env /\ todo' = todo /\ conv' = conv /\ known' = known /\ tok' = tok /\ gen' = gen
      /\ pass' = pass /\ l' = l /\ x' = x /\ weights' = weights /\ kv' = kv /\ kv_len' = kv_len
      /\ seen' = seen /\ pools' = pools /\ cached' = cached
  BY DEF State
<1>2. Kinds'
  BY <1>1 DEF IInv, Kinds
<1>3. PlanInv'
  BY <1>1, PlanFrame DEF IInv
<1>4. FirstInv' /\ PassInv' /\ HandInv' /\ AheadInv'
  BY DEF FirstInv, PassInv, HandInv, AheadInv, Running
<1>5. SeenInv'
  BY <1>1 DEF IInv, SeenInv
<1>6. PoolInv'
  BY <1>1 DEF IInv, PoolInv
<1> QED
  BY <1>2, <1>3, <1>4, <1>5, <1>6 DEF IInv

\* A new conversation begins with a prompt at the first row.
LEMMA ConversationInv ==
    ASSUME IInv, NEW n \in Nat \ {0}, NEW d \in Nat, n + d <= KvCap, NEW ps, Cut(ps, n),
           todo' = ps \o Decodes(d), known' = n, conv' = conv + 1, gen' \in Nat, gen' + d <= MaxSeq,
           d > 0 => env.ask = "chat" \/ conv + 1 > 3,
           pc \in {"regression", "decode", "chat"}, pc' = "pass", kv_len' \in Nat,
           UNCHANGED <<env, kv, x, l, weights, seen, cached, tok, pass, pools>>
    PROVE  IInv'
<1>1. Layers \in Nat \ {0} /\ KvCap \in Nat /\ MaxSeq \in Nat
  BY BaseFact DEF Base
<1>2. /\ todo' \in Seq(Plans) /\ todo' # <<>> /\ PlanInv' /\ todo'[1].kind = "prompt" /\ todo'[1].gpos = 0
  BY NewPlan
<1>3. Kinds'
  <2>1. gen' <= MaxSeq
    <3>1. PICK e \in Nat : e = gen'
      OBVIOUS
    <3>2. e + d <= MaxSeq
      BY <3>1
    <3>3. e <= MaxSeq
      BY <1>1, <3>2
    <3> QED
      BY <3>1, <3>3
  <2> QED
    BY <1>2, <2>1 DEF IInv, Kinds
<1>4. FirstInv'
  BY <1>2 DEF FirstInv
<1>5. PassInv' /\ HandInv' /\ AheadInv'
  BY DEF PassInv, HandInv, AheadInv, Running
<1>6. SeenInv'
  <2>1. seen' = <<>>
    BY DEF IInv, SeenInv
  <2> QED
    BY <2>1 DEF SeenInv
<1>7. PoolInv'
  BY DEF IInv, PoolInv
<1> QED
  BY <1>2, <1>3, <1>4, <1>5, <1>6, <1>7 DEF IInv

LEMMA RegressionInv ==
    ASSUME IInv, Regression
    PROVE  IInv'
<1>1. pc = "regression" /\ seen = <<>> /\ pools = {1, 3, 5, 7} /\ conv \in Nat /\ conv <= 3
  BY DEF Regression, IInv, Kinds, SeenInv, PoolInv
<1>2. CASE env.ask = "chat" \/ conv = 3
  <2>1. /\ UNCHANGED <<State, todo, conv, known, tok, gen, pass, pools>>
        /\ pc' = (IF env.ask = "decode" THEN "decode" ELSE IF env.ask = "chat" THEN "chat" ELSE "shutdown")
    BY <1>2 DEF Regression
  <2> QED
    BY <1>1, <1>2, <2>1, BetweenInv
<1>3. CASE ~(env.ask = "chat" \/ conv = 3)
  <2>1. PICK n \in 1..7 : n = Seqs[conv + 1]
    BY <1>1, <1>3 DEF Seqs
  <2>2. PICK ps : ps = <<Prompt(0, n, TRUE)>>
    OBVIOUS
  <2>3. Cut(ps, n)
    BY <2>2, SingleCut
  <2>4. ps \o Decodes(0) = ps
    <3>1. Decodes(0) = <<>>
      BY DEF Decodes
    <3>2. ps \in Seq(Plans)
      BY <2>3 DEF Cut
    <3> QED
      BY <3>1, <3>2, ConcatEmptySeq
  <2>5. /\ todo' = ps \o Decodes(0) /\ known' = n /\ conv' = conv + 1 /\ pc' = "pass" /\ gen' = gen
        /\ UNCHANGED <<env, kv, kv_len, x, l, weights, seen, cached, tok, pass, pools>>
    BY <1>3, <2>1, <2>2, <2>4 DEF Regression, State
  <2>6. n \in Nat \ {0} /\ n + 0 <= KvCap /\ gen' \in Nat /\ gen' + 0 <= MaxSeq /\ kv_len' \in Nat /\ ~(0 > 0)
    BY <2>5, BaseFact DEF IInv, Kinds, Base
  <2> QED
    BY <1>1, <2>3, <2>5, <2>6, ConversationInv
<1> QED
  BY <1>2, <1>3

LEMMA StepsFact ==
    ASSUME IInv, NEW n \in Nat \ {0}
    PROVE  NDec(n) \in 1..n
<1>1. env.steps \in Int
  BY BaseFact DEF IInv, Kinds, Envs, Base
<1> QED
  BY <1>1 DEF NDec, Min2

LEMMA StartInv ==
    ASSUME IInv, StartDecode \/ StartChat
    PROVE  IInv'
<1>1. KvCap \in Nat /\ KvCap > 7 /\ MaxSeq \in Nat /\ KvCap < MaxSeq
  BY BaseFact DEF Base
<1>2. CASE StartDecode
  <2>1. pc = "decode" /\ conv = 3
    BY <1>2 DEF StartDecode, IInv, Kinds
  <2>2. PICK d \in Nat : d = NDec(KvCap - 7) /\ d <= KvCap - 7
    <3>1. KvCap - 7 \in Nat \ {0}
      BY <1>1
    <3>2. NDec(KvCap - 7) \in 1..KvCap - 7
      BY <3>1, StepsFact
    <3> QED
      BY <1>1, <3>2
  <2>3. PICK ps : ps = <<Prompt(0, 3, TRUE)>>
    OBVIOUS
  <2>4. Cut(ps, 3)
    BY <2>3, SingleCut
  <2>5. /\ todo' = ps \o Decodes(d) /\ known' = 3 /\ conv' = conv + 1 /\ gen' = 0 /\ pc' = "pass" /\ kv_len' = 0
        /\ UNCHANGED <<env, kv, x, l, weights, seen, cached, tok, pass, pools>>
    BY <1>2, <2>2, <2>3 DEF StartDecode, Seqs
  <2>6. 3 + d <= KvCap /\ 0 + d <= MaxSeq /\ conv + 1 > 3
    BY <1>1, <2>1, <2>2
  <2> QED
    BY <2>1, <2>4, <2>5, <2>6, ConversationInv
<1>3. CASE StartChat
  <2>1. pc = "chat" /\ env.ask = "chat" /\ env.hdr \in Int
    BY <1>3, BaseFact DEF StartChat, IInv, Kinds, Envs, Base
  <2>2. CASE env.hdr <= 0 \/ env.hdr > MaxSeq \/ env.hdr >= KvCap
    <3>1. UNCHANGED <<State, todo, conv, known, tok, gen, pass, pools>> /\ pc' = "exit"
      BY <1>3, <2>2 DEF StartChat, State
    <3> QED
      BY <3>1, BetweenInv
  <2>3. CASE ~(env.hdr <= 0 \/ env.hdr > MaxSeq \/ env.hdr >= KvCap)
    <3>1. PICK n \in Nat \ {0} : n = env.hdr /\ n < KvCap
      BY <1>1, <2>1, <2>3
    <3>2. PICK d \in Nat : d = NDec(KvCap - n) /\ d <= KvCap - n
      <4>1. KvCap - n \in Nat \ {0}
        BY <1>1, <3>1
      <4>2. NDec(KvCap - n) \in 1..KvCap - n
        BY <4>1, StepsFact
      <4> QED
        BY <1>1, <3>1, <4>2
    <3>3. PICK ps : ps = Chunks(n)
      OBVIOUS
    <3>4. Cut(ps, n)
      BY <3>3, ChunksCut
    <3>5. /\ todo' = ps \o Decodes(d) /\ known' = n /\ conv' = conv + 1 /\ gen' = 1 /\ pc' = "pass" /\ kv_len' = 0
          /\ UNCHANGED <<env, kv, x, l, weights, seen, cached, tok, pass, pools>>
      BY <1>3, <2>3, <3>1, <3>2, <3>3 DEF StartChat
    <3>6. n + d <= KvCap /\ 1 + d <= MaxSeq
      BY <1>1, <3>1, <3>2
    <3> QED
      BY <2>1, <3>4, <3>5, <3>6, ConversationInv
  <2> QED
    BY <2>2, <2>3
<1> QED
  BY <1>2, <1>3

\* The conversation is over, or main stops.
LEMMA EndInv ==
    ASSUME IInv, EndPasses \/ ReadFails \/ Shutdown \/ Join
    PROVE  IInv'
<1>1. CASE EndPasses
  <2>1. /\ pc = "pass" /\ UNCHANGED <<State, todo, conv, known, tok, gen, pass, pools>>
        /\ pc' = IF env.ask # "chat" /\ conv <= 3 THEN "regression" ELSE "shutdown"
    BY <1>1 DEF EndPasses
  <2>2. seen = <<>> /\ conv \in Nat
    BY <2>1 DEF IInv, SeenInv, Kinds
  <2>3. pc' = "regression" => pools = {1, 3, 5, 7}
    BY <2>1, <2>2 DEF IInv, PoolInv
  <2> QED
    BY <2>1, <2>2, <2>3, BetweenInv
<1>2. CASE ReadFails \/ Shutdown \/ Join
  <2>1. UNCHANGED <<State, todo, conv, known, tok, gen, pass, pools>> /\ pc' \in {"exit", "join", "end"}
    BY <1>2 DEF ReadFails, Shutdown, Join
  <2> QED
    BY <2>1, BetweenInv
<1> QED
  BY <1>1, <1>2
-----------------------------------------------------------------------------
(* A pass begins                                                             *)

\* The plan when its first pass has been taken.
LEMMA TailPlan ==
    ASSUME IInv, todo # <<>>, todo' = Tail(todo), UNCHANGED <<known, conv, env>>,
           gen' = gen \/ (todo[1].kind = "decode" /\ gen' = gen + 1)
    PROVE  /\ todo' \in Seq(Plans) /\ PlanInv'
           /\ Len(todo) \in Nat /\ Len(todo) >= 1 /\ Len(todo') = Len(todo) - 1
           /\ \A k \in 1..Len(todo) - 1 : todo'[k] = todo[k+1] /\ todo[k+1] \in Plans
           /\ todo[1] \in Plans
           /\ todo[1].head => \A k \in 1..Len(todo') : todo'[k].kind = "decode"
           /\ ~todo[1].head => \A k \in 1..Len(todo') :
                  k = 1 => todo'[k].kind = "prompt" /\ todo'[k].gpos = todo[1].gpos + todo[1].n
<1>1. todo \in Seq(Plans) /\ Len(todo) \in Nat /\ Len(todo) >= 1
  BY EmptySeq DEF IInv, Kinds
<1>2. /\ todo' \in Seq(Plans) /\ Len(todo') = Len(todo) - 1
      /\ \A k \in 1..Len(todo) - 1 : todo'[k] = todo[k+1] /\ todo[k+1] \in Plans
      /\ todo[1] \in Plans
  BY <1>1, HeadTailProperties
<1>3. \A k \in 1..Len(todo) : /\ todo[k].kind = "prompt" => PromptPlan(k)
                              /\ todo[k].kind = "decode" => DecodePlan(k)
  BY DEF IInv, PlanInv
<1>4. ASSUME NEW k \in 1..Len(todo) - 1, todo'[k].kind = "prompt"
      PROVE  PromptPlan(k)' /\ todo[1].kind = "prompt" /\ ~todo[1].head /\ (k = 1 => todo'[k].gpos = todo[1].gpos + todo[1].n)
  <2>1. k + 1 \in 1..Len(todo) /\ todo'[k] = todo[k+1] /\ (k + 1) - 1 = k
    BY <1>1, <1>2
  <2>2. PromptPlan(k+1)
    BY <1>3, <1>4, <2>1
  <2>3. /\ todo[k+1].gpos \in Nat /\ todo[k+1].gpos + todo[k+1].n <= known /\ todo[k+1].gpos + todo[k+1].n <= KvCap
        /\ todo[k+1].head <=> todo[k+1].gpos + todo[k+1].n = known
        /\ todo[k+1].head => known + (Len(todo) - (k+1)) <= KvCap /\ gen + (Len(todo) - (k+1)) <= MaxSeq
        /\ \A j \in 1..k : todo[j].kind = "prompt" /\ ~todo[j].head
        /\ k + 1 > 1 => todo[k+1].gpos = todo[k].gpos + todo[k].n
    BY <2>1, <2>2 DEF PromptPlan
  <2>4. 1 \in 1..k /\ todo[1].kind = "prompt" /\ ~todo[1].head /\ gen' = gen
    BY <2>3
  <2>5. \A j \in 1..k-1 : j + 1 \in 1..k /\ todo'[j] = todo[j+1]
    BY <1>1, <1>2
  <2>6. \A j \in 1..k-1 : todo'[j].kind = "prompt" /\ ~todo'[j].head
    BY <2>3, <2>5
  <2>7. k > 1 => k - 1 \in 1..Len(todo)-1 /\ (k - 1) + 1 = k
    BY <1>1
  <2>8. k > 1 => todo'[k-1] = todo[k]
    BY <1>2, <2>7
  <2>9. Len(todo') - k = Len(todo) - (k + 1)
    BY <1>1, <1>2
  <2>10. PromptPlan(k)'
    BY <2>1, <2>3, <2>4, <2>6, <2>8, <2>9 DEF PromptPlan
  <2> QED
    BY <2>1, <2>3, <2>4, <2>10
<1>5. ASSUME NEW k \in 1..Len(todo) - 1, todo'[k].kind = "decode"
      PROVE  DecodePlan(k)' /\ (k = 1 => todo[1].head)
  <2>1. k + 1 \in 1..Len(todo) /\ todo'[k] = todo[k+1] /\ (k + 1) - 1 = k /\ k + 1 > 1
    BY <1>1, <1>2
  <2>2. DecodePlan(k+1)
    BY <1>3, <1>5, <2>1
  <2>3. todo[k+1].n = 1 /\ todo[k+1].pool = 1 /\ todo[k+1].head /\ todo[k].head
        /\ (env.ask = "chat" \/ conv > 3)
    BY <2>1, <2>2 DEF DecodePlan
  <2>4. k > 1 => k - 1 \in 1..Len(todo)-1 /\ (k - 1) + 1 = k
    BY <1>1
  <2>5. k > 1 => todo'[k-1] = todo[k]
    BY <1>2, <2>4
  <2> QED
    BY <2>1, <2>3, <2>5 DEF DecodePlan
<1>6. \A k \in 1..Len(todo) - 1 : todo'[k].kind \in {"prompt", "decode"}
  BY <1>2 DEF Plans
<1>7. PlanInv'
  BY <1>2, <1>4, <1>5 DEF PlanInv
<1>8. todo[1].head => \A k \in 1..Len(todo') : todo'[k].kind = "decode"
  BY <1>2, <1>4, <1>6
<1>9. ~todo[1].head => \A k \in 1..Len(todo') :
          k = 1 => todo'[k].kind = "prompt" /\ todo'[k].gpos = todo[1].gpos + todo[1].n
  BY <1>2, <1>4, <1>5, <1>6
<1> QED
  BY <1>1, <1>2, <1>7, <1>8, <1>9

\* A pass begins at the row the one before it has left off, or at the first one.
LEMMA StartPassInv ==
    ASSUME IInv, StartPass
    PROVE  IInv'
<1>1. Layers \in Nat \ {0} /\ KvCap \in Nat /\ MaxSeq \in Nat /\ Deltas \subseteq Nat
  BY BaseFact DEF Base
<1>2. /\ pc = "pass" /\ todo # <<>> /\ todo' = Tail(todo) /\ l' = 0 /\ pc' = "layer"
      /\ UNCHANGED <<env, conv, known, tok, weights, kv, kv_len, seen>>
  BY DEF StartPass
<1>3. PICK q : q = todo[1]
  OBVIOUS
<1>4. /\ pass' = [q EXCEPT !.gpos = IF q.kind = "decode" THEN kv_len ELSE q.gpos]
      /\ x' = [m \in 1..pass'.n |-> Token((IF pass'.kind = "decode" THEN tok ELSE pass'.gpos) + m - 1)]
      /\ gen' = IF pass'.kind = "decode" THEN gen + 1 ELSE gen
      /\ pools' = IF pass'.kind = "decode" /\ env.lw = "ion_db" THEN pools \ {5, 7} ELSE pools
      /\ cached' = IF pass'.kind = "decode" /\ env.delta # None THEN cached \cup ((0 .. env.delta - 1) \cap (0 .. Layers - 1))
                   ELSE cached
  <2>1. Head(todo) = q
    BY <1>3
  <2> QED
    BY <2>1 DEF StartPass
<1>5. /\ conv \in Nat /\ known \in Nat /\ gen \in Nat /\ gen <= MaxSeq /\ kv_len \in Nat /\ env \in Envs
      /\ todo \in Seq(Plans) /\ Len(todo) \in Nat /\ Len(todo) >= 1 /\ tok \in Int
  BY <1>2, EmptySeq DEF IInv, Kinds
<1>6. q \in Plans /\ q.kind \in {"prompt", "decode"} /\ q.n \in 1..7 /\ q.gpos \in Int
  <2>1. q \in Plans
    BY <1>3, <1>5
  <2> QED
    BY <2>1 DEF Plans, MS
<1>7. /\ pass' \in Plans /\ pass'.kind = q.kind /\ pass'.n = q.n /\ pass'.pool = q.pool /\ (pass'.head <=> q.head)
      /\ pass'.gpos = IF q.kind = "decode" THEN kv_len ELSE q.gpos
  <2>1. PICK g \in Int : g = IF q.kind = "decode" THEN kv_len ELSE q.gpos
    BY <1>5, <1>6
  <2>2. pass' = [q EXCEPT !.gpos = g]
    BY <1>4, <2>1
  <2>3. q \in [kind : {"prompt", "decode"}, gpos : Int, n : 1..MS, pool : {1, 3, 5, 7}, head : BOOLEAN]
    BY <1>6 DEF Plans
  <2>4. pass' \in Plans
    BY <2>2, <2>3 DEF Plans
  <2>5. pass'.kind = q.kind /\ pass'.n = q.n /\ pass'.pool = q.pool /\ pass'.gpos = g
    BY <2>2, <2>3
  <2>6. pass'.head <=> q.head
    BY <2>2, <2>3
  <2> QED
    BY <2>1, <2>4, <2>5, <2>6
<1>8. gen' = gen \/ (todo[1].kind = "decode" /\ gen' = gen + 1)
  BY <1>3, <1>4, <1>7
<1>9. /\ todo' \in Seq(Plans) /\ PlanInv' /\ Len(todo') = Len(todo) - 1
      /\ q.head => \A k \in 1..Len(todo') : todo'[k].kind = "decode"
      /\ ~q.head => \A k \in 1..Len(todo') :
             k = 1 => todo'[k].kind = "prompt" /\ todo'[k].gpos = q.gpos + q.n
  BY <1>2, <1>3, <1>8, TailPlan
<1>10. /\ q.kind = "prompt" => /\ PromptPlan(1)
                               /\ q.gpos = 0 \/ (q.gpos = kv_len /\ Kept(kv_len))
       /\ q.kind = "decode" => /\ DecodePlan(1)
                               /\ tok = kv_len /\ known = kv_len + 1 /\ Kept(kv_len)
                               /\ kv_len + Len(todo) <= KvCap /\ gen + Len(todo) <= MaxSeq
  <2>1. 1 \in 1..Len(todo)
    BY <1>5
  <2>2. (q.kind = "prompt" => PromptPlan(1)) /\ (q.kind = "decode" => DecodePlan(1))
    BY <1>3, <2>1 DEF IInv, PlanInv
  <2> QED
    BY <1>2, <1>3, <2>2 DEF IInv, FirstInv
<1>11. /\ pass'.gpos \in Nat /\ pass'.gpos + pass'.n <= KvCap /\ pass'.gpos + pass'.n <= known
       /\ pass'.head <=> pass'.gpos + pass'.n = known
       /\ pass'.kind = "decode" => pass'.n = 1 /\ pass'.head /\ pass'.pool = 1
       /\ pass'.kind = "decode" => tok = pass'.gpos
       /\ pass'.gpos = 0 \/ Kept(pass'.gpos)
       /\ pass'.head => known + Len(todo') <= KvCap /\ gen' + Len(todo') <= MaxSeq
  <2>1. CASE q.kind = "prompt"
    <3>1. /\ q.gpos \in Nat /\ q.gpos + q.n <= known /\ q.gpos + q.n <= KvCap
          /\ q.head <=> q.gpos + q.n = known
          /\ q.head => known + (Len(todo) - 1) <= KvCap /\ gen + (Len(todo) - 1) <= MaxSeq
      BY <1>3, <1>10, <2>1 DEF PromptPlan
    <3>2. pass'.gpos = q.gpos /\ gen' = gen
      BY <1>4, <1>7, <2>1
    <3> QED
      BY <1>7, <1>9, <1>10, <2>1, <3>1, <3>2
  <2>2. CASE q.kind = "decode"
    <3>1. q.n = 1 /\ q.pool = 1 /\ q.head
      BY <1>3, <1>10, <2>2 DEF DecodePlan
    <3>2. pass'.gpos = kv_len /\ gen' = gen + 1
      BY <1>4, <1>7, <2>2
    <3>3. kv_len + 1 <= KvCap /\ known + (Len(todo) - 1) <= KvCap /\ gen + 1 + (Len(todo) - 1) <= MaxSeq
      BY <1>1, <1>5, <1>10, <2>2
    <3> QED
      BY <1>5, <1>7, <1>9, <1>10, <2>2, <3>1, <3>2, <3>3
  <2> QED
    BY <1>6, <2>1, <2>2
<1>12. Kinds'
  <2>1. gen' \in Nat /\ gen' <= MaxSeq
    <3>1. CASE gen' = gen
      BY <1>5, <3>1
    <3>2. CASE q.kind = "decode" /\ gen' = gen + 1
      BY <1>1, <1>5, <1>10, <3>2
    <3> QED
      BY <1>3, <1>8, <3>1, <3>2
  <2>2. DOMAIN kv' = 0 .. Layers * KvCap - 1 /\ l' \in 0..Layers
    BY <1>1, <1>2 DEF IInv, Kinds
  <2> QED
    BY <1>2, <1>5, <1>7, <1>9, <2>1, <2>2 DEF Kinds
<1>13. FirstInv'
  BY <1>2 DEF FirstInv
<1>14. PassInv'
  <2>1. x' = Hidden(l)'
    <3>1. \A m \in 1..pass'.n : (IF pass'.kind = "decode" THEN tok ELSE pass'.gpos) + m - 1 = pass'.gpos + m - 1
      BY <1>11
    <3> QED
      BY <1>2, <1>4, <3>1 DEF Hidden, Token
  <2>2. \A j \in 0..Layers-1 : Filled(j, pass.gpos)'
    <3>1. CASE pass'.gpos = 0
      BY <3>1 DEF Filled
    <3>2. CASE Kept(pass'.gpos)
      BY <1>2, <3>2 DEF Kept, Filled
    <3> QED
      BY <1>11, <3>1, <3>2
  <2>3. \A j \in 0..l'-1 : FALSE
    BY <1>2
  <2>4. \A j \in l'..Layers-1 : Filled(j, pass.gpos)'
    BY <1>2, <2>2
  <2> QED
    BY <1>2, <1>7, <1>11, <2>1, <2>3, <2>4 DEF PassInv
<1>15. HandInv'
  BY <1>2, <1>7, <1>9, <1>11 DEF HandInv
<1>16. SeenInv'
  <2>1. seen' = <<>>
    BY <1>2 DEF IInv, SeenInv
  <2> QED
    BY <1>2, <2>1 DEF SeenInv
<1>17. PoolInv'
  <2>1. CASE q.kind = "prompt"
    <3>1. pools = {1, 3, 5, 7}
      BY <1>3, <1>5, <2>1 DEF IInv, PoolInv
    <3> QED
      BY <1>4, <1>7, <2>1, <3>1 DEF PoolInv
  <2>2. CASE q.kind = "decode"
    <3>1. 1 \in pools'
      BY <1>4 DEF IInv, PoolInv
    <3>2. env.ask = "chat" \/ conv > 3
      BY <1>10, <2>2 DEF DecodePlan
    <3>3. q.head
      BY <1>7, <1>11, <2>2
    <3> QED
      BY <1>2, <1>7, <1>9, <2>2, <3>1, <3>2, <3>3 DEF PoolInv
  <2> QED
    BY <1>6, <2>1, <2>2
<1>18. AheadInv'
  <2> SUFFICES ASSUME pass'.kind = "decode", env.delta # None
               PROVE  \A j \in l' .. l' + env.delta - 1 : j < Layers => j \in cached'
    BY <1>2 DEF AheadInv
  <2>1. env.delta \in Nat
    BY <1>1, <1>5 DEF Envs
  <2> QED
    BY <1>1, <1>2, <1>4, <2>1
<1> QED
  BY <1>9, <1>12, <1>13, <1>14, <1>15, <1>16, <1>17, <1>18 DEF IInv-----------------------------------------------------------------------------
(* A layer                                                                   *)

\* The weights of the layer are at hand; the conversation has not moved.
LEMMA WeightsInv ==
    ASSUME IInv, Running, pc' \in {"issue", "compute"}, weights' = l, l < Layers,
           UNCHANGED <<env, kv, kv_len, x, l, seen, todo, conv, known, tok, gen, pass, pools>>, AheadInv'
    PROVE  IInv'
<1>1. Kinds'
  BY DEF IInv, Kinds
<1>2. PlanInv'
  BY PlanFrame DEF IInv
<1>3. FirstInv'
  BY DEF FirstInv
<1>4. PassInv'
  BY DEF IInv, PassInv, Running, Hidden, Filled
<1>5. HandInv'
  BY DEF IInv, HandInv, Running
<1>6. SeenInv'
  BY DEF IInv, SeenInv
<1>7. PoolInv'
  BY DEF IInv, PoolInv
<1> QED
  BY <1>1, <1>2, <1>3, <1>4, <1>5, <1>6, <1>7 DEF IInv

\* The layer to be read is one main has read ahead, and the window moves on.
LEMMA LayerBeginInv ==
    ASSUME IInv, LayerBegin
    PROVE  IInv'
<1>1. /\ pc = "layer" /\ l < Layers /\ cached' = Ahead /\ weights' = l /\ pc' \in {"issue", "compute"}
      /\ UNCHANGED <<env, kv, kv_len, x, l, seen, todo, conv, known, tok, gen, pass, pools>>
  BY DEF LayerBegin
<1>2. AheadInv'
  <2> SUFFICES ASSUME pass.kind = "decode", env.delta # None
               PROVE  /\ \A j \in l .. l + env.delta - 1 : j < Layers => j \in cached'
                      /\ l \in cached' /\ (l + env.delta < Layers => l + env.delta \in cached')
    BY <1>1 DEF AheadInv
  <2>1. l \in Nat /\ Layers \in Nat /\ env.delta \in Nat
    <3>1. Layers \in Nat /\ Deltas \subseteq Nat
      BY BaseFact DEF Base
    <3>2. env \in Envs /\ l \in 0..Layers
      BY DEF IInv, Kinds
    <3>3. env.delta \in Deltas
      BY <3>2 DEF Envs
    <3>4. env.delta \in Nat
      BY <3>1, <3>3
    <3>5. l \in Nat
      BY <3>1, <3>2
    <3> QED
      BY <3>1, <3>4, <3>5
  <2>2. \A j \in l .. l + env.delta - 1 : j < Layers => j \in cached
    BY <1>1 DEF IInv, AheadInv, Running
  <2>3. cached' = (cached \cup ({l + env.delta} \cap (0 .. Layers - 1))) \ (IF env.dontneed THEN {l - 2} ELSE {})
    BY <1>1 DEF Ahead
  <2>4. \A j \in l .. l + env.delta : j < Layers => j \in cached'
    <3> TAKE j \in l .. l + env.delta
    <3> HAVE j < Layers
    <3>1. j # l - 2 /\ j \in 0 .. Layers - 1
      BY <2>1
    <3>2. CASE j = l + env.delta
      BY <2>3, <3>1, <3>2
    <3>3. CASE j # l + env.delta
      <4>1. j \in l .. l + env.delta - 1
        BY <2>1, <3>3
      <4> QED
        BY <2>2, <2>3, <3>1, <4>1
    <3> QED
      BY <3>2, <3>3
  <2>5. l \in l .. l + env.delta /\ l + env.delta \in l .. l + env.delta
    BY <2>1
  <2>6. \A j \in l .. l + env.delta - 1 : j \in l .. l + env.delta
    BY <2>1
  <2> QED
    BY <1>1, <2>4, <2>5, <2>6
<1> QED
  BY <1>1, <1>2, WeightsInv DEF Running

LEMMA IssueInv ==
    ASSUME IInv, Issue
    PROVE  IInv'
<1>1. /\ pc = "issue" /\ pc' = "compute"
      /\ UNCHANGED <<env, kv, kv_len, x, l, weights, seen, cached, todo, conv, known, tok, gen, pass, pools>>
  BY DEF Issue, State
<1>2. weights' = l /\ l < Layers
  BY <1>1 DEF IInv, PassInv, Running
<1>3. AheadInv'
  BY <1>1 DEF IInv, AheadInv, Running
<1> QED
  BY <1>1, <1>2, <1>3, WeightsInv DEF Running

-----------------------------------------------------------------------------
(* The keys a layer writes, and what its attention looks at                   *)

\* What a layer computes in: its weights are at hand and every row has come this far.
Computing ==
    /\ pc = "compute" /\ l \in 0..Layers-1 /\ weights = l /\ x = Hidden(l)
    /\ pass \in Plans /\ pass.gpos \in Nat /\ pass.gpos + pass.n <= KvCap
    /\ \A j \in 0..l-1 : Filled(j, pass.gpos + pass.n)
    /\ \A j \in l..Layers-1 : Filled(j, pass.gpos)
    /\ DOMAIN kv = 0 .. Layers * KvCap - 1

LEMMA ComputingFact ==
    ASSUME IInv, pc = "compute"
    PROVE  Computing /\ pass.n \in 1..7 /\ pass.kind \in {"prompt", "decode"}
<1>1. Layers \in Nat /\ l \in 0..Layers
  BY BaseFact DEF IInv, Kinds, Base
<1>2. l \in 0..Layers-1
  BY <1>1 DEF IInv, PassInv, Running
<1>3. pass \in Plans
  BY DEF IInv, PassInv, Running
<1>4. Computing
  BY <1>2, <1>3 DEF Computing, IInv, PassInv, Running, Kinds
<1> QED
  BY <1>3, <1>4 DEF Plans, MS

LEMMA RowKeys ==
    ASSUME Computing, pass.n \in 1..7, NEW m \in 1..pass.n
    PROVE  /\ Key(m) = [conv |-> conv, i |-> pass.gpos + m - 1, l |-> l, rope |-> pass.gpos + m - 1]
           /\ x[m].i = pass.gpos + m - 1
           /\ m \in DOMAIN x /\ DOMAIN x = 1..pass.n
           /\ Through[m] = [conv |-> conv, i |-> pass.gpos + m - 1, layers |-> l + 1]
<1>1. x = Hidden(l) /\ weights = l
  BY DEF Computing
<1>2. x[m] = [conv |-> conv, i |-> pass.gpos + m - 1, layers |-> l] /\ DOMAIN x = 1..pass.n
  BY <1>1 DEF Hidden
<1>3. Key(m) = [conv |-> conv, i |-> pass.gpos + m - 1, l |-> l, rope |-> pass.gpos + m - 1]
  BY <1>1, <1>2 DEF Key
<1>4. Through[m] = [x[m] EXCEPT !.layers = l + 1]
  <2>1. Through[m] = [x[m] EXCEPT !.layers = IF x[m].layers = weights THEN x[m].layers + 1 ELSE None]
    BY DEF Through
  <2> QED
    BY <1>1, <1>2, <2>1
<1> QED
  BY <1>2, <1>3, <1>4

\* After Capture the layer's first rows are the keys of this conversation, up to the last row
\* of the pass, and every other layer's are what they were.
LEMMA CaptureFacts ==
    ASSUME Computing, pass.n \in 1..7, NEW c, c = Capture
    PROVE  /\ DOMAIN c = DOMAIN kv
           /\ \A r \in 0 .. pass.gpos + pass.n - 1 :
                 c[l * KvCap + r] = [conv |-> conv, i |-> r, l |-> l, rope |-> r]
           /\ \A j \in 0..Layers-1, r \in 0..KvCap-1 : j # l => c[j * KvCap + r] = kv[j * KvCap + r]
<1> DEFINE g == pass.gpos
           at(r) == r - (l * KvCap + g) + 1
<1>1. /\ Layers \in Nat /\ KvCap \in Nat /\ l \in 0..Layers-1 /\ l \in Nat /\ g \in Nat /\ g + pass.n <= KvCap
      /\ DOMAIN kv = 0 .. Layers * KvCap - 1
  BY BaseFact DEF Computing, Base
<1>2. /\ DOMAIN c = DOMAIN kv
      /\ \A r \in DOMAIN kv : c[r] = IF at(r) \in 1..pass.n THEN Key(at(r)) ELSE kv[r]
  BY DEF Capture
<1>3. PICK base \in Nat : base = l * KvCap
  BY <1>1
<1> HIDE DEF g
<1>4. ASSUME NEW r \in 0 .. g + pass.n - 1
      PROVE  c[l * KvCap + r] = [conv |-> conv, i |-> r, l |-> l, rope |-> r]
  <2>1. r \in 0..KvCap-1
    BY <1>1
  <2>2. l * KvCap + r \in DOMAIN kv
    BY <1>1, <2>1, Cell
  <2>3. at(base + r) = r - g + 1
    BY <1>1, <1>3
  <2>4. c[base + r] = IF r - g + 1 \in 1..pass.n THEN Key(r - g + 1) ELSE kv[base + r]
    <3>1. at(base + r) = r - g + 1
      BY <2>3
    <3> HIDE DEF at
    <3> QED
      BY <1>2, <1>3, <2>2, <3>1
  <2>5. CASE r >= g
    <3>1. PICK m \in 1..pass.n : m = r - g + 1 /\ g + m - 1 = r
      BY <1>1, <2>5
    <3>2. Key(m) = [conv |-> conv, i |-> g + m - 1, l |-> l, rope |-> g + m - 1]
      BY RowKeys DEF g
    <3> QED
      BY <1>3, <2>4, <3>1, <3>2
  <2>6. CASE r < g
    <3>1. ~(r - g + 1 \in 1..pass.n) /\ r \in 0..g-1
      BY <1>1, <2>6
    <3>2. kv[l * KvCap + r] = [conv |-> conv, i |-> r, l |-> l, rope |-> r]
      <4>1. l \in l..Layers-1
        BY <1>1
      <4>2. Filled(l, g)
        BY <4>1 DEF Computing, g
      <4> QED
        BY <3>1, <4>2 DEF Filled
    <3> QED
      BY <1>3, <2>4, <3>1, <3>2
  <2> QED
    BY <1>1, <2>5, <2>6
<1>5. ASSUME NEW j \in 0..Layers-1, NEW r \in 0..KvCap-1, j # l
      PROVE  c[j * KvCap + r] = kv[j * KvCap + r]
  <2>1. j * KvCap + r \in DOMAIN kv
    BY <1>1, Cell
  <2>2. PICK w \in Nat : w = j * KvCap + r
    BY <1>1, <2>1
  <2>3. ~(at(w) \in 1..pass.n)
    <3> SUFFICES ASSUME at(w) \in 1..pass.n PROVE FALSE
      OBVIOUS
    <3>1. PICK s \in 0..KvCap-1 : w = base + s
      <4>1. PICK m \in 1..pass.n : m = w - (base + g) + 1
        BY <1>3
      <4>2. g + m - 1 \in 0..KvCap-1 /\ w = base + (g + m - 1)
        BY <1>1, <1>3, <2>2, <4>1
      <4> QED
        BY <4>2
    <3>2. j * KvCap + r = l * KvCap + s
      BY <1>3, <2>2, <3>1
    <3> QED
      BY <1>1, <1>5, <3>2, CellsApart
  <2> HIDE DEF at
  <2> QED
    BY <1>2, <2>1, <2>2, <2>3
<1> QED
  BY <1>2, <1>4, <1>5 DEF g
\* A layer is done: the rows have gone through it and their keys are in the cache.
LEMMA LayerDone ==
    ASSUME IInv, pc = "compute", pc' = "layer", kv' = Capture, x' = Through, l' = l + 1,
           UNCHANGED <<env, todo, conv, known, tok, gen, pass, pools, cached>>,
           kv_len' \in Nat, pass.kind = "prompt" => kv_len' = pass.gpos + pass.n,
           DOMAIN seen' = 1..pass.n,
           \A m \in 1..pass.n : seen'[m] = [s \in 1..(pass.gpos + m) |-> [conv |-> conv, i |-> s - 1, l |-> l, rope |-> s - 1]]
    PROVE  IInv'
<1>1. Computing /\ pass.n \in 1..7
  BY ComputingFact
<1>2. /\ Layers \in Nat /\ KvCap \in Nat /\ l \in 0..Layers-1 /\ l \in Nat /\ pass.gpos \in Nat
      /\ pass.gpos + pass.n <= KvCap /\ DOMAIN kv = 0 .. Layers * KvCap - 1
      /\ \A j \in 0..l-1 : Filled(j, pass.gpos + pass.n)
      /\ \A j \in l..Layers-1 : Filled(j, pass.gpos)
  BY <1>1, BaseFact DEF Computing, Base
<1>3. /\ DOMAIN kv' = DOMAIN kv
      /\ \A r \in 0 .. pass.gpos + pass.n - 1 : kv'[l * KvCap + r] = [conv |-> conv, i |-> r, l |-> l, rope |-> r]
      /\ \A j \in 0..Layers-1, r \in 0..KvCap-1 : j # l => kv'[j * KvCap + r] = kv[j * KvCap + r]
  BY <1>1, CaptureFacts
<1>4. DOMAIN Through = 1..pass.n
  BY DEF Through
<1>5. \A m \in 1..pass.n : Through[m] = [conv |-> conv, i |-> pass.gpos + m - 1, layers |-> l + 1]
  BY <1>1, RowKeys
<1>6. x' = [m \in 1..pass.n |-> [conv |-> conv, i |-> pass.gpos + m - 1, layers |-> l + 1]]
  <2>1. Through = [m \in 1..pass.n |-> Through[m]]
    BY DEF Through
  <2> QED
    BY <1>5, <2>1
<1>7. Kinds'
  <2>1. l + 1 \in 0..Layers
    BY <1>2
  <2> QED
    BY <1>2, <1>3, <2>1 DEF IInv, Kinds
<1>8. PlanInv'
  BY PlanFrame DEF IInv
<1>9. FirstInv'
  BY DEF FirstInv
<1>10. PassInv'
  <2>1. \A j \in 0..l'-1 : Filled(j, pass.gpos + pass.n)'
    <3>1. PICK t \in Nat : t = pass.gpos + pass.n
      BY <1>1, <1>2
    <3>2. \A r \in 0..t-1 : kv'[l * KvCap + r] = [conv |-> conv, i |-> r, l |-> l, rope |-> r]
      <4> SUFFICES ASSUME NEW r \in 0..t-1
                   PROVE  kv'[l * KvCap + r] = [conv |-> conv, i |-> r, l |-> l, rope |-> r]
        OBVIOUS
      <4>1. PICK g \in Nat, n \in 1..7 : g = pass.gpos /\ n = pass.n
        BY <1>1, <1>2
      <4>2. r \in 0 .. g + n - 1
        BY <3>1, <4>1
      <4>3. r \in 0 .. pass.gpos + pass.n - 1
        BY <4>1, <4>2
      <4> QED
        BY <1>3, <4>3
    <3>3. ASSUME NEW j \in 0..l-1, NEW r \in 0..t-1
          PROVE  kv'[j * KvCap + r] = [conv |-> conv, i |-> r, l |-> j, rope |-> r]
      <4>1. j \in 0..Layers-1 /\ j # l /\ r \in 0..KvCap-1
        BY <1>2, <3>1
      <4>2. kv[j * KvCap + r] = [conv |-> conv, i |-> r, l |-> j, rope |-> r]
        BY <1>2, <3>1 DEF Filled
      <4> QED
        BY <1>3, <4>1, <4>2
    <3>4. ASSUME NEW j \in 0..l'-1, NEW r \in 0..t-1
          PROVE  kv'[j * KvCap + r] = [conv |-> conv, i |-> r, l |-> j, rope |-> r]
      <4>1. j = l \/ j \in 0..l-1
        BY <1>2
      <4> QED
        BY <3>2, <3>3, <4>1
    <3>5. conv' = conv /\ pass' = pass
      OBVIOUS
    <3> QED
      BY <3>1, <3>4, <3>5 DEF Filled
  <2>2. \A j \in l'..Layers-1 : Filled(j, pass.gpos)'
    <3> TAKE j \in l'..Layers-1
    <3>1. j \in l..Layers-1 /\ j \in 0..Layers-1 /\ j # l
      BY <1>2
    <3>2. \A r \in 0 .. pass.gpos - 1 : r \in 0..KvCap-1
      BY <1>1, <1>2
    <3>3. Filled(j, pass.gpos)
      BY <1>2, <3>1
    <3> QED
      BY <1>3, <3>1, <3>2, <3>3 DEF Filled
  <2>3. x' = Hidden(l)'
    BY <1>6 DEF Hidden
  <2>4. /\ pass \in Plans /\ pass.gpos \in Nat
        /\ pass.gpos + pass.n <= KvCap /\ pass.gpos + pass.n <= known
        /\ pass.head <=> pass.gpos + pass.n = known
        /\ pass.kind = "decode" => pass.n = 1 /\ pass.head /\ pass.pool = 1
    BY DEF IInv, PassInv, Running
  <2> QED
    BY <2>1, <2>2, <2>3, <2>4 DEF PassInv
<1>11. HandInv'
  BY DEF IInv, HandInv, Running
<1>12. SeenInv'
  <2> SUFFICES ASSUME NEW m \in DOMAIN seen'
               PROVE  seen'[m] = [s \in 1..(x'[m].i + 1) |-> [conv |-> conv, i |-> s - 1, l |-> l' - 1, rope |-> s - 1]]
    BY DEF SeenInv
  <2>1. x'[m].i = pass.gpos + m - 1
    BY <1>6
  <2>2. x'[m].i + 1 = pass.gpos + m /\ l' - 1 = l
    BY <1>1, <1>2, <2>1
  <2> QED
    BY <2>2
<1>13. PoolInv'
  BY DEF IInv, PoolInv
<1>14. AheadInv'
  <2> SUFFICES ASSUME pass.kind = "decode", env.delta # None
               PROVE  \A j \in l + 1 .. l + 1 + env.delta - 1 : j < Layers => j \in cached
    BY DEF AheadInv
  <2>1. env.delta \in Nat
    <3>1. env.delta \in Deltas
      BY DEF IInv, Kinds, Envs
    <3> QED
      BY <3>1, BaseFact DEF Base
  <2>2. /\ \A j \in l .. l + env.delta - 1 : j < Layers => j \in cached
        /\ l + env.delta < Layers => l + env.delta \in cached
    BY DEF IInv, AheadInv, Running
  <2>3. \A j \in l + 1 .. l + 1 + env.delta - 1 : j = l + env.delta \/ j \in l .. l + env.delta - 1
    <3>1. PICK d \in Nat, k \in Nat : d = env.delta /\ k = l
      BY <1>2, <2>1
    <3>2. \A j \in k + 1 .. k + 1 + d - 1 : j = k + d \/ j \in k .. k + d - 1
      BY <3>1
    <3> QED
      BY <3>1, <3>2
  <2> QED
    BY <2>2, <2>3
<1> QED
  BY <1>7, <1>8, <1>9, <1>10, <1>11, <1>12, <1>13, <1>14 DEF IInv

\* The first chunk looks at its own rows; a later one at the rows before it in the cache,
\* and then at its own.
LEMMA PromptLayerInv ==
    ASSUME IInv, PromptLayer
    PROVE  IInv'
<1>1. /\ pc = "compute" /\ pass.kind = "prompt" /\ pc' = "layer" /\ kv' = Capture /\ x' = Through /\ l' = l + 1
      /\ kv_len' = pass.gpos + pass.n
      /\ seen' = [m \in 1..pass.n |-> IF pass.gpos = 0 THEN attention(m) ELSE attention_ext(m)]
      /\ UNCHANGED <<env, todo, conv, known, tok, gen, pass, pools, cached>>
  BY DEF PromptLayer
<1>2. Computing /\ pass.n \in 1..7
  BY <1>1, ComputingFact
<1>3. /\ pass.gpos \in Nat /\ kv_len' \in Nat /\ l \in l..Layers-1
      /\ \A j \in l..Layers-1 : Filled(j, pass.gpos)
  BY <1>1, <1>2, BaseFact DEF Computing, Base
<1>4. \A r \in 0 .. pass.gpos - 1 : kv[l * KvCap + r] = [conv |-> conv, i |-> r, l |-> l, rope |-> r]
  BY <1>3 DEF Filled
<1>5. ASSUME NEW m \in 1..pass.n
      PROVE  seen'[m] = [s \in 1..(pass.gpos + m) |-> [conv |-> conv, i |-> s - 1, l |-> l, rope |-> s - 1]]
  <2>1. ASSUME NEW s \in 1..m
        PROVE  Key(s) = [conv |-> conv, i |-> pass.gpos + s - 1, l |-> l, rope |-> pass.gpos + s - 1]
    <3>1. s \in 1..pass.n
      BY <1>2
    <3> QED
      BY <1>2, <3>1, RowKeys
  <2>2. CASE pass.gpos = 0
    <3>1. seen'[m] = [s \in 1..m |-> Key(s)] /\ pass.gpos + m = m
      BY <1>1, <1>2, <2>2 DEF attention
    <3>2. \A s \in 1..m : Key(s) = [conv |-> conv, i |-> s - 1, l |-> l, rope |-> s - 1]
      BY <2>1, <2>2
    <3> QED
      BY <3>1, <3>2
  <2>3. CASE pass.gpos # 0
    <3>1. seen'[m] = [s \in 1..(pass.gpos + m) |-> IF s <= pass.gpos THEN kv[l * KvCap + s - 1] ELSE Key(s - pass.gpos)]
      BY <1>1, <2>3 DEF attention_ext
    <3>2. ASSUME NEW s \in 1..(pass.gpos + m)
          PROVE  (IF s <= pass.gpos THEN kv[l * KvCap + s - 1] ELSE Key(s - pass.gpos))
                    = [conv |-> conv, i |-> s - 1, l |-> l, rope |-> s - 1]
      <4>1. CASE s <= pass.gpos
        <5>1. PICK r \in 0 .. pass.gpos - 1 : r = s - 1
          BY <1>3, <4>1
        <5>2. PICK base \in Nat : base = l * KvCap
          BY <1>2, BaseFact DEF Computing, Base
        <5>3. base + s - 1 = base + r
          BY <1>3, <5>1, <5>2
        <5>4. kv[l * KvCap + s - 1] = kv[l * KvCap + r]
          BY <5>2, <5>3
        <5> QED
          BY <1>4, <4>1, <5>1, <5>4
      <4>2. CASE ~(s <= pass.gpos)
        <5>1. PICK k \in 1..m : k = s - pass.gpos /\ pass.gpos + k - 1 = s - 1
          BY <1>2, <1>3, <4>2
        <5> QED
          BY <2>1, <4>2, <5>1
      <4> QED
        BY <4>1, <4>2
    <3> QED
      BY <3>1, <3>2
  <2> QED
    BY <2>2, <2>3
<1>6. DOMAIN seen' = 1..pass.n
  BY <1>1
<1> QED
  BY <1>1, <1>3, <1>5, <1>6, LayerDone

\* A decode step looks at the cache with its own row in it.
LEMMA DecodeLayerInv ==
    ASSUME IInv, DecodeLayer
    PROVE  IInv'
<1>1. /\ pc = "compute" /\ pass.kind = "decode" /\ pc' = "layer" /\ kv' = Capture /\ x' = Through /\ l' = l + 1
      /\ kv_len' = kv_len /\ seen' = <<attention_cached(Capture)>>
      /\ UNCHANGED <<env, todo, conv, known, tok, gen, pass, pools, cached>>
  BY DEF DecodeLayer
<1>2. Computing /\ pass.n \in 1..7 /\ pass.n = 1 /\ kv_len \in Nat
  BY <1>1, ComputingFact DEF IInv, PassInv, Running, Kinds
<1>3. PICK c : c = Capture
  OBVIOUS
<1>4. \A r \in 0 .. pass.gpos + pass.n - 1 : c[l * KvCap + r] = [conv |-> conv, i |-> r, l |-> l, rope |-> r]
  BY <1>2, <1>3, CaptureFacts
<1>5. pass.gpos \in Nat /\ l \in Nat /\ KvCap \in Nat
  BY <1>2, BaseFact DEF Computing, Base
<1>6. DOMAIN seen' = 1..1 /\ seen'[1] = [s \in 1..(pass.gpos + 1) |-> c[l * KvCap + s - 1]]
  BY <1>1, <1>3 DEF attention_cached
<1>7. ASSUME NEW s \in 1..(pass.gpos + 1)
      PROVE  c[l * KvCap + s - 1] = [conv |-> conv, i |-> s - 1, l |-> l, rope |-> s - 1]
  <2>1. PICK r \in 0 .. pass.gpos + pass.n - 1 : r = s - 1
    BY <1>2, <1>5
  <2>2. PICK base \in Nat : base = l * KvCap
    BY <1>5
  <2>3. base + s - 1 = base + r
    BY <1>5, <2>1, <2>2
  <2>4. c[l * KvCap + s - 1] = c[l * KvCap + r]
    BY <2>2, <2>3
  <2> QED
    BY <1>4, <2>1, <2>4
<1>8. \A m \in 1..pass.n : seen'[m] = [s \in 1..(pass.gpos + m) |-> [conv |-> conv, i |-> s - 1, l |-> l, rope |-> s - 1]]
  <2>1. \A m \in 1..pass.n : m = 1
    BY <1>2
  <2>2. seen'[1] = [s \in 1..(pass.gpos + 1) |-> [conv |-> conv, i |-> s - 1, l |-> l, rope |-> s - 1]]
    BY <1>6, <1>7
  <2> QED
    BY <2>1, <2>2
<1>9. DOMAIN seen' = 1..pass.n /\ kv_len' \in Nat /\ pass.kind # "prompt"
  BY <1>1, <1>2, <1>6
<1> QED
  BY <1>1, <1>8, <1>9, LayerDone
-----------------------------------------------------------------------------
(* The end of a pass                                                         *)

\* A pass with a head makes one token known, the one the next decode step takes; without a
\* head, the next chunk goes on at the row where this one has left off.
LEMMA LmHead2Inv ==
    ASSUME IInv, LmHead2
    PROVE  IInv'
<1>1. /\ pc = "layer" /\ l = Layers /\ seen' = <<>> /\ pc' = "pass"
      /\ kv_len' = IF pass.kind = "decode" THEN pass.gpos + 1 ELSE kv_len
      /\ UNCHANGED <<env, todo, conv, gen, pass, l, x, weights, kv, pools, cached>>
  BY DEF LmHead2
<1>2. /\ Layers \in Nat \ {0} /\ KvCap \in Nat /\ MaxSeq \in Nat
      /\ known \in Nat /\ gen \in Nat /\ kv_len \in Nat /\ conv \in Nat
      /\ todo \in Seq(Plans) /\ Len(todo) \in Nat
  BY BaseFact DEF IInv, Kinds, Base
<1>3. PICK g \in Nat, n \in 1..7 : g = pass.gpos /\ n = pass.n /\ pass.kind \in {"prompt", "decode"}
  <2>1. pass \in Plans /\ pass.gpos \in Nat
    BY <1>1 DEF IInv, PassInv, Running
  <2> QED
    BY <2>1 DEF Plans, MS
<1>4. /\ g + n <= KvCap /\ (pass.head <=> g + n = known) /\ (pass.kind = "decode" => n = 1)
      /\ x = Hidden(Layers) /\ (pass.kind = "prompt" => kv_len = g + n)
      /\ \A j \in 0..Layers-1 : Filled(j, g + n)
  <2>1. l > 0
    BY <1>1, <1>2
  <2> QED
    BY <1>1, <1>3, <2>1 DEF IInv, PassInv, Running
<1>5. kv_len' = g + n /\ kv_len' \in Nat
  <2>1. CASE pass.kind = "decode"
    BY <1>1, <1>3, <1>4, <2>1
  <2>2. CASE pass.kind = "prompt"
    BY <1>1, <1>2, <1>3, <1>4, <2>2
  <2> QED
    BY <1>3, <2>1, <2>2
<1>6. Kept(kv_len)'
  <2>1. \A j \in 0..Layers-1 : Filled(j, g + n)
    BY <1>4
  <2> QED
    BY <1>1, <1>5, <2>1 DEF Kept, Filled
<1>7. todo # <<>> => 1 \in 1..Len(todo) /\ todo[1] \in Plans
  BY <1>2, EmptySeq
<1>8. /\ known' \in Nat /\ tok' \in Int /\ PlanInv'
      /\ todo # <<>> /\ todo[1].kind = "prompt" => todo[1].gpos = kv_len'
      /\ todo # <<>> /\ todo[1].kind = "decode" =>
            /\ tok' = kv_len' /\ known' = kv_len' + 1
            /\ kv_len' + Len(todo) <= KvCap /\ gen + Len(todo) <= MaxSeq
  <2>1. CASE pass.head
    <3>1. x[n] = [conv |-> conv, i |-> g + n - 1, layers |-> Layers]
      BY <1>3, <1>4 DEF Hidden
    <3>2. g + n = known /\ g + n - 1 = known - 1
      BY <1>4, <2>1
    <3>3. x[n].layers = Layers /\ x[n].i = known - 1
      BY <3>1, <3>2
    <3>4. tok' = known /\ known' = known + 1
      BY <1>3, <2>1, <3>3 DEF LmHead2
    <3>5. /\ known + Len(todo) <= KvCap /\ gen + Len(todo) <= MaxSeq
          /\ \A k \in 1..Len(todo) : todo[k].kind = "decode"
      BY <1>1, <2>1 DEF IInv, HandInv, Running
    <3>6. PlanInv'
      <4>1. \A k \in 1..Len(todo) : todo[k].kind = "decode" /\ DecodePlan(k)
        BY <3>5 DEF IInv, PlanInv
      <4>2. \A k \in 1..Len(todo) : todo[k].kind # "prompt" /\ DecodePlan(k)'
        BY <1>1, <4>1 DEF DecodePlan
      <4> QED
        BY <1>1, <4>2 DEF PlanInv
    <3> QED
      BY <1>2, <1>5, <1>7, <3>2, <3>4, <3>5, <3>6
  <2>2. CASE ~pass.head
    <3>1. tok' = None /\ known' = known
      BY <2>2 DEF LmHead2
    <3>2. \A k \in 1..Len(todo) : k = 1 => todo[k].kind = "prompt" /\ todo[k].gpos = g + n
      BY <1>1, <1>3, <2>2 DEF IInv, HandInv, Running
    <3>3. PlanInv'
      BY <1>1, <3>1, PlanFrame DEF IInv
    <3> QED
      BY <1>2, <1>5, <1>7, <3>1, <3>2, <3>3 DEF None
  <2> QED
    BY <2>1, <2>2
<1>9. Kinds'
  BY <1>1, <1>5, <1>8 DEF IInv, Kinds
<1>10. FirstInv'
  BY <1>1, <1>6, <1>8 DEF FirstInv
<1>11. PassInv' /\ HandInv' /\ AheadInv'
  BY <1>1 DEF PassInv, HandInv, AheadInv, Running
<1>12. SeenInv'
  BY <1>1 DEF SeenInv
<1>13. PoolInv'
  BY <1>1 DEF IInv, PoolInv
<1> QED
  BY <1>8, <1>9, <1>10, <1>11, <1>12, <1>13 DEF IInv

-----------------------------------------------------------------------------
(* Every step, and what follows                                              *)

LEMMA NextInv ==
    ASSUME IInv, [Next]_vars
    PROVE  IInv'
<1>1. CASE Main
  <2>1. CASE StartDecode \/ StartChat
    BY <2>1, StartInv
  <2>2. CASE EndPasses \/ Shutdown \/ Join
    BY <2>2, EndInv
  <2>3. CASE Regression
    BY <2>3, RegressionInv
  <2>4. CASE StartPass
    BY <2>4, StartPassInv
  <2>5. CASE LayerBegin
    BY <2>5, LayerBeginInv
  <2>6. CASE Issue
    BY <2>6, IssueInv
  <2>7. CASE PromptLayer
    BY <2>7, PromptLayerInv
  <2>8. CASE DecodeLayer
    BY <2>8, DecodeLayerInv
  <2>9. CASE LmHead2
    BY <2>9, LmHead2Inv
  <2> QED
    BY <1>1, <2>1, <2>2, <2>3, <2>4, <2>5, <2>6, <2>7, <2>8, <2>9 DEF Main
<1>2. CASE ReadFails
  BY <1>2, EndInv
<1>3. CASE Thread \/ Stopped \/ UNCHANGED vars
  <2>1. UNCHANGED main
    BY <1>3 DEF Thread, Check, Readahead, Stopped, vars, main
  <2> QED
    BY <2>1, ChatFrame
<1> QED
  BY <1>1, <1>2, <1>3 DEF Next

THEOREM Inductive == Spec => []IInv
  BY InitInv, NextInv, PTL DEF Spec

\* Every token attends to the keys of its own conversation, from the first to its own, each
\* at its own place and of the layer in hand; every row of a pass has been through the same
\* layers: per_row_quant, the three attentions and the chunks of a prompt agree on g_kv_len.
THEOREM OwnPrefix == Spec => []AttendsOwnPrefix
<1>1. IInv => AttendsOwnPrefix
  <2> SUFFICES ASSUME IInv PROVE AttendsOwnPrefix
    OBVIOUS
  <2>1. \A m \in DOMAIN seen :
           seen[m] = [s \in 1..(x[m].i + 1) |-> [conv |-> conv, i |-> s - 1, l |-> l - 1, rope |-> s - 1]]
    BY DEF IInv, SeenInv
  <2>2. Running => \A m \in DOMAIN x : x[m].conv = conv /\ x[m].layers = l
    <3> SUFFICES ASSUME Running PROVE \A m \in DOMAIN x : x[m].conv = conv /\ x[m].layers = l
      OBVIOUS
    <3>1. x = [m \in 1..pass.n |-> [conv |-> conv, i |-> pass.gpos + m - 1, layers |-> l]]
      BY DEF IInv, PassInv, Hidden
    <3> QED
      BY <3>1
  <2> QED
    BY <2>1, <2>2 DEF AttendsOwnPrefix, Running
<1> QED
  BY <1>1, Inductive, PTL

\* No pass needs a row of the cache or a command buffer that is not there, gen never runs
\* past its end, and a decode step finds its layer read ahead: the limits main computes
\* before it starts (KV_CAP less the prompt, the early release, B_PREFETCH_DELTA) suffice.
THEOREM RoomForAll == Spec => []MemoryHeld
<1>1. IInv => MemoryHeld
  <2> SUFFICES ASSUME IInv PROVE MemoryHeld
    OBVIOUS
  <2>1. Running => pass.n <= MS /\ pass.gpos + pass.n <= KvCap /\ pass.pool \in pools
    <3> SUFFICES ASSUME Running PROVE pass.n <= MS /\ pass.gpos + pass.n <= KvCap /\ pass.pool \in pools
      OBVIOUS
    <3>1. pass \in Plans /\ pass.gpos + pass.n <= KvCap /\ (pass.kind = "decode" => pass.pool = 1)
      BY DEF IInv, PassInv
    <3>2. pass.n \in 1..MS /\ pass.pool \in {1, 3, 5, 7}
      BY <3>1 DEF Plans
    <3>3. pools = {1, 3, 5, 7} \/ (1 \in pools /\ pass.kind = "decode")
      BY DEF IInv, PoolInv
    <3> QED
      BY <3>1, <3>2, <3>3 DEF MS
  <2>2. gen <= MaxSeq
    BY DEF IInv, Kinds
  <2>3. pc = "compute" /\ pass.kind = "decode" /\ env.delta # None => l \in cached
    BY DEF IInv, AheadInv, Running
  <2> QED
    BY <2>1, <2>2, <2>3 DEF MemoryHeld, Running
<1> QED
  BY <1>1, Inductive, PTL

-----------------------------------------------------------------------------
(* Loops.  A set of naturals has a least one; that gives induction over sets,  *)
(* and functions that are defined by what they were one round earlier.         *)

LEMMA LeastNat ==
    ASSUME NEW S \in SUBSET Nat, S # {}
    PROVE  Min(S) \in S /\ \A k \in S : Min(S) <= k
<1>1. PICK m \in S : \A k \in S : <<k, m>> \notin OpToRel(<, Nat)
  BY NatLessThanWellFounded, WFMin
<1>2. \A k \in S : m <= k
  <2> SUFFICES ASSUME NEW k \in S PROVE m <= k
    OBVIOUS
  <2>1. ~(k < m)
    BY <1>1 DEF OpToRel
  <2> QED
    BY <2>1
<1> QED
  BY <1>2 DEF Min

LEMMA SetInduction ==
    ASSUME NEW G, 0 \in G, \A k \in Nat : k \in G => k + 1 \in G
    PROVE  \A k \in Nat : k \in G
<1> SUFFICES ASSUME NEW j \in Nat, j \notin G PROVE FALSE
  OBVIOUS
<1> DEFINE B == {k \in Nat : k \notin G}
           m == Min(B)
<1>1. m \in B /\ \A k \in B : m <= k
  <2>1. B \in SUBSET Nat /\ B # {}
    OBVIOUS
  <2> HIDE DEF B
  <2> QED
    BY <2>1, LeastNat
<1> HIDE DEF m
<1>2. m \in Nat /\ m # 0
  BY <1>1
<1>3. m - 1 \in Nat /\ m - 1 \in G
  BY <1>1, <1>2
<1>4. (m - 1) + 1 \in G
  BY <1>3
<1> QED
  BY <1>1, <1>2, <1>4

\* A loop over 1..n whose body is a function on the set X of what it carries along.
LoopBody(n, X, Step) == Step \in [1..n -> [X -> X]]
HasLoop(n, X, base, Step) ==
    \E f \in [0..n -> X] : f[0] = base /\ \A i \in 1..n : f[i] = Step[i][f[i - 1]]

LEMMA LoopExists ==
    ASSUME NEW n \in Nat, NEW X, NEW base \in X, NEW Step, LoopBody(n, X, Step)
    PROVE  HasLoop(n, X, base, Step)
<1> USE DEF LoopBody, HasLoop
<1> DEFINE Is(f, m) == f = [i \in 0..m |-> IF i = 0 THEN base ELSE Step[i][f[i - 1]]]
           G == {m \in Nat : m <= n => \E f \in [0..m -> X] : Is(f, m)}
<1>1. 0 \in G
  <2> DEFINE f == [i \in 0..0 |-> base]
  <2>1. f \in [0..0 -> X] /\ \A i \in 0..0 : i = 0
    OBVIOUS
  <2>2. Is(f, 0)
    OBVIOUS
  <2> QED
    BY <2>1, <2>2
<1>2. ASSUME NEW m \in Nat, m \in G PROVE m + 1 \in G
  <2> SUFFICES ASSUME m + 1 <= n PROVE \E f \in [0..m+1 -> X] : Is(f, m + 1)
    OBVIOUS
  <2>1. PICK g \in [0..m -> X] : Is(g, m)
    BY <1>2
  <2> DEFINE f == [i \in 0..m+1 |-> IF i <= m THEN g[i] ELSE Step[i][g[m]]]
  <2>2. f \in [0..m+1 -> X]
    <3>1. ASSUME NEW i \in 0..m+1 PROVE f[i] \in X
      OBVIOUS
    <3> QED
      BY <3>1
  <2>3. \A i \in 0..m+1 : f[i] = IF i = 0 THEN base ELSE Step[i][f[i - 1]]
    <3> SUFFICES ASSUME NEW i \in 0..m+1 PROVE f[i] = IF i = 0 THEN base ELSE Step[i][f[i - 1]]
      OBVIOUS
    <3>1. CASE i <= m
      <4>1. i \in 0..m /\ g[i] = IF i = 0 THEN base ELSE Step[i][g[i - 1]]
        BY <2>1, <3>1
      <4>2. f[i] = g[i] /\ (i # 0 => f[i - 1] = g[i - 1])
        BY <3>1
      <4> QED
        BY <4>1, <4>2
    <3>2. CASE ~(i <= m)
      <4>1. i = m + 1 /\ i # 0 /\ i - 1 = m /\ f[i] = Step[i][g[m]] /\ f[m] = g[m]
        BY <3>2
      <4> HIDE DEF f
      <4> QED
        BY <4>1
    <3> QED
      BY <3>1, <3>2
  <2>4. Is(f, m + 1)
    <3> DEFINE u == [i \in 0..m+1 |-> IF i = 0 THEN base ELSE Step[i][f[i - 1]]]
    <3>1. f = u
      <4>1. DOMAIN f = 0..m+1 /\ DOMAIN u = 0..m+1 /\ \A i \in 0..m+1 : f[i] = u[i]
        BY <2>3
      <4>2. f = [i \in 0..m+1 |-> f[i]]
        OBVIOUS
      <4> QED
        BY <4>1, <4>2
    <3> QED
      BY <3>1
  <2> QED
    BY <2>2, <2>4
<1> HIDE DEF G
<1>3. n \in G
  BY <1>1, <1>2, SetInduction
<1>4. PICK f \in [0..n -> X] : Is(f, n)
  BY <1>3 DEF G
<1>5. f[0] = base /\ \A i \in 1..n : f[i] = Step[i][f[i - 1]]
  BY <1>4
<1> QED
  BY <1>5


\* The first of the largest of n numbers.
LEMMA FirstBest ==
    ASSUME NEW n \in Nat, n # 0, NEW sc \in [1..n -> Int]
    PROVE  \E c \in 1..n : \A d \in 1..n : sc[c] > sc[d] \/ (sc[c] = sc[d] /\ c <= d)
<1> DEFINE Top(c, m) == \A d \in 1..m : sc[c] > sc[d] \/ (sc[c] = sc[d] /\ c <= d)
           G == {m \in Nat : m < n => \E c \in 1..m+1 : Top(c, m + 1)}
<1>1. 0 \in G
  <2>1. 1 \in 1..0+1 /\ \A d \in 1..0+1 : d = 1
    OBVIOUS
  <2>2. sc[1] \in Int
    OBVIOUS
  <2> QED
    BY <2>1, <2>2
<1>2. ASSUME NEW m \in Nat, m \in G PROVE m + 1 \in G
  <2> SUFFICES ASSUME m + 1 < n PROVE \E c \in 1..m+2 : Top(c, m + 2)
    OBVIOUS
  <2>1. PICK c \in 1..m+1 : Top(c, m + 1)
    BY <1>2
  <2>2. \A d \in 1..m+2 : sc[d] \in Int /\ d \in Int /\ (d \in 1..m+1 \/ d = m + 2)
    OBVIOUS
  <2>3. CASE sc[m + 2] > sc[c]
    <3>1. Top(m + 2, m + 2)
      BY <2>1, <2>2, <2>3
    <3> QED
      BY <3>1
  <2>4. CASE ~(sc[m + 2] > sc[c])
    <3>1. Top(c, m + 2)
      BY <2>1, <2>2, <2>4
    <3> QED
      BY <3>1
  <2> QED
    BY <2>3, <2>4
<1> HIDE DEF G
<1>3. \A m \in Nat : m \in G
  BY <1>1, <1>2, SetInduction
<1>4. n - 1 \in G /\ n - 1 \in Nat /\ n - 1 < n /\ n - 1 + 1 = n
  BY <1>3
<1> QED
  BY <1>4 DEF G

\* What the five best rows are after i rows.
RowsTyped(top) == top \in [1..5 -> [s : Int, t : Int]]
RowsOwn(top, i, scores) ==
    /\ \A k \in 1..5 : k <= i => top[k].t \in 1..i /\ top[k].s = scores[top[k].t]
    /\ \A k \in 1..5 : k > i => top[k].t = None /\ top[k].s = Low
Beats(a, b) == a.s > b.s \/ (a.s = b.s /\ a.t < b.t)
RowsOrdered(top, i) == \A j, k \in 1..5 : j < k /\ k <= i => Beats(top[j], top[k])
RowsKept(top, i, scores) ==
    \A c \in 1..i : (\E k \in 1..5 : top[k].t = c) \/ scores[c] <= top[5].s
RowsSoFar(top, i, scores) ==
    /\ RowsTyped(top)
    /\ RowsOwn(top, i, scores)
    /\ RowsOrdered(top, i)
    /\ RowsKept(top, i, scores)

LEMMA InsertKeeps ==
    ASSUME NEW n \in Nat, NEW scores \in [1..n -> Int], \A c \in 1..n : scores[c] > Low,
           NEW i \in Nat, i < n, NEW top, RowsSoFar(top, i, scores)
    PROVE  RowsSoFar(Insert(top, [s |-> scores[i + 1], t |-> i + 1]), i + 1, scores)
<1> DEFINE row == [s |-> scores[i + 1], t |-> i + 1]
           beaten == {k \in 1..5 : row.s > top[k].s}
           new == Insert(top, row)
<1> USE DEF Low, None
<1>1. row.s = scores[i + 1] /\ row.t = i + 1 /\ row \in [s : Int, t : Int] /\ row.s > Low /\ row.s \in Int
  OBVIOUS
<1>2. \A k \in 1..5 : top[k] \in [s : Int, t : Int] /\ top[k].s \in Int /\ top[k].t \in Int
  BY DEF RowsSoFar, RowsTyped
<1>3. \A k \in 1..5 : k <= i => top[k].t \in 1..i /\ top[k].s = scores[top[k].t]
  BY DEF RowsSoFar, RowsOwn
<1>4. \A k \in 1..5 : k > i => top[k].t = None /\ top[k].s = Low
  BY DEF RowsSoFar, RowsOwn
<1>5. \A j, k \in 1..5 : j < k /\ k <= i => Beats(top[j], top[k])
  BY DEF RowsSoFar, RowsOrdered
<1>6. \A c \in 1..i : (\E k \in 1..5 : top[k].t = c) \/ scores[c] <= top[5].s
  BY DEF RowsSoFar, RowsKept
<1>7. \A k \in 1..5 : top[k].s >= Low
  <2> SUFFICES ASSUME NEW k \in 1..5 PROVE top[k].s >= Low
    OBVIOUS
  <2>1. CASE k <= i
    <3>1. top[k].t \in 1..i /\ top[k].s = scores[top[k].t]
      BY <1>3, <2>1
    <3>2. scores[top[k].t] > Low
      <4>1. top[k].t \in 1..n
        BY <3>1
      <4> QED
        BY <4>1
    <3> QED
      BY <1>2, <3>1, <3>2
  <2>2. CASE k > i
    BY <1>4, <2>2
  <2> QED
    BY <2>1, <2>2
<1>8. CASE beaten = {}
  <2>1. new = top
    BY <1>8 DEF Insert
  <2>2. i >= 5
    <3> SUFFICES ASSUME i < 5 PROVE FALSE
      OBVIOUS
    <3>1. i + 1 \in 1..5 /\ i + 1 > i
      OBVIOUS
    <3>2. top[i + 1].s = Low
      BY <1>4, <3>1
    <3>3. i + 1 \in beaten
      BY <1>1, <3>1, <3>2
    <3> QED
      BY <1>8, <3>3
  <2>3. row.s <= top[5].s
    <3>1. 5 \notin beaten
      BY <1>8
    <3> HIDE DEF row
    <3> QED
      BY <1>1, <1>2, <3>1
  <2> HIDE DEF row, new, beaten
  <2>4. RowsOwn(top, i + 1, scores)
    <3>1. \A k \in 1..5 : k <= i + 1 => top[k].t \in 1..i+1 /\ top[k].s = scores[top[k].t]
      <4> SUFFICES ASSUME NEW k \in 1..5 PROVE top[k].t \in 1..i+1 /\ top[k].s = scores[top[k].t]
        OBVIOUS
      <4>1. k <= i
        BY <2>2
      <4>2. top[k].t \in 1..i /\ top[k].s = scores[top[k].t]
        BY <1>3, <4>1
      <4> QED
        BY <4>2
    <3>2. \A k \in 1..5 : ~(k > i + 1)
      BY <2>2
    <3> QED
      BY <3>1, <3>2 DEF RowsOwn
  <2>5. RowsOrdered(top, i + 1)
    <3>1. \A k \in 1..5 : k <= i
      BY <2>2
    <3> QED
      BY <1>5, <3>1 DEF RowsOrdered
  <2>6. RowsKept(top, i + 1, scores)
    <3>1. \A c \in 1..i+1 : c \in 1..i \/ c = i + 1
      OBVIOUS
    <3>2. scores[i + 1] <= top[5].s
      BY <1>1, <2>3
    <3> QED
      BY <1>6, <3>1, <3>2 DEF RowsKept
  <2>7. RowsSoFar(top, i + 1, scores)
    BY <2>4, <2>5, <2>6 DEF RowsSoFar
  <2> QED
    BY <2>1, <2>7 DEF new, row
<1>9. CASE beaten # {}
  <2> DEFINE at == Min(beaten)
  <2>1. at \in beaten /\ \A k \in beaten : at <= k
    <3>1. beaten \in SUBSET Nat
      OBVIOUS
    <3> HIDE DEF beaten
    <3> QED
      BY <1>9, <3>1, LeastNat
  <2>2. new = [k \in 1..5 |-> IF k < at THEN top[k] ELSE IF k = at THEN row ELSE top[k - 1]]
    BY <1>9 DEF Insert
  <2> HIDE DEF at, new, row
  <2>3. at \in 1..5 /\ row.s > top[at].s
    BY <2>1
  <2>4. ASSUME NEW k \in 1..5, k < at PROVE row.s <= top[k].s
    <3>1. k \notin beaten
      BY <2>1, <2>3, <2>4
    <3>2. ~(row.s > top[k].s)
      BY <3>1
    <3>3. row.s \in Int /\ top[k].s \in Int
      BY <1>1, <1>2
    <3> QED
      BY <3>2, <3>3
  <2> HIDE DEF beaten
  <2>5. at <= i + 1
    <3> SUFFICES ASSUME at > i + 1 PROVE FALSE
      BY <2>3
    <3>1. i + 1 \in 1..5 /\ i + 1 > i /\ i + 1 < at
      BY <2>3
    <3>2. top[i + 1].s = Low
      BY <1>4, <3>1
    <3>3. row.s <= top[i + 1].s
      BY <2>4, <3>1
    <3> QED
      BY <1>1, <3>2, <3>3
  <2>6. \A k \in 1..5 : k < at => new[k] = top[k]
    BY <2>2
  <2>7. new[at] = row
    BY <2>2, <2>3
  <2>8. \A k \in 1..5 : k > at => new[k] = top[k - 1] /\ k - 1 \in 1..5
    BY <2>2, <2>3
  <2>9. RowsTyped(new)
    <3>1. ASSUME NEW k \in 1..5 PROVE new[k] \in [s : Int, t : Int]
      <4>1. CASE k < at
        BY <1>2, <2>6, <4>1
      <4>2. CASE k = at
        BY <1>1, <2>7, <4>2
      <4>3. CASE k > at
        BY <1>2, <2>8, <4>3
      <4> QED
        BY <2>3, <4>1, <4>2, <4>3
    <3>2. new = [k \in 1..5 |-> new[k]]
      BY <2>2
    <3> QED
      BY <3>1, <3>2 DEF RowsTyped
  <2>10. ASSUME NEW k \in 1..5, k <= i + 1
         PROVE  new[k].t \in 1..i+1 /\ new[k].s = scores[new[k].t]
    <3>1. CASE k < at
      <4>1. new[k] = top[k] /\ k <= i
        BY <2>3, <2>5, <2>6, <3>1
      <4>2. top[k].t \in 1..i /\ top[k].s = scores[top[k].t]
        BY <1>3, <4>1
      <4> QED
        BY <4>1, <4>2
    <3>2. CASE k = at
      <4>1. row.t \in 1..i+1 /\ row.s = scores[row.t]
        BY <1>1
      <4> QED
        BY <2>7, <3>2, <4>1
    <3>3. CASE k > at
      <4>1. new[k] = top[k - 1] /\ k - 1 \in 1..5 /\ k - 1 <= i
        BY <2>8, <2>10, <3>3
      <4>2. top[k - 1].t \in 1..i /\ top[k - 1].s = scores[top[k - 1].t]
        BY <1>3, <4>1
      <4> QED
        BY <4>1, <4>2
    <3> QED
      BY <2>3, <3>1, <3>2, <3>3
  <2>11. ASSUME NEW k \in 1..5, k > i + 1
         PROVE  new[k].t = None /\ new[k].s = Low
    <3>1. k > at /\ k - 1 > i
      BY <2>3, <2>5, <2>11
    <3>2. new[k] = top[k - 1] /\ k - 1 \in 1..5
      BY <2>8, <3>1
    <3> QED
      BY <1>4, <3>1, <3>2
  <2>12. RowsOwn(new, i + 1, scores)
    BY <2>10, <2>11 DEF RowsOwn
  <2>13. ASSUME NEW j \in 1..5, NEW k \in 1..5, j < k, k <= i + 1
         PROVE  Beats(new[j], new[k])
    <3>1. CASE k < at
      <4>1. j < at /\ k <= i
        BY <2>3, <2>5, <2>13, <3>1
      <4>2. new[j] = top[j] /\ new[k] = top[k]
        BY <2>6, <3>1, <4>1
      <4> QED
        BY <1>5, <2>13, <4>1, <4>2
    <3>2. CASE k = at
      <4>1. new[j] = top[j] /\ new[k] = row /\ j <= i /\ j < at
        BY <2>3, <2>5, <2>6, <2>7, <2>13, <3>2
      <4>2. row.s <= top[j].s /\ top[j].t \in 1..i
        BY <1>3, <2>4, <4>1
      <4>3. Beats(top[j], row)
        <5>1. top[j].s \in Int /\ row.s \in Int /\ row.s <= top[j].s
          BY <1>1, <1>2, <4>2
        <5>2. top[j].t < row.t
          <6>1. row.t = i + 1 /\ top[j].t \in 1..i
            BY <1>1, <4>2
          <6> QED
            BY <6>1
        <5> QED
          BY <5>1, <5>2 DEF Beats
      <4> QED
        BY <4>1, <4>3
    <3>3. CASE k > at
      <4>1. new[k] = top[k - 1] /\ k - 1 \in 1..5 /\ k - 1 <= i /\ at <= k - 1
        BY <2>3, <2>8, <2>13, <3>3
      <4>2. CASE j < at
        <5>1. new[j] = top[j]
          BY <2>6, <4>2
        <5>2. j < k - 1
          BY <2>3, <4>1, <4>2
        <5> QED
          BY <1>5, <4>1, <5>1, <5>2
      <4>3. CASE j = at
        <5>1. top[k - 1].s <= top[at].s
          <6>1. CASE at = k - 1
            BY <1>2, <2>3, <6>1
          <6>2. CASE at < k - 1
            <7>1. Beats(top[at], top[k - 1])
              BY <1>5, <2>3, <4>1, <6>2
            <7>2. top[at].s \in Int /\ top[k - 1].s \in Int
              BY <1>2, <2>3, <4>1
            <7> QED
              BY <7>1, <7>2 DEF Beats
          <6> QED
            BY <2>3, <4>1, <6>1, <6>2
        <5>2. top[at].s \in Int /\ top[k - 1].s \in Int
          BY <1>2, <2>3, <4>1
        <5>3. row.s > top[k - 1].s
          BY <1>1, <2>3, <5>1, <5>2
        <5> QED
          BY <2>7, <4>1, <4>3, <5>3 DEF Beats
      <4>4. CASE j > at
        <5>1. new[j] = top[j - 1] /\ j - 1 \in 1..5 /\ j - 1 < k - 1
          BY <2>8, <2>13, <4>4
        <5> QED
          BY <1>5, <4>1, <5>1
      <4> QED
        BY <2>3, <4>2, <4>3, <4>4
    <3> QED
      BY <2>3, <3>1, <3>2, <3>3
  <2>14. RowsOrdered(new, i + 1)
    BY <2>13 DEF RowsOrdered
  <2>15. top[5].s <= new[5].s /\ top[5].s \in Int /\ new[5].s \in Int
    <3>1. top[5].s \in Int /\ top[4].s \in Int /\ new[5].s \in Int
      BY <1>2, <2>9 DEF RowsTyped
    <3>2. CASE at = 5
      BY <1>1, <2>3, <2>7, <3>1, <3>2
    <3>3. CASE at < 5
      <4>1. new[5] = top[4]
        BY <2>8, <3>3
      <4>2. CASE i < 5
        <5>1. top[5].s = Low /\ top[4].s >= Low
          BY <1>4, <1>7, <4>2
        <5> QED
          BY <3>1, <4>1, <5>1
      <4>3. CASE i >= 5
        <5>1. Beats(top[4], top[5])
          BY <1>5, <4>3
        <5> QED
          BY <3>1, <4>1, <5>1 DEF Beats
      <4> QED
        BY <4>2, <4>3
    <3> QED
      BY <2>3, <3>2, <3>3, <3>1
  <2>16. ASSUME NEW c \in 1..i+1
         PROVE  (\E k \in 1..5 : new[k].t = c) \/ scores[c] <= new[5].s
    <3>1. CASE c = i + 1
      <4>1. new[at].t = c
        BY <1>1, <2>7, <3>1
      <4> QED
        BY <2>3, <4>1
    <3>2. CASE c # i + 1
      <4>1. c \in 1..i
        BY <3>2
      <4>2. CASE scores[c] <= top[5].s
        <5>1. scores[c] \in Int
          BY <4>1
        <5> QED
          BY <2>15, <4>2, <5>1
      <4>3. ASSUME NEW k \in 1..5, top[k].t = c
            PROVE  (\E m \in 1..5 : new[m].t = c) \/ scores[c] <= new[5].s
        <5>1. CASE k < at
          BY <2>6, <4>3, <5>1
        <5>2. CASE k >= at /\ k < 5
          <6>1. k + 1 \in 1..5 /\ k + 1 > at /\ (k + 1) - 1 = k
            BY <2>3, <5>2
          <6>2. new[k + 1] = top[k]
            BY <2>8, <6>1
          <6> QED
            BY <4>3, <6>1, <6>2
        <5>3. CASE k = 5
          <6>1. k <= i
            <7>1. ~(k > i)
              BY <1>4, <4>1, <4>3
            <7> QED
              BY <7>1
          <6>2. scores[c] = top[5].s
            BY <1>3, <4>3, <5>3, <6>1
          <6> QED
            BY <2>15, <6>2
        <5> QED
          BY <2>3, <5>1, <5>2, <5>3
      <4> QED
        BY <1>6, <4>1, <4>2, <4>3
    <3> QED
      BY <3>1, <3>2
  <2>17. RowsKept(new, i + 1, scores)
    BY <2>16 DEF RowsKept
  <2>18. RowsSoFar(new, i + 1, scores)
    BY <2>9, <2>12, <2>14, <2>17 DEF RowsSoFar
  <2> QED
    BY <2>18 DEF new, row
<1> QED
  BY <1>8, <1>9

LEMMA InsertTyped ==
    ASSUME NEW top, RowsTyped(top), NEW row \in [s : Int, t : Int]
    PROVE  RowsTyped(Insert(top, row))
<1> DEFINE beaten == {k \in 1..5 : row.s > top[k].s}
           new == Insert(top, row)
<1>1. CASE beaten = {}
  BY <1>1 DEF Insert
<1>2. CASE beaten # {}
  <2> DEFINE at == Min(beaten)
  <2>1. at \in beaten
    <3>1. beaten \in SUBSET Nat
      OBVIOUS
    <3> HIDE DEF beaten
    <3> QED
      BY <1>2, <3>1, LeastNat
  <2>2. new = [k \in 1..5 |-> IF k < at THEN top[k] ELSE IF k = at THEN row ELSE top[k - 1]]
    BY <1>2 DEF Insert
  <2>3. at \in 1..5
    BY <2>1
  <2> HIDE DEF at, new, beaten
  <2>4. ASSUME NEW k \in 1..5
        PROVE  (IF k < at THEN top[k] ELSE IF k = at THEN row ELSE top[k - 1]) \in [s : Int, t : Int]
    <3>1. \A j \in 1..5 : top[j] \in [s : Int, t : Int]
      BY DEF RowsTyped
    <3>2. k < at \/ k = at \/ (~(k < at) /\ k # at /\ k - 1 \in 1..5)
      BY <2>3
    <3> QED
      BY <3>1, <3>2
  <2>5. new \in [1..5 -> [s : Int, t : Int]]
    BY <2>2, <2>4
  <2> QED
    BY <2>5 DEF new, RowsTyped
<1> QED
  BY <1>1, <1>2

\* Stage 2 (lmhead_stage2) keeps the five best rows in order, for any number of rows and any
\* scores above the sentinel.
THEOREM RowsAlwaysBest ==
    ASSUME NEW n \in Nat, n >= 5, NEW scores \in [1..n -> Int], \A c \in 1..n : scores[c] > Low
    PROVE  RowsBest(scores)
<1> DEFINE none == [k \in 1..5 |-> [s |-> Low, t |-> None]]
           Row(i) == [s |-> scores[i], t |-> i]
           X == [1..5 -> [s : Int, t : Int]]
           Step == [i \in 1..n |-> [p \in X |-> Insert(p, Row(i))]]
           Is(f) == f = [i \in 0..n |-> IF i = 0 THEN none ELSE Insert(f[i - 1], Row(i))]
           Top == CHOOSE top : top = [i \in 0..Len(scores) |->
                     IF i = 0 THEN [k \in 1..5 |-> [s |-> Low, t |-> None]]
                     ELSE Insert(top[i - 1], [s |-> scores[i], t |-> i])]
<1>1. Len(scores) = n
  OBVIOUS
<1>2. lmhead_stage2(scores) = Top[n]
  BY <1>1 DEF lmhead_stage2
<1>3. none \in X
  BY DEF Low, None
<1>4. \A i \in 1..n : Row(i) \in [s : Int, t : Int]
  OBVIOUS
<1>5. Step \in [1..n -> [X -> X]]
  <2>1. ASSUME NEW i \in 1..n, NEW p \in X PROVE Insert(p, Row(i)) \in X
    <3>1. RowsTyped(p)
      BY DEF RowsTyped
    <3>2. RowsTyped(Insert(p, Row(i)))
      BY <1>4, <3>1, InsertTyped
    <3> QED
      BY <3>2 DEF RowsTyped
  <2> HIDE DEF X
  <2> QED
    BY <2>1
<1> HIDE DEF none
<1>6. \E f : Is(f)
  <2>1. PICK f \in [0..n -> X] : f[0] = none /\ \A i \in 1..n : f[i] = Step[i][f[i - 1]]
    <3>1. none \in X /\ LoopBody(n, X, Step)
      BY <1>3, <1>5 DEF LoopBody
    <3> HIDE DEF Step, X
    <3>2. HasLoop(n, X, none, Step)
      BY <3>1, LoopExists
    <3> QED
      BY <3>2 DEF HasLoop
  <2>2. ASSUME NEW i \in 1..n
        PROVE  f[i] = Insert(f[i - 1], Row(i))
    <3>1. f[i - 1] \in X
      <4> HIDE DEF X
      <4> QED
        OBVIOUS
    <3>2. Step[i][f[i - 1]] = Insert(f[i - 1], Row(i))
      BY <3>1
    <3> QED
      BY <2>1, <3>2
  <2> DEFINE u == [i \in 0..n |-> IF i = 0 THEN none ELSE Insert(f[i - 1], Row(i))]
  <2>3. \A i \in 0..n : u[i] = f[i]
    BY <2>1, <2>2
  <2>4. DOMAIN u = 0..n /\ DOMAIN f = 0..n /\ f = [i \in 0..n |-> f[i]] /\ u = [i \in 0..n |-> u[i]]
    OBVIOUS
  <2>5. f = u
    BY <2>3, <2>4
  <2> QED
    BY <2>5
<1>7. Is(Top)
  BY <1>1, <1>6 DEF none
<1>8. Top[0] = none /\ \A i \in 1..n : Top[i] = Insert(Top[i - 1], Row(i))
  <2> HIDE DEF Top
  <2> QED
    BY <1>7
<1> HIDE DEF Top
<1> DEFINE G == {i \in Nat : i <= n => RowsSoFar(Top[i], i, scores)}
<1>9. 0 \in G
  BY <1>8, <1>3 DEF RowsSoFar, RowsTyped, RowsOwn, RowsOrdered, RowsKept, none, Low, None
<1>10. ASSUME NEW i \in Nat, i \in G PROVE i + 1 \in G
  <2> SUFFICES ASSUME i + 1 <= n PROVE RowsSoFar(Top[i + 1], i + 1, scores)
    OBVIOUS
  <2>1. RowsSoFar(Top[i], i, scores) /\ i < n
    BY <1>10
  <2>2. i + 1 \in 1..n /\ (i + 1) - 1 = i
    OBVIOUS
  <2>3. Top[i + 1] = Insert(Top[i], Row(i + 1))
    BY <1>8, <2>2
  <2> QED
    BY <2>1, <2>3, InsertKeeps
<1> HIDE DEF G
<1>11. \A i \in Nat : i \in G
  BY <1>9, <1>10, SetInduction
<1> DEFINE top == Top[n]
<1>12. RowsSoFar(top, n, scores)
  BY <1>11 DEF G
<1> HIDE DEF top
<1>13. \A j \in 1..4 : j \in 1..5 /\ j + 1 \in 1..5 /\ j < j + 1 /\ j + 1 <= n
  OBVIOUS
<1>14. \A j \in 1..4 : Beats(top[j], top[j + 1])
  BY <1>12, <1>13 DEF RowsSoFar, RowsOrdered
<1>15. \A j \in 1..5 : j <= n
  OBVIOUS
<1>16. \A j \in 1..5 : top[j].t \in 1..n /\ top[j].s = scores[top[j].t]
  BY <1>12, <1>15 DEF RowsSoFar, RowsOwn
<1>17. \A t \in 1..n : (\E j \in 1..5 : top[j].t = t) \/ scores[t] <= top[5].s
  BY <1>12 DEF RowsSoFar, RowsKept
<1>18. DOMAIN scores = 1..n
  OBVIOUS
<1>19. lmhead_stage2(scores) = top
  BY <1>2 DEF top
<1> QED
  BY <1>14, <1>16, <1>17, <1>18, <1>19 DEF RowsBest, Beats

\* What stage 1 has selected after k rounds.
PicksTyped(p, n) == p.sc \in [1..n -> Int] /\ p.sel \in Seq(1..n)
Selected(p, d) == \E j \in 1..Len(p.sel) : p.sel[j] = d
PicksSoFar(p, k, n, scores) ==
    /\ PicksTyped(p, n)
    /\ Len(p.sel) = k
    /\ \A i, j \in 1..k : p.sel[i] = p.sel[j] => i = j
    /\ \A d \in 1..n : p.sc[d] = IF Selected(p, d) THEN Low ELSE scores[d]
    /\ \A i \in 1..k, d \in 1..n : ~Selected(p, d) => scores[p.sel[i]] >= scores[d]

LEMMA Appended ==
    ASSUME NEW S, NEW s \in Seq(S), NEW e \in S
    PROVE  /\ Append(s, e) \in Seq(S) /\ Len(Append(s, e)) = Len(s) + 1
           /\ Append(s, e)[Len(s) + 1] = e
           /\ \A j \in 1..Len(s) : Append(s, e)[j] = s[j] /\ s[j] \in S
OBVIOUS

\* Fewer than n choices leave one of n out.
LEMMA SomeLeft ==
    ASSUME NEW n \in Nat, NEW p, PicksTyped(p, n), Len(p.sel) < n
    PROVE  \E d \in 1..n : ~Selected(p, d)
<1> DEFINE k == Len(p.sel)
           sel == p.sel
           S == 1..n
<1>1. sel \in Seq(S) /\ k = Len(sel)
  BY DEF PicksTyped
<1> SUFFICES ASSUME \A d \in S : Selected(p, d) PROVE FALSE
  OBVIOUS
<1>2. \A d \in S : \E j \in 1..k : sel[j] = d
  BY DEF Selected
<1>3. Cardinality(S) = n
  BY FS_Interval
<1>4. k \in Nat /\ k < n
  BY <1>1
<1> HIDE DEF S, k, sel
<1>5. sel \in [1..k -> S]
  BY <1>1
<1>6. sel \in Surjection(1..k, S)
  BY <1>2, <1>5 DEF Surjection
<1>7. Cardinality(S) <= k
  BY <1>4, <1>6, FS_SurjCardinalityBound DEF ExistsSurjection
<1> QED
  BY <1>3, <1>4, <1>7

LEMMA BestIs ==
    ASSUME NEW n \in Nat, n # 0, NEW sc \in [1..n -> Int]
    PROVE  Best(sc) \in 1..n /\ \A d \in 1..n : sc[Best(sc)] >= sc[d]
<1>1. DOMAIN sc = 1..n
  OBVIOUS
<1>2. \E c \in 1..n : \A d \in 1..n : sc[c] > sc[d] \/ (sc[c] = sc[d] /\ c <= d)
  BY FirstBest
<1> DEFINE c == Best(sc)
<1>3. c \in 1..n /\ \A d \in 1..n : sc[c] > sc[d] \/ (sc[c] = sc[d] /\ c <= d)
  BY <1>1, <1>2 DEF Best
<1> HIDE DEF c
<1>4. \A d \in 1..n : sc[d] \in Int
  OBVIOUS
<1>5. \A d \in 1..n : sc[c] >= sc[d]
  BY <1>3, <1>4
<1> QED
  BY <1>3, <1>5 DEF c

LEMMA TakeTyped ==
    ASSUME NEW n \in Nat, n # 0, NEW p, PicksTyped(p, n)
    PROVE  PicksTyped(Take(p), n)
<1> DEFINE b == Best(p.sc)
<1>1. b \in 1..n
  BY BestIs DEF PicksTyped
<1>2. Take(p) = [sc |-> [p.sc EXCEPT ![b] = Low], sel |-> Append(p.sel, b)]
  BY DEF Take
<1> HIDE DEF b
<1>3. [p.sc EXCEPT ![b] = Low] \in [1..n -> Int]
  BY <1>1 DEF PicksTyped, Low, None
<1>4. Append(p.sel, b) \in Seq(1..n)
  BY <1>1 DEF PicksTyped
<1> QED
  BY <1>2, <1>3, <1>4 DEF PicksTyped

LEMMA TakeKeeps ==
    ASSUME NEW n \in Nat, NEW scores \in [1..n -> Int], \A c \in 1..n : scores[c] > Low,
           NEW k \in Nat, k < n, NEW p, PicksSoFar(p, k, n, scores)
    PROVE  PicksSoFar(Take(p), k + 1, n, scores)
<1> DEFINE b == Best(p.sc)
           q == Take(p)
<1>1. /\ p.sc \in [1..n -> Int] /\ p.sel \in Seq(1..n) /\ Len(p.sel) = k
      /\ \A i, j \in 1..k : p.sel[i] = p.sel[j] => i = j
      /\ \A d \in 1..n : p.sc[d] = IF Selected(p, d) THEN Low ELSE scores[d]
      /\ \A i \in 1..k, d \in 1..n : ~Selected(p, d) => scores[p.sel[i]] >= scores[d]
  BY DEF PicksSoFar, PicksTyped
<1>2. b \in 1..n /\ \A d \in 1..n : p.sc[b] >= p.sc[d]
  <2>1. n # 0 /\ p.sc \in [1..n -> Int]
    BY <1>1
  <2> QED
    BY <2>1, BestIs
<1>3. q.sc = [p.sc EXCEPT ![b] = Low] /\ q.sel = Append(p.sel, b)
  BY DEF Take
<1>4. PicksTyped(q, n)
  BY TakeTyped DEF PicksSoFar
<1> HIDE DEF b, q
<1>5. /\ Len(q.sel) = k + 1 /\ q.sel[k + 1] = b
      /\ \A j \in 1..k : q.sel[j] = p.sel[j] /\ p.sel[j] \in 1..n
  <2> DEFINE S == 1..n
  <2>1. p.sel \in Seq(S) /\ b \in S /\ Len(p.sel) = k
    BY <1>1, <1>2
  <2> HIDE DEF S
  <2>2. /\ Len(q.sel) = k + 1 /\ q.sel[k + 1] = b
        /\ \A j \in 1..k : q.sel[j] = p.sel[j] /\ p.sel[j] \in S
    BY <1>3, <2>1, Appended
  <2> QED
    BY <2>2 DEF S
<1>6. \A j \in 1..k+1 : j \in 1..k \/ j = k + 1
  OBVIOUS
<1>7. \A d \in 1..n : Selected(q, d) <=> Selected(p, d) \/ d = b
  <2>1. \A j \in 1..k : j \in 1..k+1
    OBVIOUS
  <2>2. k + 1 \in 1..k+1
    OBVIOUS
  <2> QED
    BY <1>1, <1>5, <1>6, <2>1, <2>2 DEF Selected
<1>8. ~Selected(p, b)
  <2>1. PICK d \in 1..n : ~Selected(p, d)
    BY <1>1, SomeLeft DEF PicksTyped
  <2>3. p.sc[d] = scores[d] /\ scores[d] > Low /\ scores[d] \in Int
    BY <1>1, <2>1
  <2>4. p.sc[b] \in Int /\ p.sc[b] > Low
    <3>1. p.sc[b] \in Int /\ p.sc[b] >= p.sc[d]
      BY <1>1, <1>2
    <3> QED
      BY <2>3, <3>1 DEF Low, None
  <2>5. p.sc[b] # Low
    BY <2>4 DEF Low, None
  <2> QED
    BY <1>1, <1>2, <2>5
<1>9. ASSUME NEW i \in 1..k+1, NEW j \in 1..k+1, q.sel[i] = q.sel[j]
      PROVE  i = j
  <2>1. \A m \in 1..k : p.sel[m] # b
    BY <1>1, <1>8 DEF Selected
  <2> QED
    BY <1>1, <1>5, <1>6, <1>9, <2>1
<1>10. ASSUME NEW d \in 1..n
       PROVE  q.sc[d] = IF Selected(q, d) THEN Low ELSE scores[d]
  <2>1. CASE d = b
    BY <1>1, <1>2, <1>3, <1>7, <2>1
  <2>2. CASE d # b
    <3>1. q.sc[d] = p.sc[d]
      BY <1>1, <1>3, <2>2
    <3> QED
      BY <1>1, <1>7, <2>2, <3>1
  <2> QED
    BY <2>1, <2>2
<1>11. ASSUME NEW i \in 1..k+1, NEW d \in 1..n, ~Selected(q, d)
       PROVE  scores[q.sel[i]] >= scores[d]
  <2>1. ~Selected(p, d)
    BY <1>7, <1>11
  <2>2. CASE i \in 1..k
    BY <1>1, <1>5, <2>1, <2>2
  <2>3. CASE i = k + 1
    <3>1. p.sc[b] = scores[b] /\ p.sc[d] = scores[d]
      BY <1>1, <1>2, <1>8, <2>1
    <3>2. p.sc[b] >= p.sc[d]
      BY <1>2
    <3> QED
      BY <1>5, <2>3, <3>1, <3>2
  <2> QED
    BY <1>6, <2>2, <2>3
<1>12. PicksSoFar(q, k + 1, n, scores)
  BY <1>4, <1>5, <1>9, <1>10, <1>11 DEF PicksSoFar
<1> QED
  BY <1>12 DEF q

\* Stage 1 (lmhead_stage1) selects kc of the best clusters, each once, for any number of
\* clusters and any scores above the sentinel.
THEOREM ClustersAlwaysBest ==
    ASSUME NEW n \in Nat, n # 0, NEW scores \in [1..n -> Int], \A c \in 1..n : scores[c] > Low,
           NEW kc \in Nat, kc <= n
    PROVE  ClustersBest(scores, kc)
<1> DEFINE none == [sc |-> scores, sel |-> <<>>]
           X == [sc : [1..n -> Int], sel : Seq(1..n)]
           Step == [i \in 1..kc |-> [p \in X |-> Take(p)]]
           Is(f) == f = [k \in 0..kc |-> IF k = 0 THEN none ELSE Take(f[k - 1])]
           Pick == CHOOSE pick : pick = [k \in 0..kc |->
                      IF k = 0 THEN [sc |-> scores, sel |-> <<>>] ELSE Take(pick[k - 1])]
<1>1. lmhead_stage1(scores, kc) = Pick[kc].sel
  BY DEF lmhead_stage1
<1>2. none \in X
  OBVIOUS
<1>3. LoopBody(kc, X, Step)
  <2>1. ASSUME NEW p \in X PROVE Take(p) \in X
    <3>1. PicksTyped(p, n)
      BY DEF PicksTyped
    <3>2. PicksTyped(Take(p), n)
      BY <3>1, TakeTyped
    <3>3. Take(p) = [sc |-> Take(p).sc, sel |-> Take(p).sel]
      BY DEF Take
    <3> QED
      BY <3>2, <3>3 DEF PicksTyped
  <2> HIDE DEF X
  <2> QED
    BY <2>1 DEF LoopBody
<1> HIDE DEF none
<1>4. \E f : Is(f)
  <2>1. PICK f \in [0..kc -> X] : f[0] = none /\ \A i \in 1..kc : f[i] = Step[i][f[i - 1]]
    <3> HIDE DEF Step, X
    <3>1. HasLoop(kc, X, none, Step)
      BY <1>2, <1>3, LoopExists
    <3> QED
      BY <3>1 DEF HasLoop
  <2>2. ASSUME NEW i \in 1..kc
        PROVE  f[i] = Take(f[i - 1])
    <3> HIDE DEF X
    <3>1. f[i - 1] \in X
      OBVIOUS
    <3>2. Step[i][f[i - 1]] = Take(f[i - 1])
      BY <3>1
    <3> QED
      BY <2>1, <3>2
  <2> DEFINE u == [k \in 0..kc |-> IF k = 0 THEN none ELSE Take(f[k - 1])]
  <2>3. \A i \in 0..kc : u[i] = f[i]
    BY <2>1, <2>2
  <2>4. DOMAIN u = 0..kc /\ DOMAIN f = 0..kc /\ f = [i \in 0..kc |-> f[i]] /\ u = [i \in 0..kc |-> u[i]]
    OBVIOUS
  <2>5. f = u
    BY <2>3, <2>4
  <2> QED
    BY <2>5
<1>5. Is(Pick)
  BY <1>4 DEF none
<1>6. Pick[0] = none /\ \A k \in 1..kc : Pick[k] = Take(Pick[k - 1])
  <2> HIDE DEF Pick
  <2> QED
    BY <1>5
<1> HIDE DEF Pick
<1> DEFINE G == {k \in Nat : k <= kc => PicksSoFar(Pick[k], k, n, scores)}
<1>7. 0 \in G
  <2>1. Pick[0].sc = scores /\ Pick[0].sel = <<>>
    BY <1>6 DEF none
  <2> HIDE DEF none
  <2>2. Len(<<>>) = 0 /\ <<>> \in Seq(1..n)
    OBVIOUS
  <2>3. \A d : ~Selected(Pick[0], d)
    BY <2>1, <2>2 DEF Selected
  <2> DEFINE p == Pick[0]
  <2>4. PicksTyped(p, n) /\ Len(p.sel) = 0
    BY <2>1, <2>2 DEF PicksTyped
  <2>5. \A d \in 1..n : p.sc[d] = IF Selected(p, d) THEN Low ELSE scores[d]
    BY <2>1, <2>3
  <2>6. \A i \in 1..0 : FALSE
    OBVIOUS
  <2> HIDE DEF p
  <2>7. PicksSoFar(p, 0, n, scores)
    BY <2>4, <2>5, <2>6 DEF PicksSoFar
  <2> QED
    BY <2>7 DEF p
<1>8. ASSUME NEW k \in Nat, k \in G PROVE k + 1 \in G
  <2> SUFFICES ASSUME k + 1 <= kc PROVE PicksSoFar(Pick[k + 1], k + 1, n, scores)
    OBVIOUS
  <2>1. PicksSoFar(Pick[k], k, n, scores) /\ k < n
    BY <1>8
  <2>2. k + 1 \in 1..kc /\ (k + 1) - 1 = k
    OBVIOUS
  <2>3. Pick[k + 1] = Take(Pick[k])
    BY <1>6, <2>2
  <2> QED
    BY <2>1, <2>3, TakeKeeps
<1> HIDE DEF G
<1>9. kc \in G
  BY <1>7, <1>8, SetInduction
<1> DEFINE p == Pick[kc]
           sel == p.sel
<1>10. PicksSoFar(p, kc, n, scores)
  BY <1>9 DEF G
<1>11. lmhead_stage1(scores, kc) = sel
  BY <1>1
<1> HIDE DEF p
<1>12. /\ sel \in Seq(1..n) /\ Len(sel) = kc
       /\ \A i, j \in 1..kc : sel[i] = sel[j] => i = j
       /\ \A i \in 1..kc, d \in 1..n : ~Selected(p, d) => scores[sel[i]] >= scores[d]
  BY <1>10 DEF PicksSoFar, PicksTyped
<1>13. \A i \in 1..kc : sel[i] \in 1..n
  BY <1>12
<1>14. DOMAIN scores = 1..n
  OBVIOUS
<1>15. \A d \in 1..n : Selected(p, d) => d \in ToSet(sel)
  <2>1. DOMAIN sel = 1..kc
    BY <1>12
  <2> QED
    BY <1>12, <2>1 DEF Selected, ToSet
<1> HIDE DEF sel
<1> QED
  BY <1>11, <1>12, <1>13, <1>14, <1>15 DEF ClustersBest

\* Both stages of the LM head pick the best, whatever the scores (an instance of
\* ClustersAlwaysBest and RowsAlwaysBest).
THEOREM HeadAlwaysPicks == Spec => []HeadPicks
<1>1. ASSUME NEW scores \in [1..5 -> 0..2] PROVE ClustersBest(scores, 3)
  <2>1. \A c \in 1..5 : scores[c] > Low
    BY DEF Low, None
  <2>2. scores \in [1..5 -> Int]
    OBVIOUS
  <2>3. 5 \in Nat /\ 5 # 0 /\ 3 \in Nat /\ 3 <= 5
    OBVIOUS
  <2> QED
    BY <2>1, <2>2, <2>3, ClustersAlwaysBest
<1>2. ASSUME NEW scores \in [1..7 -> 0..2] PROVE RowsBest(scores)
  <2>1. \A c \in 1..7 : scores[c] > Low
    BY DEF Low, None
  <2>2. scores \in [1..7 -> Int]
    OBVIOUS
  <2>3. 7 \in Nat /\ 7 >= 5
    OBVIOUS
  <2> QED
    BY <2>1, <2>2, <2>3, RowsAlwaysBest
<1>3. HeadPicks
  BY <1>1, <1>2 DEF HeadPicks
<1> QED
  BY <1>3, PTL
=============================================================================
