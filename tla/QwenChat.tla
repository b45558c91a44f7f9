------------------------------ MODULE QwenChat ------------------------------
(* The conversations of the Qwen engine: main's regression prompts, the timed  *)
(* decode and the chat; a prompt taken in chunks of at most seven tokens, then *)
(* one token at a time; the INT8 cache of keys and values; the ways to read a  *)
(* layer's weights, one of them with a thread that reads ahead; the choice of  *)
(* the next token.  A hidden state is which token of which conversation it     *)
(* belongs to and how many layers it has been through.                         *)
EXTENDS Integers, Sequences, FiniteSets, SequencesExt

CONSTANTS
    Layers,     \* L (the code has 24)
    KvCap,      \* KV_CAP, rows of the cache per layer (192)
    MaxSeq,     \* MAX_SEQ, the longest input and the length of some buffers (256)
    Headers,    \* token counts an input file may announce
    Steps,      \* what DECODE_STEPS may say
    Deltas      \* what B_PREFETCH_DELTA may say
ASSUME QwenChatAssumption ==
    /\ Layers \in Nat \ {0} /\ KvCap \in Nat \ (0..7) /\ MaxSeq \in Nat /\ KvCap < MaxSeq
    /\ Headers \subseteq Int /\ Steps \subseteq Int /\ Deltas \subseteq Nat

VARIABLES
    env,        \* the environment variables: LW_READ, CHAT or DECODE, their numbers
    pc, todo,   \* where main is, the passes it has still to make
    conv,       \* the conversation in hand
    known,      \* tokens of it that are known: its prompt and what was generated
    tok,        \* the next one to decode, by its place in the conversation
    gen,        \* tokens generated
    pass, l,    \* the pass in hand and its layer
    x,          \* the hidden state of each row
    weights,    \* the layer the weights come from
    kv, kv_len, \* the cache, one long array as in the code, and g_kv_len
    seen,       \* what the attention of this layer looked at, row by row
    pools,      \* numbers of rows there are command buffers for
    cached,     \* layers read ahead into the page cache by main
    th, target, shutdown    \* the reading thread, g_pf_target, g_pf_shutdown
main == <<env, pc, todo, conv, known, tok, gen, pass, l, x, weights, kv, kv_len, seen, pools, cached>>
vars == <<main, th, target, shutdown>>

MS == 7
None == -1
Seqs == <<3, 5, 7>>                             \* PSEQ
Min2(a, b) == IF a < b THEN a ELSE b
PoolOf(n) == IF n <= 3 THEN 3 ELSE IF n <= 5 THEN 5 ELSE 7
NoRow == [conv |-> None, i |-> None, l |-> None, rope |-> None]
NoPass == [kind |-> "none", gpos |-> 0, n |-> 0, pool |-> 1, head |-> FALSE]

-----------------------------------------------------------------------------
(* Passes *)
Prompt(gpos, n, head) == [kind |-> "prompt", gpos |-> gpos, n |-> n, pool |-> PoolOf(n), head |-> head]
Decode == [kind |-> "decode", gpos |-> None, n |-> 1, pool |-> 1, head |-> TRUE]
\* A prompt longer than seven tokens goes in chunks; only the last one has a head.
Chunks(n) == [k \in 1..((n + MS - 1) \div MS) |->
                 LET off == MS * (k - 1) IN Prompt(off, Min2(MS, n - off), off + Min2(MS, n - off) = n)]
Decodes(n) == [k \in 1..n |-> Decode]
NDec(limit) == Min2(IF env.steps < 1 THEN 1 ELSE env.steps, limit)

Envs == [lw : {"mmap", "mmap_th", "pread", "ion_db"}, ask : {"none", "decode", "chat"}, steps : Steps,
         hdr : Headers, delta : Deltas \cup {None}, dontneed : BOOLEAN]
Sensible(e) ==
    /\ e.ask # "chat" => e.hdr = CHOOSE h \in Headers : TRUE
    /\ e.ask = "none" => e.steps = CHOOSE s \in Steps : TRUE
    /\ e.lw # "mmap" \/ e.ask = "none" => e.delta = None
    /\ e.delta = None => ~e.dontneed

Init ==
    /\ env \in {e \in Envs : Sensible(e)}
    /\ pc = "regression" /\ todo = <<>> /\ conv = 0 /\ known = 0 /\ tok = None /\ gen = 0
    /\ pass = NoPass /\ l = 0 /\ x = <<>> /\ weights = None /\ seen = <<>>
    /\ kv = [r \in 0 .. Layers * KvCap - 1 |-> NoRow] /\ kv_len = 0
    /\ pools = {1, 3, 5, 7} /\ cached = {}
    /\ th = (IF env.lw = "mmap_th" THEN "check" ELSE "ended") /\ target = None /\ shutdown = FALSE

Reader == <<th, target, shutdown>>
State == <<env, kv, kv_len, x, l, weights, seen, cached>>

Regression ==                                   \* not under CHAT
    /\ pc = "regression"
    /\ IF env.ask = "chat" \/ conv = 3
       THEN /\ pc' = (IF env.ask = "decode" THEN "decode" ELSE IF env.ask = "chat" THEN "chat" ELSE "shutdown")
            /\ UNCHANGED <<todo, conv, known>>
       ELSE /\ conv' = conv + 1 /\ known' = Seqs[conv + 1]
            /\ todo' = <<Prompt(0, Seqs[conv + 1], TRUE)>> /\ pc' = "pass"
    /\ UNCHANGED <<State, tok, gen, pass, pools, Reader>>

\* Both start an empty cache, and count their steps so that the cache suffices.
StartDecode ==
    /\ pc = "decode"
    /\ conv' = conv + 1 /\ known' = Seqs[1] /\ kv_len' = 0 /\ gen' = 0
    /\ todo' = <<Prompt(0, Seqs[1], TRUE)>> \o Decodes(NDec(KvCap - 7)) /\ pc' = "pass"
    /\ UNCHANGED <<env, kv, x, l, weights, seen, cached, tok, pass, pools, Reader>>
StartChatBug ==
    /\ pc = "chat"
    /\ IF env.hdr <= 0 \/ env.hdr > MaxSeq \/ env.hdr >= KvCap
       THEN pc' = "exit" /\ UNCHANGED <<todo, conv, known, kv_len, gen>>
       ELSE /\ conv' = conv + 1 /\ known' = env.hdr /\ kv_len' = 0 /\ gen' = 1
            /\ todo' = Chunks(env.hdr) \o Decodes(NDec(KvCap - env.hdr + 1)) /\ pc' = "pass"
    /\ UNCHANGED <<env, kv, x, l, weights, seen, cached, tok, pass, pools, Reader>>
StartChat ==
    /\ pc = "chat"
    /\ IF env.hdr <= 0 \/ env.hdr > MaxSeq \/ env.hdr >= KvCap
       THEN pc' = "exit" /\ UNCHANGED <<todo, conv, known, kv_len, gen>>
       ELSE /\ conv' = conv + 1 /\ known' = env.hdr /\ kv_len' = 0 /\ gen' = 1
            /\ todo' = Chunks(env.hdr) \o Decodes(NDec(KvCap - env.hdr)) /\ pc' = "pass"
    /\ UNCHANGED <<env, kv, x, l, weights, seen, cached, tok, pass, pools, Reader>>

\* The embeddings of the rows; a decode step works at g_kv_len, and takes tok.
Token(i) == [conv |-> conv, i |-> i, layers |-> 0]
StartPass ==
    /\ pc = "pass" /\ todo # <<>>
    /\ LET p == [Head(todo) EXCEPT !.gpos = IF Head(todo).kind = "decode" THEN kv_len ELSE @]
           first == IF p.kind = "decode" THEN tok ELSE p.gpos
       IN  /\ pass' = p
           /\ x' = [m \in 1..p.n |-> Token(first + m - 1)]
           /\ gen' = IF p.kind = "decode" THEN gen + 1 ELSE gen
           \* ion_db gives the buffers of the prefill back before the first decode step.
           /\ pools' = IF p.kind = "decode" /\ env.lw = "ion_db" THEN pools \ {5, 7} ELSE pools
           /\ cached' = IF p.kind = "decode" /\ env.delta # None THEN cached \cup ((0 .. env.delta - 1) \cap (0 .. Layers - 1))
                        ELSE cached
    /\ todo' = Tail(todo) /\ l' = 0 /\ pc' = "layer"
    /\ UNCHANGED <<env, conv, known, tok, weights, kv, kv_len, seen, Reader>>

EndPasses ==
    /\ pc = "pass" /\ todo = <<>>
    /\ pc' = IF env.ask # "chat" /\ conv <= 3 THEN "regression" ELSE "shutdown"
    /\ UNCHANGED <<State, todo, conv, known, tok, gen, pass, pools, Reader>>

-----------------------------------------------------------------------------
(* Layers *)
\* B_PREFETCH: decode steps read the nibbles some layers ahead and may drop those of the
\* layer before last.
Ahead == IF pass.kind = "decode" /\ env.delta # None
         THEN (cached \cup ({l + env.delta} \cap (0 .. Layers - 1))) \ (IF env.dontneed THEN {l - 2} ELSE {})
         ELSE cached
LayerBegin ==
    /\ pc = "layer" /\ l < Layers
    /\ cached' = Ahead
    /\ weights' = l
    /\ pc' = IF env.lw = "mmap_th" /\ l + 1 < Layers /\ target = None THEN "issue" ELSE "compute"
    /\ UNCHANGED <<env, todo, conv, known, tok, gen, pass, l, x, kv, kv_len, seen, pools, Reader>>
\* The embedding, a layer or a span of the head cannot be read: exit(2).
ReadFails ==
    /\ pc = "layer" \/ (pc = "pass" /\ todo # <<>>)
    /\ pc' = "exit"
    /\ UNCHANGED <<State, todo, conv, known, tok, gen, pass, pools, Reader>>
\* prefetch_issue looks at g_pf_target without the lock and takes the lock to set it.
Signal == th' = IF th = "asleep" THEN "check" ELSE th
Issue ==
    /\ pc = "issue"
    /\ target' = l + 1 /\ Signal
    /\ pc' = "compute"
    /\ UNCHANGED <<State, todo, conv, known, tok, gen, pass, pools, shutdown>>

Key(m) == [conv |-> x[m].conv, i |-> x[m].i, l |-> IF x[m].layers = weights THEN l ELSE None, rope |-> pass.gpos + m - 1]
\* per_row_quant into the rows gpos .. gpos + n - 1 of layer l, before the attention.
Capture == [r \in DOMAIN kv |->
               LET m == r - (l * KvCap + pass.gpos) + 1 IN IF m \in 1..pass.n THEN Key(m) ELSE kv[r]]
attention(m) == [s \in 1..m |-> Key(s)]
attention_cached(cache) == [s \in 1..(pass.gpos + 1) |-> cache[l * KvCap + s - 1]]
attention_extBug(m) == [s \in 1..(pass.gpos + m) |->
                           IF s <= pass.gpos + 1 THEN kv[l * KvCap + s - 1] ELSE Key(s - pass.gpos)]
attention_ext(m) == [s \in 1..(pass.gpos + m) |->
                        IF s <= pass.gpos THEN kv[l * KvCap + s - 1] ELSE Key(s - pass.gpos)]
Through == [m \in 1..pass.n |-> [x[m] EXCEPT !.layers = IF @ = weights THEN @ + 1 ELSE None]]

PromptLayer ==
    /\ pc = "compute" /\ pass.kind = "prompt"
    /\ kv' = Capture /\ kv_len' = pass.gpos + pass.n
    /\ seen' = [m \in 1..pass.n |-> IF pass.gpos = 0 THEN attention(m) ELSE attention_ext(m)]
    /\ x' = Through /\ weights' = None /\ l' = l + 1 /\ pc' = "layer"
    /\ UNCHANGED <<env, todo, conv, known, tok, gen, pass, pools, cached, Reader>>
DecodeLayer ==
    /\ pc = "compute" /\ pass.kind = "decode"
    /\ kv' = Capture
    /\ seen' = <<attention_cached(Capture)>>
    /\ x' = Through /\ weights' = None /\ l' = l + 1 /\ pc' = "layer"
    /\ UNCHANGED <<env, todo, conv, known, tok, gen, pass, kv_len, pools, cached, Reader>>

\* The head picks a token from the last row, if it has been through all layers.
LmHead2 ==
    /\ pc = "layer" /\ l = Layers
    /\ IF pass.head THEN /\ tok' = (IF x[pass.n].layers = Layers /\ x[pass.n].i = known - 1 THEN known ELSE None)
                         /\ known' = known + 1
       ELSE tok' = None /\ known' = known
    /\ kv_len' = IF pass.kind = "decode" THEN pass.gpos + 1 ELSE kv_len
    /\ seen' = <<>> /\ pc' = "pass"
    /\ UNCHANGED <<env, todo, conv, gen, pass, l, x, weights, kv, pools, cached, Reader>>

ShutdownBug ==
    /\ pc = "shutdown"
    /\ IF env.lw = "mmap_th" THEN shutdown' = TRUE /\ UNCHANGED th ELSE UNCHANGED <<shutdown, th>>
    /\ pc' = "join"
    /\ UNCHANGED <<State, todo, conv, known, tok, gen, pass, pools, target>>
Shutdown ==
    /\ pc = "shutdown"
    /\ IF env.lw = "mmap_th" THEN shutdown' = TRUE /\ Signal ELSE UNCHANGED <<shutdown, th>>
    /\ pc' = "join"
    /\ UNCHANGED <<State, todo, conv, known, tok, gen, pass, pools, target>>
Join ==
    /\ pc = "join" /\ th = "ended"
    /\ pc' = "end"
    /\ UNCHANGED <<State, todo, conv, known, tok, gen, pass, pools, Reader>>

-----------------------------------------------------------------------------
(* The thread of mmap_th *)
Check ==
    /\ th = "check" /\ pc # "exit"
    /\ IF shutdown THEN th' = "ended" /\ UNCHANGED target
       ELSE IF target >= 0 THEN th' = "reading" /\ target' = None
       ELSE th' = "asleep" /\ UNCHANGED target
    /\ UNCHANGED <<main, shutdown>>
Readahead ==
    /\ th = "reading" /\ pc # "exit"
    /\ th' = "check"
    /\ UNCHANGED <<main, target, shutdown>>

Stopped == pc \in {"end", "exit"} /\ UNCHANGED vars
Main == Regression \/ StartDecode \/ StartChat \/ StartPass \/ EndPasses \/ LayerBegin \/ Issue
          \/ PromptLayer \/ DecodeLayer \/ LmHead2 \/ Shutdown \/ Join
Thread == Check \/ Readahead
Next == Main \/ ReadFails \/ Thread \/ Stopped
\* Two threads the system schedules, on two cores.
Spec == Init /\ [][Next]_vars /\ WF_vars(Main) /\ WF_vars(Thread)

-----------------------------------------------------------------------------
(* The LM head's two stages, on scores in order of the clusters and of the rows *)
Low == None
\* One round of stage 1: the first of the best, whose score is lowered for the rounds to come.
Best(sc) == CHOOSE c \in DOMAIN sc : \A d \in DOMAIN sc : sc[c] > sc[d] \/ (sc[c] = sc[d] /\ c <= d)
Take(p) == [sc |-> [p.sc EXCEPT ![Best(p.sc)] = Low], sel |-> Append(p.sel, Best(p.sc))]
lmhead_stage1(scores, kc) ==
    LET pick[k \in 0..kc] == IF k = 0 THEN [sc |-> scores, sel |-> <<>>] ELSE Take(pick[k - 1])
    IN  pick[kc].sel
\* The running best of stage 2: a row goes in front of the first it beats, the others move
\* down and the last one out.
InsertBug(top, row) ==
    LET beaten == {k \in 1..5 : row.s >= top[k].s}
    IN  IF beaten = {} THEN top
        ELSE [k \in 1..5 |-> IF k < Min(beaten) THEN top[k] ELSE IF k = Min(beaten) THEN row ELSE top[k - 1]]
Insert(top, row) ==
    LET beaten == {k \in 1..5 : row.s > top[k].s}
    IN  IF beaten = {} THEN top
        ELSE [k \in 1..5 |-> IF k < Min(beaten) THEN top[k] ELSE IF k = Min(beaten) THEN row ELSE top[k - 1]]
lmhead_stage2(scores) ==
    LET top[i \in 0..Len(scores)] ==
            IF i = 0 THEN [k \in 1..5 |-> [s |-> Low, t |-> None]]
            ELSE Insert(top[i - 1], [s |-> scores[i], t |-> i])
    IN  top[Len(scores)]

-----------------------------------------------------------------------------
\* A token attends to its own conversation from its first token to itself, each with the
\* key of its own place and of this layer, whichever of the three attentions computes it
\* and wherever the chunks begin; and every pass goes through all layers in order.
AttendsOwnPrefix ==
    /\ \A m \in DOMAIN seen :
          seen[m] = [s \in 1..(x[m].i + 1) |-> [conv |-> conv, i |-> s - 1, l |-> l - 1, rope |-> s - 1]]
    /\ pc \in {"layer", "issue", "compute"} => \A m \in DOMAIN x : x[m].conv = conv /\ x[m].layers = l

\* No pass needs a row, a buffer or a command buffer that is not there: the cache and the
\* logits of the attention, gen[MAX_SEQ], the pools given back before decoding, and the
\* layer it is about to read if B_PREFETCH was to have read it ahead.
MemoryHeld ==
    /\ pc \in {"layer", "issue", "compute"} =>
          pass.n <= MS /\ pass.gpos + pass.n <= KvCap /\ pass.pool \in pools
    /\ gen <= MaxSeq
    /\ pc = "compute" /\ pass.kind = "decode" /\ env.delta # None => l \in cached

\* Whatever the scores, stage 1 selects a best set of clusters, each of them once, and
\* stage 2 the five best rows in order, the earlier one first among equals.
ClustersBest(scores, kc) ==
    LET sel == lmhead_stage1(scores, kc)
    IN  /\ Len(sel) = kc /\ \A i, j \in 1..kc : sel[i] = sel[j] => i = j
        /\ \A i \in 1..kc, d \in DOMAIN scores : sel[i] \in DOMAIN scores
              /\ (d \in ToSet(sel) \/ scores[sel[i]] >= scores[d])
RowsBest(scores) ==
    LET top == lmhead_stage2(scores)
    IN  /\ \A j \in 1..4 : top[j].s > top[j + 1].s \/ (top[j].s = top[j + 1].s /\ top[j].t < top[j + 1].t)
        /\ \A j \in 1..5 : top[j].t \in DOMAIN scores /\ top[j].s = scores[top[j].t]
        /\ \A t \in DOMAIN scores : (\E j \in 1..5 : top[j].t = t) \/ scores[t] <= top[5].s
HeadPicks ==
    pc = "regression" /\ conv = 0 /\ env.lw = "pread" /\ env.ask = "none" =>
        /\ \A scores \in [1..5 -> 0..2] : ClustersBest(scores, 3)
        /\ \A scores \in [1..7 -> 0..2] : RowsBest(scores)

\* The engine comes to its end, with its reading thread joined, however slow the thread is.
Ends == <>(pc \in {"end", "exit"})
=============================================================================
