------------------------------ MODULE TpuTerms ------------------------------
(* Programs for the TPU as data.  A program is a sequence of instructions on   *)
(* byte areas of the neuron memory and of the heap; running it keeps for each  *)
(* area the term that was computed into it, <<"mul", a, b>> for a product and  *)
(* so on, so that two programs compute the same if they end with the same      *)
(* terms.  A value and its quantization have the same term.                    *)
EXTENDS Integers, Sequences, SequencesExt, FiniteSetsExt, TpuMemory

HeapStart == 33554432       \* the neuron memory lies below, whatever is malloc'ed above
\* The i-th block from malloc (of its own 1 MB, or several), filled with n bytes.
Heap(i, n) == Area(HeapStart + i * 1048576, n)

-----------------------------------------------------------------------------
(* Memory: a set of areas that do not overlap, each with its term, who sees    *)
(* the present contents (CPU writes stay in its cache until CVI_RT_MemFlush,   *)
(* the cache hides what a device writes until CVI_RT_MemInvld), and what went  *)
(* wrong on the way: "stale", "torn" or "junk".                                *)
Put(m, at, got, by) ==
    {c \in m : Apart(c, at)}
        \cup {[lo |-> at.lo, n |-> at.n, term |-> got.term, taint |-> got.taint, seen |-> {by}]}

Sized(cells) == FoldSet(LAMBDA c, s : c.n + s, 0, cells)
Inside(m, at) == {c \in m : at.lo <= c.lo /\ c.lo + c.n <= at.lo + at.n}
Around(m, at) == {c \in m : c.lo <= at.lo /\ at.lo + at.n <= c.lo + c.n}

\* The cells of a set by address.
ByAddress(cells) ==
    [i \in 1..Cardinality(cells) |->
        CHOOSE c \in cells : Cardinality({e \in cells : e.lo < c.lo}) = i - 1]

\* What "by" finds at an area: a value, several one after the other, a part of one,
\* memory nobody has written, or the remains of something.
Get(m, at, by) ==
    LET whole == Inside(m, at) \cap Around(m, at)
        parts == ByAddress(Inside(m, at))
        cells == IF Around(m, at) # {} THEN Around(m, at) ELSE Inside(m, at)
        found(t) ==
            [term |-> t,
             taint |-> UNION {c.taint : c \in cells}
                         \cup (IF \E c \in cells : by \notin c.seen THEN {"stale"} ELSE {})]
    IN  CASE whole # {} -> found((CHOOSE c \in whole : TRUE).term)
          [] Around(m, at) # {} ->
               LET c == CHOOSE e \in Around(m, at) : TRUE
               IN  found(<<"part", at.lo - c.lo, at.n, c.term>>)
          [] parts # <<>> /\ Sized(Inside(m, at)) = at.n ->
               found(<<"join", [i \in DOMAIN parts |-> parts[i].term]>>)
          [] \A c \in m : Apart(c, at) -> [term |-> <<"unset", at.lo>>, taint |-> {}]
          [] OTHER -> [term |-> <<"junk">>, taint |-> {"junk"}]

InNeuron(at) == at.lo < HeapStart
Flushed(m) ==
    {IF InNeuron(c) THEN [c EXCEPT !.seen = @ \cup {"dram"}] ELSE c : c \in m}
Invalidated(m) ==
    {IF InNeuron(c) THEN [c EXCEPT !.seen = @ \cup {"cpu"}] ELSE c : c \in m}

-----------------------------------------------------------------------------
(* Products (tpu_matmul, tpu_matmul_submit): [m, k] by [k, n] through the      *)
(* scratch area, in tiles of columns if the local memory is too small.         *)
LmemSize == 32768
LmemBytes(r, c) == ((r + 1) \div 2) * ((c + 31) \div 32) * 32
Fits(m, k, n) == LmemBytes(m, k) + LmemBytes(k, n) + LmemBytes(m, n) <= LmemSize
TileSizes(m, k) == {t \in {16 * i : i \in 1..8} : Fits(m, k, t)}
Columns(p) == IF Fits(p.m, p.k, p.n) THEN p.n ELSE Max(TileSizes(p.m, p.k))

\* Tiles are taken out of an operand in the neuron memory by the DMA, where the
\* program knows of it; others are copied one after the other to the same place.
Direct(p) == p.direct /\ InNeuron(p.right) /\ ~Fits(p.m, p.k, p.n)
LeftAt(p) == Area(p.scratch, p.m * p.k)
RightAt(p) == IF Direct(p) THEN p.right ELSE Area(p.scratch + p.m * p.k, p.k * Columns(p))
OutAt(p) ==
    IF p.stays THEN p.to ELSE Area(p.scratch + p.m * p.k + p.k * Columns(p), p.m * p.n)

Staged(m, p) ==
    LET l == Put(m, LeftAt(p), Get(m, p.left, "cpu"), "cpu")
    IN  Flushed(IF Direct(p) THEN l ELSE Put(l, RightAt(p), Get(l, p.right, "cpu"), "cpu"))

\* The commands run.  Where they run only at Submit, every tile is computed with
\* the tile copied last.
Executed(m, p, deferred) ==
    LET l == Get(m, LeftAt(p), "dram")
        r == Get(m, RightAt(p), "dram")
        torn == deferred /\ Columns(p) < p.n /\ ~Direct(p)
    IN  Put(m, OutAt(p),
            [term |-> <<"mul", l.term, r.term>>,
             taint |-> l.taint \cup r.taint \cup (IF torn THEN {"torn"} ELSE {})], "dram")

Fetched(m, p) ==
    LET seen == Invalidated(m) IN Put(seen, p.to, Get(seen, OutAt(p), "cpu"), "cpu")

-----------------------------------------------------------------------------
(* Instructions.  "cpu" computes f of the values at "from".                    *)
Compute(f, from, to) == [op |-> "cpu", f |-> f, from |-> from, to |-> to]
Copy(from, to) == Compute(<<>>, <<from>>, to)
Fresh(term, to) == Compute(term, <<>>, to)
Product(left, right, m, k, n, to, scratch, direct) ==
    [op |-> "mul", left |-> left, right |-> right, m |-> m, k |-> k, n |-> n, to |-> to,
     scratch |-> scratch, direct |-> direct, stays |-> FALSE]
Async(p) == [p EXCEPT !.op = "async"]
\* Commands for a later Submit, whose result stays in the neuron memory.
Built(p) == [p EXCEPT !.op = "async", !.stays = TRUE]
Plain(name) == [op |-> name]
Flush == Plain("flush")
Invalidate == Plain("invalidate")
WaitAsync == Plain("wait")
TpuInit == Plain("init")

\* A quantization by table is right if the table was made for the values.
LookedUp(x, table) == IF table = <<"table", x>> THEN x ELSE <<"misscaled", x>>

\* Not in the code: a value that is as it should be goes on under a name of its own.
Expected(x, is, name) == IF x = is THEN name ELSE <<"wrong", name>>
\* The rows that passes 0 to t have left under the names <<name, l, pass>>.
History(name, t, l) ==
    IF t = 0 THEN <<name, l, 0>> ELSE <<"join", [i \in 1..(t + 1) |-> <<name, l, i - 1>>]>>
Check(at, is, name) == Compute(<<"expect", is, name>>, <<at>>, at)

\* One argument and no operation: a copy.
Computed(m, f, from) ==
    LET got == [i \in DOMAIN from |-> Get(m, from[i], "cpu")]
    IN  [term |-> CASE f = <<>> -> got[1].term
                    [] f = <<"lookup">> -> LookedUp(got[1].term, got[2].term)
                    [] f # <<>> /\ f[1] = "expect" -> Expected(got[1].term, f[2], f[3])
                    [] OTHER -> f \o [i \in DOMAIN from |-> got[i].term],
         taint |-> UNION {got[i].taint : i \in DOMAIN from}]

\* What an instruction without a choice does to the memory.
Done(m, i) ==
    CASE i.op = "cpu" -> Put(m, i.to, Computed(m, i.f, i.from), "cpu")
      [] i.op = "flush" -> Flushed(m)
      [] i.op = "invalidate" -> Invalidated(m)
      [] i.op = "init" -> {c \in m : ~InNeuron(c)}
=============================================================================
