--------------------------- MODULE TpuBatchProofs ---------------------------
(* What TLAPS proves of TpuBatch, for every size of the model, number of rows   *)
(* and length of context: the scratch areas of the products that are submitted  *)
(* together keep apart; and with the sizes of SmolLM2, ten rows always fit.     *)
EXTENDS TpuBatch, SequenceTheorems, WellFoundedInduction, TLAPS

-----------------------------------------------------------------------------
(* Numbers                                                                   *)

\* Min of a set of numbers is its least: CHOOSE finds it.
LEMMA LeastNat ==
    ASSUME NEW S \in SUBSET Nat, S # {}
    PROVE  \E j \in S : \A k \in S : j <= k
<1>1. PICK j \in S : \A k \in S : <<k, j>> \notin OpToRel(<, Nat)
  BY NatLessThanWellFounded, WFMin
<1>2. \A k \in S : j <= k
  <2> SUFFICES ASSUME NEW k \in S PROVE j <= k
    OBVIOUS
  <2>1. ~(k < j)
    BY <1>1 DEF OpToRel
  <2> QED
    BY <2>1
<1> QED
  BY <1>2

\* Induction over the natural numbers, for a set instead of a predicate.
LEMMA SetInduction ==
    ASSUME NEW G, 0 \in G, \A k \in Nat : k \in G => k + 1 \in G
    PROVE  \A k \in Nat : k \in G
<1> SUFFICES ASSUME NEW j \in Nat, j \notin G PROVE FALSE
  OBVIOUS
<1> DEFINE B == {k \in Nat : k \notin G}
<1>1. PICK b \in B : \A k \in B : b <= k
  <2>1. B \in SUBSET Nat /\ B # {}
    OBVIOUS
  <2> HIDE DEF B
  <2> QED
    BY <2>1, LeastNat
<1>2. b \in Nat /\ b # 0
  OBVIOUS
<1>3. b - 1 \in Nat /\ b - 1 \in G
  BY <1>1, <1>2
<1>4. (b - 1) + 1 \in G
  BY <1>3
<1> QED
  BY <1>1, <1>2, <1>4

\* Products grow with their factors.
LEMMA Scaled ==
    ASSUME NEW a \in Nat, NEW b \in Nat, NEW c \in Nat, a <= b
    PROVE  a * c \in Nat /\ b * c \in Nat /\ a * c <= b * c /\ c * a <= c * b
  OBVIOUS

-----------------------------------------------------------------------------
(* Memory: what a sequence of assignments keeps, and what it leaves           *)

IsRun(f, m, steps) ==
    /\ f[0] = m
    /\ \A i \in 1..Len(steps) : f[i] = Assigned(f[i - 1], steps[i])
    /\ After(m, steps) = f[Len(steps)]

\* After is the last of the memories that the assignments lead through.
LEMMA AfterRuns ==
    ASSUME NEW m, NEW steps, Len(steps) \in Nat
    PROVE  \E f : IsRun(f, m, steps)
<1> DEFINE n == Len(steps)
           Is(f, k) == f = [i \in 0..k |-> IF i = 0 THEN m ELSE Assigned(f[i - 1], steps[i])]
           G == {k \in Nat : k <= n => \E f : Is(f, k)}
           now == CHOOSE now : now = [i \in 0..Len(steps) |-> IF i = 0 THEN m ELSE Assigned(now[i - 1], steps[i])]
<1>1. 0 \in G
  <2> DEFINE f == [i \in 0..0 |-> m]
  <2>1. Is(f, 0)
    OBVIOUS
  <2> QED
    BY <2>1
<1>2. ASSUME NEW k \in Nat, k \in G PROVE k + 1 \in G
  <2> SUFFICES ASSUME k + 1 <= n PROVE \E f : Is(f, k + 1)
    OBVIOUS
  <2>1. PICK h : Is(h, k)
    BY <1>2
  <2> DEFINE f == [i \in 0..k+1 |-> IF i <= k THEN h[i] ELSE Assigned(h[k], steps[i])]
             u == [i \in 0..k+1 |-> IF i = 0 THEN m ELSE Assigned(f[i - 1], steps[i])]
  <2>2. ASSUME NEW i \in 0..k+1 PROVE f[i] = u[i]
    <3>1. CASE i <= k
      <4>1. i \in 0..k /\ h[i] = IF i = 0 THEN m ELSE Assigned(h[i - 1], steps[i])
        BY <2>1, <3>1
      <4>2. f[i] = h[i] /\ (i # 0 => f[i - 1] = h[i - 1])
        BY <3>1
      <4> QED
        BY <4>1, <4>2
    <3>2. CASE ~(i <= k)
      <4>1. i = k + 1 /\ i # 0 /\ i - 1 = k /\ f[i] = Assigned(h[k], steps[i]) /\ f[k] = h[k]
        BY <3>2
      <4>2. u[i] = Assigned(f[i - 1], steps[i])
        BY <4>1
      <4> HIDE DEF f, u
      <4> QED
        BY <4>1, <4>2
    <3> QED
      BY <3>1, <3>2
  <2>3. f = u
    <3>1. f = [i \in 0..k+1 |-> f[i]] /\ u = [i \in 0..k+1 |-> u[i]]
      OBVIOUS
    <3> HIDE DEF f, u
    <3> QED
      BY <2>2, <3>1
  <2>4. Is(f, k + 1)
    BY <2>3
  <2> QED
    BY <2>4
<1> HIDE DEF G
<1>3. n \in G
  BY <1>1, <1>2, SetInduction
<1>4. \E f : Is(f, n)
  BY <1>3 DEF G
<1>5. Is(now, n)
  BY <1>4
<1>6. now[0] = m /\ \A i \in 1..n : now[i] = Assigned(now[i - 1], steps[i])
  <2> HIDE DEF now
  <2> QED
    BY <1>5
<1>7. After(m, steps) = now[n]
  BY DEF After
<1> HIDE DEF now
<1> QED
  BY <1>6, <1>7 DEF IsRun

\* One assignment keeps a value its area does not touch, and puts its own.
LEMMA AssignedKeeps ==
    ASSUME NEW m, NEW s, NEW at, NEW name, Has(m, at, name), Apart(at, s.to)
    PROVE  Has(Assigned(m, s), at, name)
<1>1. PICK c \in m : c.lo = at.lo /\ c.n = at.n /\ c.name = name
  BY DEF Has, Found
<1>2. Apart(c, s.to)
  BY <1>1 DEF Apart
<1>3. c \in Assigned(m, s)
  BY <1>2 DEF Assigned, Written
<1> QED
  BY <1>1, <1>3 DEF Has, Found

\* What an assignment puts is there.
LEMMA AssignedPuts ==
    ASSUME NEW m, NEW s
    PROVE  Has(Assigned(m, s), s.to, s.name)
<1> DEFINE taint == UNION {Taint(m, v.at, v.name) : v \in s.from}
           c == [lo |-> s.to.lo, n |-> s.to.n, name |-> s.name, taint |-> taint]
<1>1. c \in Assigned(m, s)
  BY DEF Assigned, Written
<1>2. c.lo = s.to.lo /\ c.n = s.to.n /\ c.name = s.name
  OBVIOUS
<1> HIDE DEF c
<1> QED
  BY <1>1, <1>2 DEF Has, Found

\* A value stays that no assignment touches; and a value stays that one of them puts and
\* no later one touches.
LEMMA AfterKeeps ==
    ASSUME NEW m, NEW steps, Len(steps) \in Nat, NEW at, NEW name, NEW from \in Nat, from <= Len(steps),
           NEW f, IsRun(f, m, steps), Has(f[from], at, name),
           \A i \in 1..Len(steps) : i > from => Apart(at, steps[i].to)
    PROVE  Has(After(m, steps), at, name)
<1> DEFINE n == Len(steps)
           G == {k \in Nat : from + k <= n => Has(f[from + k], at, name)}
<1>1. 0 \in G
  OBVIOUS
<1>2. ASSUME NEW k \in Nat, k \in G PROVE k + 1 \in G
  <2> SUFFICES ASSUME from + (k + 1) <= n PROVE Has(f[from + (k + 1)], at, name)
    OBVIOUS
  <2> DEFINE i == from + (k + 1)
  <2>1. i \in 1..n /\ i - 1 = from + k /\ i > from
    OBVIOUS
  <2>2. Has(f[i - 1], at, name)
    BY <1>2, <2>1
  <2>3. f[i] = Assigned(f[i - 1], steps[i]) /\ Apart(at, steps[i].to)
    BY <2>1 DEF IsRun
  <2> HIDE DEF i
  <2>4. Has(f[i], at, name)
    BY <2>2, <2>3, AssignedKeeps
  <2> QED
    BY <2>4 DEF i
<1> HIDE DEF G
<1>3. n - from \in G
  BY <1>1, <1>2, SetInduction
<1>4. Has(f[from + (n - from)], at, name) /\ from + (n - from) = n
  BY <1>3 DEF G
<1> QED
  BY <1>4 DEF IsRun

-----------------------------------------------------------------------------
(* The local memory and the tiles                                            *)

\* The sizes of the layer are positive.
LEMMA Sizes ==
    /\ Kvh \in Nat \ {0} /\ HeadDim \in Nat \ {0} /\ Heads \in Nat \ {0} /\ Ffn \in Nat \ {0}
    /\ MaxRows \in Nat \ {0} /\ MaxKv \in Nat \ {0}
  BY SizeAssumption

\* A lane holds half of the rows, each rounded up: twice its bytes are enough for the matrix.
LEMMA LmemHalf ==
    ASSUME NEW r \in Nat, NEW c \in Nat
    PROVE  LmemBytes(r, c) \in Nat /\ r * c <= 2 * LmemBytes(r, c)
<1> DEFINE a == (r + 1) \div 2
           b == (c + 31) \div 32
           w == b * 32
<1>1. a \in Nat /\ r <= 2 * a
  OBVIOUS
<1>2. b \in Nat /\ w \in Nat /\ c <= w
  OBVIOUS
<1>3. LmemBytes(r, c) = a * b * 32
  BY DEF LmemBytes
<1> HIDE DEF a, b
<1>4. a * b * 32 = a * w /\ a * b * 32 \in Nat /\ 2 * a \in Nat
  BY <1>1, <1>2
<1> HIDE DEF w
<1>5. r * c <= (2 * a) * c
  BY <1>1, <1>4, Scaled
<1>6. (2 * a) * c <= (2 * a) * w
  BY <1>2, <1>4, Scaled
<1>7. (2 * a) * w = 2 * (a * w)
  BY <1>1, <1>2
<1>8. r * c \in Nat /\ (2 * a) * c \in Nat /\ (2 * a) * w \in Nat
  BY <1>1, <1>2, <1>4
<1> QED
  BY <1>3, <1>4, <1>5, <1>6, <1>7, <1>8

\* Max of a set of small numbers is one of them.
LEMMA MaxIn ==
    ASSUME NEW S \in SUBSET 0..256, S # {}
    PROVE  Max(S) \in S
<1> DEFINE R == {256 - t : t \in S}
<1>1. R \in SUBSET Nat /\ R # {}
  <2>1. ASSUME NEW t \in S PROVE 256 - t \in Nat
    <3>1. t \in Nat /\ t <= 256
      OBVIOUS
    <3> QED
      BY <3>1
  <2>2. R # {}
    OBVIOUS
  <2>3. \A j \in R : j \in Nat
    BY <2>1
  <2> HIDE DEF R
  <2> QED
    BY <2>2, <2>3
<1>2. PICK j \in R : \A k \in R : j <= k
  <2> HIDE DEF R
  <2> QED
    BY <1>1, LeastNat
<1>3. PICK b \in S : j = 256 - b
  OBVIOUS
<1>4. \A t \in S : b >= t
  <2> SUFFICES ASSUME NEW t \in S PROVE b >= t
    OBVIOUS
  <2>1. 256 - t \in R
    OBVIOUS
  <2>2. 256 - b <= 256 - t
    BY <1>2, <1>3, <2>1
  <2> QED
    BY <2>2
<1> HIDE DEF R
<1>5. \E x \in S : \A y \in S : x >= y
  BY <1>3, <1>4
<1> QED
  BY <1>5 DEF Max

Shaped(p) == p.m \in Nat \ {0} /\ p.k \in Nat \ {0} /\ p.n \in Nat \ {0} /\ p.scratch \in Nat

\* tpu_find_tile_n: if a product is possible, the columns it takes at once fit the local memory.
LEMMA ColumnsFit ==
    ASSUME NEW p, Shaped(p), Possible(p)
    PROVE  Columns(p) \in Nat \ {0} /\ FitsLmem(p.m, p.k, Columns(p))
<1>1. CASE FitsLmem(p.m, p.k, p.n)
  BY <1>1 DEF Columns, Shaped
<1>2. CASE ~FitsLmem(p.m, p.k, p.n)
  <2> DEFINE S == TileSizes(p.m, p.k)
  <2>1. S # {} /\ Columns(p) = Max(S)
    BY <1>2 DEF Possible, Columns
  <2>2. \A t \in S : t \in 0..256 /\ t # 0 /\ FitsLmem(p.m, p.k, t)
    BY DEF TileSizes
  <2> HIDE DEF S
  <2>3. Max(S) \in S
    BY <2>1, <2>2, MaxIn
  <2> QED
    BY <2>1, <2>2, <2>3
<1> QED
  BY <1>1, <1>2

\* The tiles: as many as it takes, each of some columns, no more than all.
LEMMA TileFacts ==
    ASSUME NEW p, Shaped(p), Possible(p)
    PROVE  /\ Tiles(p) \in Nat \ {0}
           /\ \A t \in 1..Tiles(p) : \E w \in Nat :
                 /\ w <= Columns(p) /\ w <= p.n
                 /\ TileOf(p, t).at = Area(p.scratch + p.m * p.k, p.k * w)
<1> DEFINE c == Columns(p)
           n == p.n
           T == (n + c - 1) \div c
<1>1. c \in Nat \ {0} /\ n \in Nat \ {0}
  BY ColumnsFit DEF Shaped
<1>2. Tiles(p) = T
  BY DEF Tiles
<1> HIDE DEF c, n
<1>3. T \in Nat /\ \E r \in 0..c-1 : n + c - 1 = T * c + r
  <2> DEFINE r == (n + c - 1) % c
  <2>1. r \in 0..c-1 /\ n + c - 1 = c * T + r /\ T \in Int
    BY <1>1
  <2> HIDE DEF r, T
  <2>2. T >= 0
    <3> SUFFICES ASSUME T <= -1 PROVE FALSE
      BY <2>1
    <3>1. c * T <= -c
      BY <1>1, <2>1
    <3> QED
      BY <1>1, <2>1, <3>1
  <2>3. c * T = T * c
    BY <1>1, <2>1
  <2> QED
    BY <2>1, <2>2, <2>3
<1> HIDE DEF T
<1>4. PICK r \in 0..c-1 : n + c - 1 = T * c + r
  BY <1>3
<1>5. T # 0
  <2> SUFFICES ASSUME T = 0 PROVE FALSE
    OBVIOUS
  <2>1. T * c = 0
    BY <1>1
  <2> QED
    BY <1>1, <1>4, <2>1
<1>6. ASSUME NEW t \in 1..T
      PROVE  \E w \in Nat : w <= c /\ w <= n /\ TileOf(p, t).at = Area(p.scratch + p.m * p.k, p.k * w)
  <2> DEFINE before == (t - 1) * c
             w == IF before + c <= n THEN c ELSE n - before
  <2>1. t - 1 \in Nat /\ T - 1 \in Nat /\ t - 1 <= T - 1
    BY <1>3
  <2>2. before \in Nat /\ before <= (T - 1) * c /\ (T - 1) * c \in Nat
    BY <1>1, <2>1, Scaled
  <2>3. (T - 1) * c = T * c - c /\ T * c \in Nat
    BY <1>1, <1>3
  <2>4. before < n
    BY <1>1, <1>4, <2>2, <2>3
  <2>5. TileOf(p, t).at = Area(p.scratch + p.m * p.k, p.k * w)
    BY DEF TileOf, Value, c, n
  <2> HIDE DEF before
  <2>6. w \in Nat /\ w <= c /\ w <= n
    BY <1>1, <2>2, <2>4
  <2> HIDE DEF w
  <2> QED
    BY <2>5, <2>6
<1> QED
  BY <1>2, <1>3, <1>5, <1>6 DEF c, n

\* What a product takes of the scratch area: not more than twice the local memory, nor than
\* both operands whole.
LastEnd(p) == TileOf(p, Tiles(p)).at.lo + TileOf(p, Tiles(p)).at.n

\* Where the operands of a product lie: one after the other, in the scratch area, below its 64 KB.
LEMMA Extent ==
    ASSUME NEW p, Shaped(p), Possible(p)
    PROVE  /\ Left(p).at = Area(p.scratch, p.m * p.k) /\ p.m * p.k \in Nat
           /\ \A t \in 1..Tiles(p) : TileOf(p, t).at.lo = p.scratch + p.m * p.k /\ TileOf(p, t).at.n \in Nat
           /\ LastEnd(p) \in Nat /\ p.scratch + p.m * p.k <= LastEnd(p)
           /\ LastEnd(p) <= p.scratch + 65536
           /\ LastEnd(p) <= p.scratch + p.m * p.k + p.k * p.n
<1> DEFINE l == p.m
           k == p.k
           n == p.n
           s == p.scratch
           c == Columns(p)
           T == Tiles(p)
<1>1. l \in Nat /\ k \in Nat /\ n \in Nat /\ s \in Nat /\ c \in Nat
  BY ColumnsFit DEF Shaped
<1>2. T \in Nat \ {0} /\ T \in 1..T
  BY TileFacts
<1>3. PICK w \in Nat : w <= c /\ w <= n /\ TileOf(p, T).at = Area(s + l * k, k * w)
  BY <1>2, TileFacts
<1>4. FitsLmem(l, k, c)
  BY ColumnsFit
<1>5. Left(p).at = Area(s, l * k)
  BY DEF Left, Value
<1>6. \A t \in 1..T : TileOf(p, t).at.lo = s + l * k /\ TileOf(p, t).at.n \in Nat
  <2> SUFFICES ASSUME NEW t \in 1..T PROVE TileOf(p, t).at.lo = s + l * k /\ TileOf(p, t).at.n \in Nat
    OBVIOUS
  <2>1. PICK v \in Nat : TileOf(p, t).at = Area(s + l * k, k * v)
    BY TileFacts
  <2>2. k * v \in Nat
    BY <1>1
  <2> QED
    BY <2>1, <2>2 DEF Area
<1>7. LastEnd(p) = (s + l * k) + k * w
  BY <1>3 DEF LastEnd, Area
<1> HIDE DEF l, k, n, s, c, T
<1>8. l * k \in Nat /\ k * w \in Nat /\ k * c \in Nat /\ k * n \in Nat /\ k * w <= k * c /\ k * w <= k * n
  BY <1>1, <1>3, Scaled
<1>9. l * k + k * c <= 65536
  <2> DEFINE A == LmemBytes(l, k)
             B == LmemBytes(k, c)
             E == LmemBytes(l, c)
  <2>1. A \in Nat /\ B \in Nat /\ E \in Nat /\ l * k <= 2 * A /\ k * c <= 2 * B
    BY <1>1, LmemHalf
  <2>2. A + B + E <= 32768
    BY <1>4 DEF FitsLmem, LmemSize
  <2> HIDE DEF A, B, E
  <2> QED
    BY <1>8, <2>1, <2>2
<1>10. LastEnd(p) \in Nat /\ s + l * k <= LastEnd(p) /\ LastEnd(p) <= s + 65536 /\ LastEnd(p) <= s + l * k + k * n
  BY <1>1, <1>7, <1>8, <1>9
<1> QED
  BY <1>5, <1>6, <1>8, <1>10 DEF l, k, n, s, T

-----------------------------------------------------------------------------
(* Copying the operands of a product                                         *)

\* Copied as a sequence of assignments: the left operand, then the tiles.
LEMMA CopySteps ==
    ASSUME NEW p, NEW m, Tiles(p) \in Nat
    PROVE  \E steps : /\ Copied(m, p) = After(m, steps) /\ Len(steps) = Tiles(p) + 1
                      /\ steps[1] = Assign(Left(p).at, Left(p).name, {p.left})
                      /\ \A i \in 1..Len(steps) : i > 1 =>
                            steps[i] = Assign(TileOf(p, i - 1).at, TileOf(p, i - 1).name, {p.right})
<1> DEFINE T == Tiles(p)
           a == Assign(Left(p).at, Left(p).name, {p.left})
           b(t) == Assign(TileOf(p, t).at, TileOf(p, t).name, {p.right})
           U == {a} \cup {b(t) : t \in 1..T}
           A == <<a>>
           B == [t \in 1..T |-> b(t)]
           steps == A \o B
<1>1. Copied(m, p) = After(m, steps)
  BY DEF Copied
<1>2. A \in Seq(U) /\ Len(A) = 1 /\ A[1] = a
  <2> HIDE DEF a, b
  <2> QED
    OBVIOUS
<1>3. B \in Seq(U) /\ Len(B) = T /\ \A t \in 1..T : B[t] = b(t)
  <2> HIDE DEF a, b
  <2>1. B \in [1..T -> U] /\ T \in Nat
    OBVIOUS
  <2> HIDE DEF U
  <2>2. B \in Seq(U)
    BY <2>1
  <2>3. Len(B) = T
    BY <2>1
  <2> QED
    BY <2>2, <2>3
<1> HIDE DEF A, B, a, b, U, T
<1>4. Len(steps) = T + 1 /\ steps[1] = A[1] /\ \A i \in 1..T+1 : i > 1 => steps[i] = B[i - 1] /\ i - 1 \in 1..T
  <2>1. T \in Nat
    BY DEF T
  <2>2. /\ Len(A \o B) = Len(A) + Len(B)
        /\ \A i \in 1 .. Len(A) + Len(B) : (A \o B)[i] = IF i <= Len(A) THEN A[i] ELSE B[i - Len(A)]
    BY <1>2, <1>3, ConcatProperties
  <2> QED
    BY <1>2, <1>3, <2>1, <2>2
<1>5. \A i \in 1..Len(steps) : i > 1 => steps[i] = b(i - 1)
  BY <1>3, <1>4
<1> HIDE DEF steps
<1>6. steps[1] = a
  BY <1>2, <1>4
<1> QED
  BY <1>1, <1>4, <1>5, <1>6 DEF a, b, T

\* They stay clear of what lies before the scratch area of the product.
LEMMA CopiedKeeps ==
    ASSUME NEW p, Shaped(p), Possible(p), NEW m, NEW at, NEW name, Has(m, at, name),
           at.lo \in Int, at.n \in Int, at.lo + at.n <= p.scratch
    PROVE  Has(Copied(m, p), at, name)
<1>1. Tiles(p) \in Nat
  BY TileFacts
<1>2. PICK steps : /\ Copied(m, p) = After(m, steps) /\ Len(steps) = Tiles(p) + 1
                   /\ steps[1] = Assign(Left(p).at, Left(p).name, {p.left})
                   /\ \A i \in 1..Len(steps) : i > 1 =>
                         steps[i] = Assign(TileOf(p, i - 1).at, TileOf(p, i - 1).name, {p.right})
  BY <1>1, CopySteps
<1>3. Len(steps) \in Nat
  BY <1>1, <1>2
<1>4. PICK f : IsRun(f, m, steps)
  BY <1>3, AfterRuns
<1>5. ASSUME NEW i \in 1..Len(steps) PROVE Apart(at, steps[i].to)
  <2>1. CASE i = 1
    <3>1. steps[i].to = Left(p).at
      BY <1>2, <2>1 DEF Assign
    <3>2. Left(p).at.lo = p.scratch
      <4>1. Left(p).at = Area(p.scratch, p.m * p.k)
        BY Extent
      <4> QED
        BY <4>1 DEF Area
    <3> QED
      BY <3>1, <3>2 DEF Apart
  <2>2. CASE i > 1
    <3>1. i - 1 \in 1..Tiles(p)
      BY <1>1, <1>2, <2>2
    <3>2. steps[i].to = TileOf(p, i - 1).at
      BY <1>2, <2>2 DEF Assign
    <3>3. TileOf(p, i - 1).at.lo = p.scratch + p.m * p.k /\ p.m * p.k \in Nat
      BY <3>1, Extent
    <3>4. at.lo + at.n <= p.scratch + p.m * p.k
      <4> DEFINE size == p.m * p.k
      <4>1. size \in Nat /\ p.scratch \in Nat
        BY <3>3 DEF Shaped
      <4> HIDE DEF size
      <4>2. at.lo + at.n <= p.scratch + size
        BY <4>1
      <4> QED
        BY <4>2 DEF size
    <3> QED
      BY <3>2, <3>3, <3>4 DEF Apart
  <2> QED
    BY <2>1, <2>2
<1>6. Has(f[0], at, name)
  BY <1>4 DEF IsRun
<1> QED
  BY <1>2, <1>3, <1>4, <1>5, <1>6, AfterKeeps

\* The left operand and the last tile are there afterwards.
LEMMA CopiedPuts ==
    ASSUME NEW p, Shaped(p), Possible(p), NEW m
    PROVE  /\ Has(Copied(m, p), Left(p).at, Left(p).name)
           /\ Has(Copied(m, p), TileOf(p, Tiles(p)).at, TileOf(p, Tiles(p)).name)
<1>1. Tiles(p) \in Nat \ {0}
  BY TileFacts
<1>2. PICK steps : /\ Copied(m, p) = After(m, steps) /\ Len(steps) = Tiles(p) + 1
                   /\ steps[1] = Assign(Left(p).at, Left(p).name, {p.left})
                   /\ \A i \in 1..Len(steps) : i > 1 =>
                         steps[i] = Assign(TileOf(p, i - 1).at, TileOf(p, i - 1).name, {p.right})
  BY <1>1, CopySteps
<1> DEFINE n == Len(steps)
<1>3. n \in Nat /\ n = Tiles(p) + 1 /\ n > 1 /\ 1 \in 1..n /\ n \in 1..n /\ n - 1 = Tiles(p)
  BY <1>1, <1>2
<1>4. PICK f : IsRun(f, m, steps)
  BY <1>3, AfterRuns
<1> HIDE DEF n
<1>5. \A i \in 1..n : f[i] = Assigned(f[i - 1], steps[i])
  BY <1>4 DEF IsRun, n
<1>6. Has(f[1], Left(p).at, Left(p).name)
  <2>1. Has(f[1], steps[1].to, steps[1].name)
    BY <1>3, <1>5, AssignedPuts
  <2> QED
    BY <1>2, <2>1 DEF Assign
<1>7. Has(f[n], TileOf(p, Tiles(p)).at, TileOf(p, Tiles(p)).name)
  <2>1. Has(f[n], steps[n].to, steps[n].name)
    BY <1>3, <1>5, AssignedPuts
  <2>2. steps[n] = Assign(TileOf(p, Tiles(p)).at, TileOf(p, Tiles(p)).name, {p.right})
    BY <1>2, <1>3 DEF n
  <2> QED
    BY <2>1, <2>2 DEF Assign
<1>8. ASSUME NEW i \in 1..n, i > 1 PROVE Apart(Left(p).at, steps[i].to)
  <2>1. i - 1 \in 1..Tiles(p)
    BY <1>3, <1>8
  <2>2. steps[i].to = TileOf(p, i - 1).at
    BY <1>2, <1>8 DEF Assign, n
  <2>3. steps[i].to.lo = p.scratch + p.m * p.k
    BY <2>1, <2>2, Extent
  <2>4. Left(p).at.lo + Left(p).at.n = p.scratch + p.m * p.k /\ p.m * p.k \in Nat
    <3>1. Left(p).at = Area(p.scratch, p.m * p.k) /\ p.m * p.k \in Nat
      BY Extent
    <3>2. Area(p.scratch, p.m * p.k).lo = p.scratch /\ Area(p.scratch, p.m * p.k).n = p.m * p.k
      BY DEF Area
    <3> QED
      BY <3>1, <3>2
  <2>5. p.scratch + p.m * p.k <= p.scratch + p.m * p.k
    BY <2>4 DEF Shaped
  <2> QED
    BY <2>3, <2>4, <2>5 DEF Apart
<1>9. Has(Copied(m, p), Left(p).at, Left(p).name)
  BY <1>2, <1>3, <1>4, <1>6, <1>8, AfterKeeps DEF n
<1>10. Has(Copied(m, p), TileOf(p, Tiles(p)).at, TileOf(p, Tiles(p)).name)
  BY <1>2, <1>4, <1>7 DEF IsRun, n
<1> QED
  BY <1>9, <1>10

-----------------------------------------------------------------------------
(* The products of a stage                                                   *)

\* smollm2_demo gives the groups of attention a quarter of what it gives the other products:
\* both operands of a group must fit there.
GroupsFit ==
    "demo" \in Engines =>
    /\ Heads * HeadDim + HeadDim * MaxKv <= GroupStride
    /\ Heads * MaxKv + MaxKv * HeadDim <= GroupStride

Typed ==
    /\ engine \in Engines /\ engine \in {"demo", "pool"} /\ (engine = "demo" => rows = 1)
    /\ rows \in Nat \ {0} /\ rows <= MaxRows
    /\ kvLen \in Nat \ {0} /\ kvLen <= MaxKv

\* How many products each stage has, and which.
LEMMA Counts ==
    /\ Len(Products("qkv")) = 3 /\ \A i \in 1..3 : Products("qkv")[i] = Qkv(i - 1)
    /\ Len(Products("scores")) = Kvh /\ \A i \in 1..Kvh : Products("scores")[i] = Score(i - 1)
    /\ Len(Products("attn")) = Kvh /\ \A i \in 1..Kvh : Products("attn")[i] = Attn(i - 1)
    /\ Len(Products("wo")) = 1 /\ Len(Products("ffn")) = 2 /\ Len(Products("down")) = 1
<1>1. Products("qkv") = [i \in 1..3 |-> Qkv(i-1)]
  BY DEF Products
<1>2. Products("scores") = [i \in 1..Kvh |-> Score(i-1)]
  BY DEF Products
<1>3. Products("attn") = [i \in 1..Kvh |-> Attn(i-1)]
  BY DEF Products
<1>4. Len(Products("wo")) = 1 /\ Len(Products("ffn")) = 2 /\ Len(Products("down")) = 1
  BY DEF Products
<1> QED
  BY <1>1, <1>2, <1>3, <1>4, Sizes

\* The dimensions of the products are positive.
LEMMA Dims ==
    ASSUME Typed
    PROVE  /\ D \in Nat \ {0} /\ Dkv \in Nat \ {0} /\ M \in Nat \ {0}
           /\ engine = "demo" => M = Heads
<1>1. Kvh * Heads \in Nat \ {0} /\ Kvh * HeadDim \in Nat \ {0} /\ rows * Heads \in Nat \ {0}
  BY Sizes DEF Typed
<1>2. (Kvh * Heads) * HeadDim \in Nat \ {0}
  BY <1>1, Sizes
<1>3. engine = "demo" => rows * Heads = Heads
  BY Sizes DEF Typed
<1> QED
  BY <1>1, <1>2, <1>3 DEF D, Dkv, M

Sized(p, m, k, n, at) == p.m = m /\ p.k = k /\ p.n = n /\ p.scratch = at

\* The sizes of every product and where its scratch area begins.
LEMMA QkvSized ==
    ASSUME NEW i \in 0..2
    PROVE  Sized(Qkv(i), rows, D, IF i = 0 THEN D ELSE Dkv, IF engine = "demo" THEN i * 65536 ELSE 0)
<1>1. ScratchOff + (IF engine = "demo" THEN i * BatchStride ELSE 0) = IF engine = "demo" THEN i * 65536 ELSE 0
  BY DEF ScratchOff, BatchStride
<1> QED
  BY <1>1 DEF Qkv, Sized

\* The same for the groups of attention.
LEMMA GroupSized ==
    ASSUME NEW i \in Nat
    PROVE  /\ Sized(Score(i), M, HeadDim, kvLen, IF engine = "demo" THEN i * 16384 ELSE 0)
           /\ Sized(Attn(i), M, kvLen, HeadDim, IF engine = "demo" THEN i * 16384 ELSE 0)
<1>1. Scratch(i) = IF engine = "demo" THEN i * 16384 ELSE 0
  BY DEF Scratch, ScratchOff, GroupStride
<1> QED
  BY <1>1 DEF Score, Attn, Sized

\* The same for the projections.
LEMMA RestSized ==
    /\ Sized(Products("wo")[1], rows, D, D, 0)
    /\ Sized(Products("ffn")[1], rows, D, Ffn, 0) /\ Sized(Products("ffn")[2], rows, D, Ffn, 65536)
    /\ Sized(Products("down")[1], rows, Ffn, D, 0)
<1>1. Sized(Products("wo")[1], rows, D, D, 0)
  BY DEF Products, Projection, Sized, ScratchOff
<1>2. Sized(Products("ffn")[1], rows, D, Ffn, 0)
  BY DEF Products, Projection, Sized, ScratchOff
<1>3. Sized(Products("ffn")[2], rows, D, Ffn, 65536)
  BY DEF Products, Projection, Sized, ScratchOff, BatchStride
<1>4. Sized(Products("down")[1], rows, Ffn, D, 0)
  BY DEF Products, Projection, Sized, ScratchOff
<1> QED
  BY <1>1, <1>2, <1>3, <1>4

\* Sizes are what the lemmas about one product ask for.
LEMMA SizedShaped ==
    ASSUME NEW p, NEW m \in Nat \ {0}, NEW k \in Nat \ {0}, NEW n \in Nat \ {0}, NEW at \in Nat, Sized(p, m, k, n, at)
    PROVE  Shaped(p)
  BY DEF Sized, Shaped

\* Every product of every stage has them.
LEMMA ProductShaped ==
    ASSUME Typed, NEW s \in Stages, NEW i \in 1..Len(Products(s))
    PROVE  Shaped(Products(s)[i])
<1> DEFINE p == Products(s)[i]
<1>1. /\ rows \in Nat \ {0} /\ kvLen \in Nat \ {0} /\ D \in Nat \ {0} /\ Dkv \in Nat \ {0} /\ M \in Nat \ {0}
      /\ HeadDim \in Nat \ {0} /\ Ffn \in Nat \ {0}
  BY Dims, Sizes DEF Typed
<1>2. CASE s = "qkv"
  <2>1. Len(Products(s)) = 3
    BY <1>2, Counts
  <2>2. i \in 1..3 /\ i - 1 \in 0..2
    BY <2>1
  <2>3. p = Qkv(i - 1)
    BY <1>2, <2>2, Counts
  <2> DEFINE at == IF engine = "demo" THEN (i - 1) * 65536 ELSE 0
             n == IF i - 1 = 0 THEN D ELSE Dkv
  <2>4. at \in Nat /\ n \in Nat \ {0}
    BY <1>1, <2>2
  <2>5. Sized(p, rows, D, n, at)
    BY <2>2, <2>3, QkvSized
  <2> HIDE DEF p, n, at
  <2> QED
    BY <1>1, <2>4, <2>5, SizedShaped DEF p
<1>3. CASE s \in {"scores", "attn"}
  <2>1. Len(Products(s)) = Kvh
    BY <1>3, Counts
  <2>2. i \in 1..Kvh /\ i - 1 \in Nat
    BY <2>1, Sizes
  <2>3. p = IF s = "scores" THEN Score(i - 1) ELSE Attn(i - 1)
    BY <1>3, <2>2, Counts
  <2> DEFINE at == IF engine = "demo" THEN (i - 1) * 16384 ELSE 0
  <2>4. at \in Nat
    BY <2>2
  <2>5. Sized(Score(i - 1), M, HeadDim, kvLen, at) /\ Sized(Attn(i - 1), M, kvLen, HeadDim, at)
    BY <2>2, GroupSized
  <2>6. p = Score(i - 1) \/ p = Attn(i - 1)
    BY <2>3
  <2> HIDE DEF p, at
  <2>7. CASE p = Score(i - 1)
    <3>1. Sized(p, M, HeadDim, kvLen, at)
      BY <2>5, <2>7
    <3> QED
      BY <1>1, <2>4, <3>1, SizedShaped DEF p
  <2>8. CASE p = Attn(i - 1)
    <3>1. Sized(p, M, kvLen, HeadDim, at)
      BY <2>5, <2>8
    <3> QED
      BY <1>1, <2>4, <3>1, SizedShaped DEF p
  <2> QED
    BY <2>6, <2>7, <2>8
<1>4. CASE s \in {"wo", "down"}
  <2>1. Len(Products(s)) = 1
    BY <1>4, Counts
  <2>2. i = 1
    BY <2>1
  <2>3. Sized(p, rows, D, D, 0) \/ Sized(p, rows, Ffn, D, 0)
    BY <1>4, <2>2, RestSized
  <2> HIDE DEF p
  <2> QED
    BY <1>1, <2>3, SizedShaped DEF p
<1>5. CASE s = "ffn"
  <2>1. Len(Products(s)) = 2
    BY <1>5, Counts
  <2>2. i = 1 \/ i = 2
    BY <2>1
  <2>3. Sized(p, rows, D, Ffn, 0) \/ Sized(p, rows, D, Ffn, 65536)
    BY <1>5, <2>2, RestSized
  <2> HIDE DEF p
  <2> QED
    BY <1>1, <2>3, SizedShaped DEF p
<1> QED
  BY <1>2, <1>3, <1>4, <1>5 DEF Stages

\* The scratch area of a product ends where that of a later one of the batch begins, or
\* before: unless the batch is one of the pool engine's groups, which share one.
Shared(s) == engine = "pool" /\ s \in {"scores", "attn"}

LEMMA ScratchOrder ==
    ASSUME Typed, GroupsFit, NEW s \in Stages, ~Immediate(s), ~Shared(s),
           NEW i \in 1..Len(Products(s)), NEW j \in 1..Len(Products(s)), i < j, Possible(Products(s)[i])
    PROVE  LastEnd(Products(s)[i]) <= Products(s)[j].scratch
<1> DEFINE p == Products(s)[i]
           q == Products(s)[j]
<1>1. LastEnd(p) \in Nat /\ LastEnd(p) <= p.scratch + 65536
  BY ProductShaped, Extent
<1>0. LastEnd(p) <= p.scratch + p.m * p.k + p.k * p.n
  BY ProductShaped, Extent
<1>2. CASE s = "qkv"
  <2>1. engine = "demo"
    BY <1>2 DEF Immediate, Typed
  <2>2. Len(Products(s)) = 3
    BY <1>2, Counts
  <2>3. i \in 1..3 /\ j \in 1..3 /\ i - 1 \in 0..2 /\ j - 1 \in 0..2
    BY <2>2
  <2>4. p = Qkv(i - 1) /\ q = Qkv(j - 1)
    BY <1>2, <2>3, Counts
  <2>5. p.scratch = (i - 1) * 65536
    BY <2>1, <2>3, <2>4, QkvSized DEF Sized
  <2>6. q.scratch = (j - 1) * 65536
    BY <2>1, <2>3, <2>4, QkvSized DEF Sized
  <2> HIDE DEF p, q
  <2>7. LastEnd(p) <= q.scratch
    BY <1>1, <2>3, <2>5, <2>6
  <2> QED
    BY <2>7 DEF p, q
<1>3. CASE s \in {"scores", "attn"}
  <2>1. engine = "demo" /\ Len(Products(s)) = Kvh
    BY <1>3, Counts DEF Shared, Typed
  <2>2. i \in 1..Kvh /\ j \in 1..Kvh /\ i - 1 \in Nat /\ j - 1 \in Nat
    BY <2>1, Sizes
  <2>8. p = (IF s = "scores" THEN Score(i - 1) ELSE Attn(i - 1)) /\ q = IF s = "scores" THEN Score(j - 1) ELSE Attn(j - 1)
    BY <1>3, <2>2, Counts
  <2>9. /\ Sized(p, M, HeadDim, kvLen, (i - 1) * 16384) \/ Sized(p, M, kvLen, HeadDim, (i - 1) * 16384)
        /\ Sized(q, M, HeadDim, kvLen, (j - 1) * 16384) \/ Sized(q, M, kvLen, HeadDim, (j - 1) * 16384)
    <3> DEFINE at(x) == IF engine = "demo" THEN x * 16384 ELSE 0
    <3>1. Sized(Score(i - 1), M, HeadDim, kvLen, at(i - 1)) /\ Sized(Attn(i - 1), M, kvLen, HeadDim, at(i - 1))
      BY <2>2, GroupSized
    <3>2. Sized(Score(j - 1), M, HeadDim, kvLen, at(j - 1)) /\ Sized(Attn(j - 1), M, kvLen, HeadDim, at(j - 1))
      BY <2>2, GroupSized
    <3>5. at(i - 1) = (i - 1) * 16384 /\ at(j - 1) = (j - 1) * 16384
      BY <2>1
    <3> HIDE DEF at
    <3>3. Sized(Score(i - 1), M, HeadDim, kvLen, (i - 1) * 16384) /\ Sized(Attn(i - 1), M, kvLen, HeadDim, (i - 1) * 16384)
      BY <3>1, <3>5
    <3>4. Sized(Score(j - 1), M, HeadDim, kvLen, (j - 1) * 16384) /\ Sized(Attn(j - 1), M, kvLen, HeadDim, (j - 1) * 16384)
      BY <3>2, <3>5
    <3> HIDE DEF p, q
    <3> QED
      BY <2>8, <3>3, <3>4
  <2>3. p.scratch = (i - 1) * 16384 /\ q.scratch = (j - 1) * 16384
    BY <2>9 DEF Sized
  <2>4. (p.m = Heads /\ p.k = HeadDim /\ p.n = kvLen) \/ (p.m = Heads /\ p.k = kvLen /\ p.n = HeadDim)
    BY <2>1, <2>9, Dims DEF Sized
  <2>5. p.m * p.k + p.k * p.n <= 16384 /\ p.m * p.k \in Nat /\ p.k * p.n \in Nat
    <3>1. kvLen \in Nat /\ MaxKv \in Nat /\ kvLen <= MaxKv /\ Heads \in Nat /\ HeadDim \in Nat
      BY Sizes DEF Typed
    <3>2. HeadDim * kvLen <= HeadDim * MaxKv /\ Heads * kvLen <= Heads * MaxKv /\ kvLen * HeadDim <= MaxKv * HeadDim
          /\ HeadDim * kvLen \in Nat /\ Heads * kvLen \in Nat /\ kvLen * HeadDim \in Nat
      BY <3>1, Scaled
    <3>3. Heads * HeadDim \in Nat /\ HeadDim * MaxKv \in Nat /\ Heads * MaxKv \in Nat /\ MaxKv * HeadDim \in Nat
      BY <3>1
    <3>6. Heads * HeadDim + HeadDim * MaxKv <= 16384 /\ Heads * MaxKv + MaxKv * HeadDim <= 16384
      BY <2>1 DEF Typed, GroupsFit, GroupStride
    <3>4. Heads * HeadDim + HeadDim * kvLen <= 16384
      BY <3>2, <3>3, <3>6
    <3>5. Heads * kvLen + kvLen * HeadDim <= 16384
      BY <3>2, <3>3, <3>6
    <3> HIDE DEF p
    <3> QED
      BY <2>4, <3>2, <3>3, <3>4, <3>5
  <2> DEFINE a == p.m * p.k
             b == p.k * p.n
  <2>6. a \in Nat /\ b \in Nat /\ a + b <= 16384 /\ LastEnd(p) <= p.scratch + a + b
    BY <1>0, <2>5
  <2>7. LastEnd(p) \in Nat
    BY <1>1
  <2> HIDE DEF a, b, p, q
  <2>10. LastEnd(p) <= q.scratch
    BY <2>2, <2>3, <2>6, <2>7
  <2> QED
    BY <2>10 DEF p, q
<1>4. CASE s \in {"wo", "down"}
  <2>1. Len(Products(s)) = 1
    BY <1>4, Counts
  <2> QED
    BY <2>1
<1>5. CASE s = "ffn"
  <2>0. Len(Products(s)) = 2
    BY <1>5, Counts
  <2>1. i = 1 /\ j = 2
    BY <2>0
  <2>2. p.scratch = 0 /\ q.scratch = 65536
    BY <1>5, <2>1, RestSized DEF Sized
  <2> HIDE DEF p, q
  <2>3. LastEnd(p) <= q.scratch
    BY <1>1, <2>2
  <2> QED
    BY <2>3 DEF p, q
<1> QED
  BY <1>2, <1>3, <1>4, <1>5 DEF Stages

\* The products depend on the engine, the rows and the context alone.
LEMMA BufferSame ==
    ASSUME UNCHANGED <<engine, rows, kvLen>>, NEW b
    PROVE  Buffer(b)' = Buffer(b)
<1>1. BufferSize' = BufferSize
  BY DEF BufferSize, M
<1> QED
  BY <1>1 DEF Buffer

\* So the products of a stage stay as they are while the layer is computed.
LEMMA ProductsSame ==
    ASSUME UNCHANGED <<engine, rows, kvLen>>, NEW s
    PROVE  Products(s)' = Products(s)
<1>1. M' = M
  BY DEF M
<1>2. \A i : QArea(i)' = QArea(i) /\ KtArea(i)' = KtArea(i) /\ SArea(i)' = SArea(i) /\ VArea(i)' = VArea(i) /\ AArea(i)' = AArea(i)
  BY <1>1 DEF QArea, KtArea, SArea, VArea, AArea
<1>3. OArea' = OArea /\ MidArea' = MidArea
  BY DEF OArea, MidArea
<1>4. Buffer("x_i8")' = Buffer("x_i8")
  BY BufferSame
<1>5. \A i : Scratch(i)' = Scratch(i)
  BY DEF Scratch
<1>6. \A i : Qkv(i)' = Qkv(i)
  BY <1>4 DEF Qkv
<1>7. \A i : Score(i)' = Score(i) /\ Attn(i)' = Attn(i)
  BY <1>1, <1>2, <1>5 DEF Score, Attn
<1> QED
  BY <1>3, <1>4, <1>6, <1>7 DEF Products, Projection

-----------------------------------------------------------------------------
(* The inductive invariant                                                   *)

Between == {"norm", "rope", "sum", "residual", "swiglu", "last"}
Batching == pc \in Stages /\ ~Immediate(pc)

Control ==
    /\ pc \in Stages \cup Between \cup {"prep", "softmax", "done", "failed"}
    /\ g \in Nat
    /\ pc \in Between => g = 0
    /\ pc \in {"prep", "softmax"} => g < Kvh
    /\ pc \in Stages => IF Immediate(pc) THEN g < Len(Products(pc)) ELSE g <= Len(Products(pc))

\* What has been queued: the first products of the batch, each of which has a tile that fits.
Queued ==
    IF Batching
    THEN /\ queue \in Seq({Products(pc)[i] : i \in 1..Len(Products(pc))}) /\ Len(queue) = g
         /\ \A i \in 1..g : queue[i] = Products(pc)[i] /\ Possible(queue[i])
    ELSE pc # "failed" => queue = <<>>

\* The left operand and the last tile of every queued product are still in the scratch area,
\* unless the groups of the pool engine are queued, or a group is too large for its area.
Kept(m, p) ==
    /\ Tiles(p) \in Nat \ {0}
    /\ Has(m, Left(p).at, Left(p).name)
    /\ Has(m, TileOf(p, Tiles(p)).at, TileOf(p, Tiles(p)).name)
Held == ~GroupsFit \/ (Batching /\ Shared(pc)) \/ \A i \in DOMAIN queue : Kept(mem, queue[i])

OInv == Typed /\ Control /\ Queued /\ Held

\* No stage is without a product.
LEMMA StageLengths ==
    ASSUME NEW s \in Stages
    PROVE  Len(Products(s)) \in Nat \ {0}
<1>1. s \in {"qkv", "wo", "ffn", "down"} => Len(Products(s)) \in {1, 2, 3}
  BY Counts
<1>2. s \in {"scores", "attn"} => Len(Products(s)) = Kvh
  BY Counts
<1>3. {1, 2, 3} \subseteq Nat \ {0}
  OBVIOUS
<1> QED
  BY <1>1, <1>2, <1>3, Sizes DEF Stages

\* Where a part of the layer begins, the invariant holds.
Start == Typed /\ g = 0 /\ queue = <<>> /\ pc \in Stages \cup Between \cup {"prep", "softmax", "done"}

LEMMA StartHolds == Start => OInv
<1> SUFFICES ASSUME Start PROVE OInv
  OBVIOUS
<1>1. Control
  BY StageLengths, Sizes DEF Start, Control
<1>2. Len(queue) = 0 /\ DOMAIN queue = {}
  BY DEF Start
<1>3. Queued
  BY <1>2 DEF Start, Queued, Stages, Between
<1>4. Held
  BY <1>2 DEF Held
<1> QED
  BY <1>1, <1>3, <1>4 DEF OInv, Start

\* The layer begins with the invariant.
LEMMA InitHolds ==
    ASSUME Init
    PROVE  OInv
<1>1. Typed
  BY EngineAssumption, Sizes DEF Init, Typed
<1>2. Start
  BY <1>1 DEF Init, Start, Between
<1> QED
  BY <1>2, StartHolds

\* Engine, rows and context never change.
LEMMA TypedStays ==
    ASSUME Typed, UNCHANGED <<engine, rows, kvLen>>
    PROVE  Typed'
  BY DEF Typed

\* An action that ends a part of the layer.
LEMMA PartEnds ==
    ASSUME OInv, UNCHANGED <<engine, rows, kvLen>>, g' = 0, queue' = <<>>,
           pc' \in Stages \cup Between \cup {"prep", "softmax", "done"}
    PROVE  OInv'
<1>1. Start'
  BY TypedStays DEF OInv, Start, Stages, Between
<1>2. Start' => OInv'
  BY StartHolds, PTL
<1> QED
  BY <1>1, <1>2

\* A step of the CPU outside the loops over the groups.
LEMMA CpuHolds ==
    ASSUME OInv, NEW here \in Between, NEW steps, NEW next, Cpu(here, steps, next),
           next \in Stages \cup Between \cup {"prep", "softmax", "done"}
    PROVE  OInv'
<1>1. pc = here /\ pc \notin Stages /\ pc # "failed"
  BY DEF Cpu, Stages, Between
<1>2. g = 0 /\ queue = <<>>
  BY <1>1 DEF OInv, Control, Queued, Batching
<1> QED
  BY <1>2, PartEnds DEF Cpu

\* A round of a loop over the groups.
LEMMA CpuGroupHolds ==
    ASSUME OInv, NEW here \in {"prep", "softmax"}, NEW steps, NEW next \in Stages, CpuGroup(here, steps, next)
    PROVE  OInv'
<1>1. pc = here /\ pc \notin Stages \cup Between /\ pc # "failed"
  BY DEF CpuGroup, Stages, Between
<1>2. queue = <<>> /\ queue' = <<>> /\ UNCHANGED <<engine, rows, kvLen>> /\ g \in Nat
  BY <1>1 DEF OInv, Control, Queued, Batching, CpuGroup
<1>3. CASE g + 1 < Kvh
  <2>1. pc' = pc /\ g' = g + 1
    BY <1>3 DEF CpuGroup
  <2>2. Typed'
    BY <1>2, TypedStays DEF OInv
  <2>3. Control'
    BY <1>1, <1>2, <1>3, <2>1 DEF Control
  <2>4. Queued'
    BY <1>1, <1>2, <2>1 DEF Queued, Batching
  <2>5. Held'
    BY <1>2 DEF Held
  <2> QED
    BY <2>2, <2>3, <2>4, <2>5 DEF OInv
<1>4. CASE ~(g + 1 < Kvh)
  BY <1>2, <1>4, PartEnds DEF CpuGroup
<1> QED
  BY <1>3, <1>4

\* Submit leaves nothing queued.
LEMMA SubmitHolds ==
    ASSUME OInv, Submit
    PROVE  OInv'
<1>1. Following[pc] \in Between \cup {"softmax"}
  BY DEF Submit, Following, Stages, Between
<1> QED
  BY <1>1, PartEnds DEF Submit

\* tpu_matmul queues nothing.
LEMMA MatmulHolds ==
    ASSUME OInv, Matmul
    PROVE  OInv'
<1>1. /\ pc \in Stages /\ Immediate(pc) /\ pc # "failed" /\ queue = <<>> /\ queue' = <<>> /\ g \in Nat
      /\ UNCHANGED <<engine, rows, kvLen>>
  BY DEF Matmul, OInv, Control, Queued, Batching, Stages
<1>2. Typed'
  BY <1>1, TypedStays DEF OInv
<1>3. Held'
  BY <1>1 DEF Held
<1>4. CASE pc' = pc /\ g' = g + 1 /\ g + 1 < Len(Products(pc))
  <2>1. Products(pc)' = Products(pc)
    BY <1>1, <1>4, ProductsSame
  <2>2. Immediate(pc)' = Immediate(pc)
    BY <1>1, <1>4 DEF Immediate
  <2>3. Control'
    BY <1>1, <1>4, <2>1, <2>2 DEF Control, Stages, Between
  <2>4. Queued'
    BY <1>1, <1>4, <2>2 DEF Queued, Batching
  <2> QED
    BY <1>2, <1>3, <2>3, <2>4 DEF OInv
<1>5. CASE g' = 0 /\ pc' = Following[pc]
  <2>1. Following[pc] \in Between \cup {"softmax"}
    BY <1>1 DEF Following, Stages, Between
  <2> QED
    BY <1>1, <1>5, <2>1, PartEnds
<1>6. CASE pc' = "failed" /\ UNCHANGED <<mem, g>>
  <2>1. Control'
    BY <1>1, <1>6 DEF Control, Stages, Between
  <2>2. Queued'
    BY <1>1, <1>6 DEF Queued, Batching, Stages
  <2> QED
    BY <1>2, <1>3, <2>1, <2>2 DEF OInv
<1> QED
  BY <1>4, <1>5, <1>6 DEF Matmul

\* The groups of a stage are of one size: either all are possible or none is.
LEMMA GroupsAlike ==
    ASSUME Typed, NEW s \in {"scores", "attn"}, NEW i \in 1..Len(Products(s)), NEW j \in 1..Len(Products(s))
    PROVE  Possible(Products(s)[i]) => Possible(Products(s)[j])
<1>1. i \in 1..Kvh /\ j \in 1..Kvh /\ i - 1 \in Nat /\ j - 1 \in Nat
  BY Counts, Sizes
<1>2. CASE s = "scores"
  <2>1. Products(s)[i] = Score(i - 1) /\ Products(s)[j] = Score(j - 1)
    BY <1>1, <1>2, Counts
  <2>2. Score(i - 1).m = Score(j - 1).m /\ Score(i - 1).k = Score(j - 1).k /\ Score(i - 1).n = Score(j - 1).n
    BY DEF Score
  <2> QED
    BY <2>1, <2>2 DEF Possible
<1>3. CASE s = "attn"
  <2>1. Products(s)[i] = Attn(i - 1) /\ Products(s)[j] = Attn(j - 1)
    BY <1>1, <1>3, Counts
  <2>2. Attn(i - 1).m = Attn(j - 1).m /\ Attn(i - 1).k = Attn(j - 1).k /\ Attn(i - 1).n = Attn(j - 1).n
    BY DEF Attn
  <2> QED
    BY <2>1, <2>2 DEF Possible
<1> QED
  BY <1>2, <1>3

\* Copying the operands of the next product leaves those of an earlier one.
LEMMA CopyingKeeps ==
    ASSUME GroupsFit, OInv, Batching, ~Shared(pc), NEW i \in 1..g, g < Len(Products(pc)), Kept(mem, queue[i]),
           Possible(Products(pc)[g + 1])
    PROVE  Kept(Copied(mem, Products(pc)[g + 1]), queue[i])
<1> DEFINE p == Products(pc)[i]
           q == Products(pc)[g + 1]
<1>1. g \in Nat /\ Typed /\ pc \in Stages /\ queue[i] = p /\ Possible(p) /\ Len(Products(pc)) \in Nat
  BY StageLengths DEF OInv, Control, Queued, Batching
<1>2. i \in 1..Len(Products(pc)) /\ g + 1 \in 1..Len(Products(pc)) /\ i < g + 1
  BY <1>1
<1>3. Shaped(p) /\ Shaped(q)
  BY <1>1, <1>2, ProductShaped
<1>4. LastEnd(p) <= q.scratch
  BY <1>1, <1>2, ScratchOrder DEF Batching
<1> HIDE DEF p, q
<1>5. /\ Left(p).at = Area(p.scratch, p.m * p.k) /\ p.m * p.k \in Nat /\ LastEnd(p) \in Nat
      /\ p.scratch + p.m * p.k <= LastEnd(p)
      /\ \A t \in 1..Tiles(p) : TileOf(p, t).at.lo = p.scratch + p.m * p.k /\ TileOf(p, t).at.n \in Nat
  BY <1>1, <1>3, Extent
<1>6. p.scratch \in Nat /\ q.scratch \in Nat
  BY <1>3 DEF Shaped
<1>7. Left(p).at.lo = p.scratch /\ Left(p).at.n = p.m * p.k
  BY <1>5 DEF Area
<1>8. Tiles(p) \in Nat \ {0} /\ Has(mem, Left(p).at, Left(p).name)
      /\ Has(mem, TileOf(p, Tiles(p)).at, TileOf(p, Tiles(p)).name)
  BY <1>1 DEF Kept
<1>9. Has(Copied(mem, q), Left(p).at, Left(p).name)
  <2>1. Left(p).at.lo \in Int /\ Left(p).at.n \in Int /\ Left(p).at.lo + Left(p).at.n <= q.scratch
    <3> DEFINE mk == p.m * p.k
    <3>1. mk \in Nat /\ p.scratch + mk <= LastEnd(p) /\ Left(p).at.n = mk
      BY <1>5, <1>7
    <3> HIDE DEF mk
    <3> QED
      BY <3>1, <1>4, <1>5, <1>6, <1>7
  <2>2. Possible(q)
    BY DEF q
  <2> QED
    BY <1>3, <1>8, <2>1, <2>2, CopiedKeeps
<1>10. Has(Copied(mem, q), TileOf(p, Tiles(p)).at, TileOf(p, Tiles(p)).name)
  <2> DEFINE a == TileOf(p, Tiles(p)).at
  <2>1. a.lo \in Int /\ a.n \in Int /\ a.lo + a.n <= q.scratch
    <3>1. Tiles(p) \in 1..Tiles(p)
      BY <1>8
    <3>2. a.lo = p.scratch + p.m * p.k /\ a.n \in Nat
      BY <1>5, <3>1
    <3>3. a.lo + a.n = LastEnd(p)
      BY DEF LastEnd
    <3> HIDE DEF a
    <3> QED
      BY <1>4, <1>5, <1>6, <3>2, <3>3
  <2>2. Possible(q)
    BY DEF q
  <2> QED
    BY <1>3, <1>8, <2>1, <2>2, CopiedKeeps
<1>11. Kept(Copied(mem, q), p)
  BY <1>8, <1>9, <1>10 DEF Kept
<1> QED
  BY <1>1, <1>11 DEF p, q

\* tpu_matmul_build queues a product beside the earlier ones, or fails.
LEMMA BuildHolds ==
    ASSUME OInv, Build
    PROVE  OInv'
<1> DEFINE p == Products(pc)[g + 1]
           S == {Products(pc)[i] : i \in 1..Len(Products(pc))}
<1>1. /\ pc \in Stages /\ ~Immediate(pc) /\ Batching /\ pc # "failed" /\ g \in Nat /\ g < Len(Products(pc))
      /\ Len(queue) = g /\ UNCHANGED <<engine, rows, kvLen>> /\ Typed
      /\ \A i \in 1..g : queue[i] = Products(pc)[i] /\ Possible(queue[i])
  BY DEF Build, OInv, Control, Queued, Batching, Stages
<1>2. Typed'
  BY <1>1, TypedStays
<1>3. Len(Products(pc)) \in Nat
  BY <1>1, StageLengths
<1>4. g + 1 \in 1..Len(Products(pc))
  BY <1>1, <1>3
<1>5. CASE Possible(p)
  <2>1. mem' = Copied(mem, p) /\ queue' = Append(queue, p) /\ g' = g + 1 /\ pc' = pc
    BY <1>5 DEF Build
  <2>2. Products(pc)' = Products(pc)
    BY <1>1, <2>1, ProductsSame
  <2>3. Immediate(pc)' = Immediate(pc) /\ Shared(pc)' = Shared(pc)
    BY <1>1, <2>1 DEF Immediate, Shared
  <2>4. Control'
    BY <1>1, <1>3, <2>1, <2>2, <2>3 DEF Control, Stages, Between
  <2>5. /\ queue' \in Seq(S) /\ Len(queue') = g + 1 /\ queue'[g + 1] = p
        /\ \A i \in 1..g : queue'[i] = queue[i]
    <3>1. queue \in Seq(S) /\ p \in S
      BY <1>1, <1>4 DEF OInv, Queued
    <3> HIDE DEF S, p
    <3> QED
      BY <1>1, <2>1, <3>1, AppendProperties
  <2>6. DOMAIN queue' = 1..g + 1
    BY <2>5
  <2>7. Queued'
    <3>1. Batching'
      BY <1>1, <2>1, <2>3 DEF Batching
    <3>2. \A i \in 1..g + 1 : queue'[i] = Products(pc)[i] /\ Possible(queue'[i])
      <4> SUFFICES ASSUME NEW i \in 1..g + 1
                   PROVE  queue'[i] = Products(pc)[i] /\ Possible(queue'[i])
        OBVIOUS
      <4>1. CASE i \in 1..g
        BY <1>1, <2>5, <4>1
      <4>2. CASE i = g + 1
        BY <1>5, <2>5, <4>2
      <4> QED
        BY <1>1, <4>1, <4>2
    <3>3. \A i \in 1..g' : queue'[i] = Products(pc)[i] /\ Possible(queue'[i])
      BY <2>1, <3>2
    <3>4. queue' \in Seq({(Products(pc)')[i] : i \in 1..Len(Products(pc)')}) /\ Len(queue') = g'
      BY <2>1, <2>2, <2>5
    <3>5. \A i \in 1..g' : queue'[i] = (Products(pc)')[i]
      BY <2>2, <3>3
    <3> QED
      BY <3>1, <3>3, <3>4, <3>5 DEF Queued, Possible, FitsLmem, TileSizes, LmemBytes
  <2>8. Held'
    <3>1. CASE Shared(pc)
      BY <1>1, <2>1, <2>3, <3>1 DEF Held, Batching
    <3>3. CASE ~GroupsFit
      BY <3>3 DEF Held, GroupsFit
    <3>2. CASE GroupsFit /\ ~Shared(pc)
      <4> SUFFICES ASSUME NEW i \in DOMAIN queue' PROVE Kept(mem, queue[i])'
        BY DEF Held
      <4>1. CASE i \in 1..g
        <5>1. Kept(mem, queue[i])
          BY <1>1, <3>2, <4>1 DEF OInv, Held
        <5>2. Kept(Copied(mem, p), queue[i])
          BY <1>1, <1>5, <3>2, <4>1, <5>1, CopyingKeeps
        <5>3. Kept(mem', queue'[i])
          BY <2>1, <2>5, <4>1, <5>2
        <5> QED
          BY <5>3
      <4>2. CASE i = g + 1
        <5>1. Shaped(p)
          BY <1>1, <1>4, ProductShaped
        <5> HIDE DEF p
        <5>2. Kept(Copied(mem, p), p)
          BY <1>5, <5>1, CopiedPuts, TileFacts DEF Kept
        <5>3. Kept(mem', queue'[i])
          BY <2>1, <2>5, <4>2, <5>2
        <5> QED
          BY <5>3
      <4> QED
        BY <1>1, <2>6, <4>1, <4>2
    <3> QED
      BY <3>1, <3>2, <3>3
  <2> QED
    BY <1>2, <2>4, <2>7, <2>8 DEF OInv
<1>6. CASE ~Possible(p)
  <2>1. pc' = "failed" /\ UNCHANGED <<mem, queue, g>>
    BY <1>6 DEF Build
  <2>2. Control'
    BY <1>1, <2>1 DEF Control, Stages, Between
  <2>3. Queued'
    BY <2>1 DEF Queued, Batching, Stages
  <2>4. Held'
    <3>1. CASE Shared(pc)
      <4>1. g = 0
        <5> SUFFICES ASSUME g # 0 PROVE FALSE
          OBVIOUS
        <5>1. 1 \in 1..g /\ 1 \in 1..Len(Products(pc))
          BY <1>1, <1>4
        <5>2. Possible(Products(pc)[1]) /\ pc \in {"scores", "attn"}
          BY <1>1, <3>1, <5>1 DEF Shared
        <5> QED
          BY <1>1, <1>4, <1>6, <5>1, <5>2, GroupsAlike
      <4>2. DOMAIN queue = {}
        BY <1>1, <4>1 DEF OInv, Queued
      <4> QED
        BY <2>1, <4>2 DEF Held
    <3>3. CASE ~GroupsFit
      BY <3>3 DEF Held, GroupsFit
    <3>2. CASE GroupsFit /\ ~Shared(pc)
      <4>1. \A i \in DOMAIN queue : Kept(mem, queue[i])
        BY <3>2 DEF OInv, Held
      <4>2. \A i \in DOMAIN queue' : Kept(mem', queue'[i])
        BY <2>1, <4>1
      <4> QED
        BY <4>2 DEF Held
    <3> QED
      BY <3>1, <3>2, <3>3
  <2> QED
    BY <1>2, <2>2, <2>3, <2>4 DEF OInv
<1> QED
  BY <1>5, <1>6

\* Every step keeps the invariant.
LEMMA NextHolds ==
    ASSUME OInv, [Next]_vars
    PROVE  OInv'
<1>1. CASE Normalize
  BY <1>1, CpuHolds DEF Normalize, Between, Stages
<1>2. CASE Rotate
  BY <1>2, CpuHolds DEF Rotate, Between
<1>3. CASE Prepare
  BY <1>3, CpuGroupHolds DEF Prepare, Stages
<1>4. CASE Softmax
  BY <1>4, CpuGroupHolds DEF Softmax, Stages
<1>5. CASE Accumulate
  BY <1>5, CpuHolds DEF Accumulate, Between, Stages
<1>6. CASE AddAttention
  BY <1>6, CpuHolds DEF AddAttention, Between, Stages
<1>7. CASE SwiGlu
  BY <1>7, CpuHolds DEF SwiGlu, Between, Stages
<1>8. CASE AddFfn
  BY <1>8, CpuHolds DEF AddFfn, Between
<1>9. CASE Build
  BY <1>9, BuildHolds
<1>10. CASE Submit
  BY <1>10, SubmitHolds
<1>11. CASE Matmul
  BY <1>11, MatmulHolds
<1>12. CASE UNCHANGED vars
  <2>1. Typed' /\ UNCHANGED <<engine, rows, kvLen, pc, g, mem, queue>>
    BY <1>12, TypedStays DEF vars, OInv
  <2>2. Products(pc)' = Products(pc)
    BY <2>1, ProductsSame
  <2>3. Immediate(pc)' = Immediate(pc) /\ Shared(pc)' = Shared(pc)
    BY <2>1 DEF Immediate, Shared
  <2>4. Control'
    BY <2>1, <2>2, <2>3 DEF OInv, Control
  <2>5. Batching' = Batching
    BY <2>1, <2>3 DEF Batching
  <2>6. Queued'
    <3>1. CASE Batching
      <4>1. queue' \in Seq({(Products(pc)')[i] : i \in 1..Len(Products(pc)')}) /\ Len(queue') = g'
        BY <2>1, <2>2, <3>1 DEF OInv, Queued
      <4>2. \A i \in 1..g' : queue'[i] = (Products(pc)')[i] /\ Possible(queue'[i])
        BY <2>1, <2>2, <3>1 DEF OInv, Queued
      <4> QED
        BY <2>5, <3>1, <4>1, <4>2 DEF Queued, Possible, FitsLmem, TileSizes, LmemBytes
    <3>2. CASE ~Batching
      BY <2>1, <2>5, <3>2 DEF OInv, Queued
    <3> QED
      BY <3>1, <3>2
  <2>7. Held'
    <3>1. CASE Batching /\ Shared(pc)
      BY <2>3, <2>5, <3>1 DEF Held
    <3>3. CASE ~GroupsFit
      BY <3>3 DEF Held, GroupsFit
    <3>2. CASE \A i \in DOMAIN queue : Kept(mem, queue[i])
      <4>1. \A i \in DOMAIN queue' : Kept(mem', queue'[i])
        BY <2>1, <3>2
      <4> QED
        BY <4>1 DEF Held
    <3> QED
      BY <3>1, <3>2, <3>3 DEF OInv, Held
  <2> QED
    BY <2>1, <2>4, <2>6, <2>7 DEF OInv
<1> QED
  BY <1>1, <1>2, <1>3, <1>4, <1>5, <1>6, <1>7, <1>8, <1>9, <1>10, <1>11, <1>12 DEF Next, Ended

\* The invariant is stronger than the property.
LEMMA HeldMeans == GroupsFit /\ OInv => OperandsHeld
<1> SUFFICES ASSUME GroupsFit, OInv, NEW i \in DOMAIN queue, engine = "pool" => pc \notin {"scores", "attn"}
             PROVE  /\ Has(mem, Left(queue[i]).at, Left(queue[i]).name)
                    /\ \E t \in 1..Tiles(queue[i]) : Has(mem, TileOf(queue[i], t).at, TileOf(queue[i], t).name)
  BY DEF OperandsHeld
<1>1. Kept(mem, queue[i])
  BY DEF OInv, Held, Shared
<1>2. Tiles(queue[i]) \in 1..Tiles(queue[i])
  BY <1>1 DEF Kept
<1> QED
  BY <1>1, <1>2 DEF Kept

\* Both engines, whatever their sizes: a product tpu_matmul_build has queued still finds its
\* operands when CVI_RT_Submit runs it, since no later product of the batch is copied over
\* them ("separate scratch regions to avoid overwrite within batch", smollm2_demo.c:621), if
\* a quarter of a scratch area holds those of a group of smollm2_demo (with SmolLM2's
\* sizes, up to 244 rows of context).
THEOREM OperandsAlwaysHeld ==
    ASSUME GroupsFit
    PROVE  Spec => []OperandsHeld
<1>1. Init => OInv
  BY InitHolds
<1>2. OInv /\ [Next]_vars => OInv'
  BY NextHolds
<1>3. OInv => OperandsHeld
  BY HeldMeans
<1> QED
  BY <1>1, <1>2, <1>3, PTL DEF Spec

-----------------------------------------------------------------------------
(* The local memory                                                          *)

SmolLM2 ==
    Kvh = 3 /\ HeadDim = 64 /\ Heads = 3 /\ Ffn = 1536 /\ MaxRows <= 10 /\ MaxKv <= 1024

\* A tile of 16 columns fits beside few rows of any width of the layer.
LEMMA NarrowTile ==
    ASSUME NEW m \in Nat, NEW k \in Nat, (m <= 10 /\ k <= 1536) \/ (m <= 30 /\ k <= 1024)
    PROVE  FitsLmem(m, k, 16)
<1> DEFINE a == (m + 1) \div 2
           b == (k + 31) \div 32
           c == (k + 1) \div 2
<1>1. a \in Nat /\ b \in Nat /\ c \in Nat
  OBVIOUS
<1>2. (a <= 5 /\ b <= 48 /\ c <= 768) \/ (a <= 15 /\ b <= 32 /\ c <= 512)
  OBVIOUS
<1>3. LmemBytes(m, k) = (a * b) * 32 /\ LmemBytes(k, 16) = c * 32 /\ LmemBytes(m, 16) = a * 32
  <2>1. (16 + 31) \div 32 = 1
    OBVIOUS
  <2> HIDE DEF a, b, c
  <2>2. LmemBytes(m, k) = a * b * 32 /\ LmemBytes(k, 16) = c * 1 * 32 /\ LmemBytes(m, 16) = a * 1 * 32
    BY <2>1 DEF LmemBytes, a, b, c
  <2> QED
    BY <1>1, <2>2
<1> HIDE DEF a, b, c
<1>4. a * b \in Nat /\ ((a * b <= 240 /\ c <= 768 /\ a <= 5) \/ (a * b <= 480 /\ c <= 512 /\ a <= 15))
  <2>1. CASE a <= 5 /\ b <= 48 /\ c <= 768
    <3>1. a * b <= 5 * b
      BY <1>1, <2>1, Scaled
    <3> QED
      BY <1>1, <2>1, <3>1
  <2>2. CASE a <= 15 /\ b <= 32 /\ c <= 512
    <3>1. a * b <= 15 * b
      BY <1>1, <2>2, Scaled
    <3> QED
      BY <1>1, <2>2, <3>1
  <2> QED
    BY <1>2, <2>1, <2>2
<1> DEFINE ab == a * b
<1>5. LmemBytes(m, k) = ab * 32 /\ ab \in Nat /\ ((ab <= 240 /\ c <= 768 /\ a <= 5) \/ (ab <= 480 /\ c <= 512 /\ a <= 15))
  BY <1>3, <1>4
<1> HIDE DEF ab
<1> QED
  BY <1>1, <1>3, <1>5 DEF FitsLmem, LmemSize

\* Every product of SmolLM2 has such a tile.
LEMMA AllPossible ==
    ASSUME SmolLM2, Typed, NEW s \in Stages, NEW i \in 1..Len(Products(s))
    PROVE  Possible(Products(s)[i])
<1> DEFINE p == Products(s)[i]
<1>1. D = 576 /\ M = rows * 3 /\ rows \in Nat /\ rows <= 10 /\ kvLen \in Nat /\ kvLen <= 1024 /\ M \in Nat /\ M <= 30
  BY Sizes DEF SmolLM2, D, M, Typed
<1>2. p.m \in Nat /\ p.k \in Nat /\ ((p.m <= 10 /\ p.k <= 1536) \/ (p.m <= 30 /\ p.k <= 1024))
  <2>1. CASE s = "qkv"
    <3>1. i \in 1..3
      BY <2>1, Counts
    <3>2. p = Qkv(i - 1)
      BY <2>1, <3>1, Counts
    <3> HIDE DEF p
    <3>3. p.m = rows /\ p.k = D
      BY <3>2 DEF Qkv
    <3> QED
      BY <1>1, <3>3
  <2>2. CASE s = "scores"
    <3>1. p = Score(i - 1)
      BY <2>2, Counts
    <3> HIDE DEF p
    <3>2. p.m = M /\ p.k = 64
      BY <3>1 DEF Score, SmolLM2
    <3> QED
      BY <1>1, <3>2
  <2>3. CASE s = "attn"
    <3>1. p = Attn(i - 1)
      BY <2>3, Counts
    <3> HIDE DEF p
    <3>2. p.m = M /\ p.k = kvLen
      BY <3>1 DEF Attn
    <3> QED
      BY <1>1, <3>2
  <2>4. CASE s \in {"wo", "ffn", "down"}
    <3>1. i = 1 \/ (s = "ffn" /\ i = 2)
      <4>1. CASE s = "ffn"
        <5>1. Len(Products(s)) = 2
          BY <4>1, Counts
        <5> QED
          BY <4>1, <5>1
      <4>2. CASE s \in {"wo", "down"}
        <5>1. Len(Products(s)) = 1
          BY <4>2, Counts
        <5> QED
          BY <5>1
      <4> QED
        BY <2>4, <4>1, <4>2
    <3>2. Sized(p, rows, D, D, 0) \/ Sized(p, rows, D, Ffn, 0) \/ Sized(p, rows, D, Ffn, 65536) \/ Sized(p, rows, Ffn, D, 0)
      BY <2>4, <3>1, RestSized
    <3> HIDE DEF p
    <3>3. p.m = rows /\ (p.k = D \/ p.k = Ffn)
      BY <3>2 DEF Sized
    <3> QED
      BY <1>1, <3>3 DEF SmolLM2
  <2> QED
    BY <2>1, <2>2, <2>3, <2>4 DEF Stages
<1> HIDE DEF p
<1>3. FitsLmem(p.m, p.k, 16)
  BY <1>2, NarrowTile
<1>4. 16 \in {16 * x : x \in 1..16}
  <2>1. 1 \in 1..16 /\ 16 * 1 = 16
    OBVIOUS
  <2> QED
    BY <2>1
<1>5. 16 \in TileSizes(p.m, p.k)
  BY <1>3, <1>4 DEF TileSizes
<1>6. Possible(p)
  BY <1>5 DEF Possible
<1> QED
  BY <1>6 DEF p

AInv == OInv /\ pc # "failed"

\* sm_layer_forward answers: with SmolLM2's sizes, passes of up to CHUNK_PREFILL tokens, and
\* at most 1024 rows of context, tpu_find_tile_n finds a tile for every product of the layer.
THEOREM LayerAlwaysAnswers ==
    ASSUME SmolLM2
    PROVE  Spec => []LayerAnswers
<1>1. Init => AInv
  BY InitHolds DEF AInv, Init
<1>2. AInv /\ [Next]_vars => AInv'
  <2> SUFFICES ASSUME AInv, [Next]_vars PROVE AInv'
    OBVIOUS
  <2>1. OInv'
    BY NextHolds DEF AInv
  <2>2. pc' # "failed"
    <3>1. CASE Build \/ Matmul
      <4>1. pc \in Stages /\ Typed /\ g + 1 \in 1..Len(Products(pc))
        <5>1. pc \in Stages /\ Typed /\ g \in Nat /\ g < Len(Products(pc))
          BY <3>1 DEF Build, Matmul, AInv, OInv, Control
        <5> QED
          BY <5>1, StageLengths
      <4>2. Possible(Products(pc)[g + 1])
        BY <4>1, AllPossible
      <4>3. Following[pc] # "failed"
        BY <4>1 DEF Following, Stages
      <4> QED
        BY <3>1, <4>1, <4>2, <4>3 DEF Build, Matmul, Stages
    <3>2. CASE Submit
      BY <3>2 DEF Submit, Following, Stages
    <3>3. CASE Normalize \/ Rotate \/ Prepare \/ Softmax \/ Accumulate \/ AddAttention \/ SwiGlu \/ AddFfn
      BY <3>3 DEF AInv, Normalize, Rotate, Prepare, Softmax, Accumulate, AddAttention, SwiGlu, AddFfn, Cpu, CpuGroup
    <3>4. CASE UNCHANGED vars
      BY <3>4 DEF AInv, vars
    <3> QED
      BY <3>1, <3>2, <3>3, <3>4 DEF Next, Ended
  <2> QED
    BY <2>1, <2>2 DEF AInv
<1>3. AInv => LayerAnswers
  BY DEF AInv, LayerAnswers
<1> QED
  BY <1>1, <1>2, <1>3, PTL DEF Spec

=============================================================================
