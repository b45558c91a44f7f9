----------------------------- MODULE TpuMemory -----------------------------
(* Byte-addressed memory in which values are kept in areas.  A write destroys  *)
(* every value its area overlaps; a value that is read where it is no longer   *)
(* intact is lost, and so is all that is computed from it.                     *)
EXTENDS Integers, SequencesExt

Area(lo, n) == [lo |-> lo, n |-> n]
Apart(a, b) == a.lo + a.n <= b.lo \/ b.lo + b.n <= a.lo

\* A memory is a set of intact values [lo, n, name, taint]: what has gone wrong on
\* the way to the value is its taint, {} for the value the program means.
Written(m, a, name, taint) ==
    {c \in m : Apart(c, a)}
        \cup {[lo |-> a.lo, n |-> a.n, name |-> name, taint |-> taint]}
Found(m, at, name) == {c \in m : c.lo = at.lo /\ c.n = at.n /\ c.name = name}
Has(m, at, name) == Found(m, at, name) # {}
Taint(m, at, name) ==
    IF Has(m, at, name) THEN UNION {c.taint : c \in Found(m, at, name)} ELSE {"lost"}

\* One assignment: the value "name" is computed from the values "from" and put at "to".
Value(at, name) == [at |-> at, name |-> name]
Assign(to, name, from) == [to |-> to, name |-> name, from |-> from]
Assigned(m, s) == Written(m, s.to, s.name, UNION {Taint(m, v.at, v.name) : v \in s.from})
After(m, steps) ==
    LET now[i \in 0..Len(steps)] == IF i = 0 THEN m ELSE Assigned(now[i - 1], steps[i])
    IN  now[Len(steps)]
=============================================================================
