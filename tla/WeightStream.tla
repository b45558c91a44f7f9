---------------------------- MODULE WeightStream ----------------------------
(***************************************************************************)
(* What the per-matrix weight prefetcher of the Qwen engine promises its   *)
(* caller: in every forward pass the matrices 0 .. PassLen-1 are           *)
(* multiplied one after the other, each with the bytes of its own file     *)
(* region, and the stream can be closed between two passes.                *)
(***************************************************************************)
EXTENDS Integers

CONSTANTS
    PassLen,        \* matrices of one forward pass (24 layers of 7)
    BytesOf(_),     \* the file bytes of a matrix of the pass
    NoBytes         \* nothing has been multiplied yet

VARIABLES
    served,         \* matrices multiplied so far, over all passes
    bytes,          \* what the last multiplication read
    open            \* the stream has not been closed

streamVars == <<served, bytes, open>>

Init ==
    /\ served = 0
    /\ bytes = NoBytes
    /\ open = TRUE

\* The next matrix is multiplied, with its own bytes and no others.
Multiply ==
    /\ open
    /\ served' = served + 1
    /\ bytes' = BytesOf(served % PassLen)
    /\ UNCHANGED open

\* Only a whole number of passes is ever left behind.
Close ==
    /\ open
    /\ served % PassLen = 0
    /\ open' = FALSE
    /\ UNCHANGED <<served, bytes>>

Next == Multiply \/ Close

Safe == Init /\ [][Next]_streamVars

\* And the forwards go on, until the stream is closed.
Spec == Safe /\ WF_streamVars(Next)
=============================================================================
