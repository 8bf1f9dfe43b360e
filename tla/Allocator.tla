----------------------------- MODULE Allocator -----------------------------
(***************************************************************************)
(* What operator new and operator delete promise their callers: blocks of  *)
(* at least the requested size, inside the heap, that never overlap.  A    *)
(* block does not remember its request: that it is large enough is what    *)
(* instances with few sizes show (with one size, exactly).                 *)
(***************************************************************************)
EXTENDS Naturals

CONSTANTS
  Limit,   \* bytes of the heap
  Sizes    \* sizes callers ask for

VARIABLE blocks  \* the live blocks, <<first byte, length>>

Disjoint(b, c) == b[1] + b[2] <= c[1] \/ c[1] + c[2] <= b[1]

Init == blocks = {}

Allocate ==
  \E n \in Sizes, at \in 1..Limit, length \in 1..Limit :
    /\ length >= n
    /\ at + length <= Limit
    /\ \A b \in blocks : Disjoint(b, <<at, length>>)
    /\ blocks' = blocks \cup {<<at, length>>}

Release == \E b \in blocks : blocks' = blocks \ {b}

Next == Allocate \/ Release

Spec == Init /\ [][Next]_blocks
=============================================================================
