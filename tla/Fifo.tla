-------------------------------- MODULE Fifo --------------------------------
(***************************************************************************)
(* What the keyboard queue promises its reader: characters come out in the *)
(* order they went in, each once, and nothing else comes out.              *)
(***************************************************************************)
EXTENDS Naturals, Sequences

CONSTANTS
  Chars,     \* characters
  Capacity   \* the most the queue holds

VARIABLES
  queue,  \* characters waiting
  taken   \* characters the current read has taken

Init == queue = <<>> /\ taken = <<>>

\* The tail of what is put may be lost when the queue is full.
Put ==
  /\ \E n \in 0..Capacity :
       /\ Len(queue) + n <= Capacity
       /\ \E s \in [1..n -> Chars] : queue' = queue \o s
  /\ UNCHANGED taken

Take ==
  \E n \in 0..Len(queue) :
    /\ taken' = taken \o SubSeq(queue, 1, n)
    /\ queue' = SubSeq(queue, n + 1, Len(queue))

Restart == taken' = <<>> /\ UNCHANGED queue

Next == Put \/ Take \/ Restart

Spec == Init /\ [][Next]_<<queue, taken>>
=============================================================================
