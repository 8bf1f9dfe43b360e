-------------------------- MODULE SchedulerProofs ---------------------------
(***************************************************************************)
(* Proofs about the kernel heap, which the process table and everything    *)
(* else in the kernel takes its memory from, and about Scheduler, for any  *)
(* table size, ring size, timeout and any mix of system calls: type        *)
(* correctness, GetActive() is the caller, one RUNNING process, and ring 3 *)
(* always runs on its own stack and directory; preemption of programs that *)
(* do not block, and the pids when one program starts the others.          *)
(***************************************************************************)
EXTENDS Scheduler, Heap, TLAPS

-----------------------------------------------------------------------------
(***************************************************************************)
(* The heap, for every size of the region, of the header and of requests:  *)
(* the chunk list stays well formed and fully coalesced, malloc is         *)
(* complete, and the heap implements Allocator.                            *)
(***************************************************************************)

EndOf(h, c) == c + Header + h[c].size

\* The links of one chunk, as in Linked, for any chunk map.
LinkedAt(h, c) ==
  /\ h[c].next # Null => /\ h[c].next \in DOMAIN h
                         /\ EndOf(h, c) = h[c].next
                         /\ h[h[c].next].prev = c
  /\ h[c].next = Null => EndOf(h, c) = HeapSize
  /\ h[c].prev # Null => h[c].prev \in DOMAIN h /\ h[h[c].prev].next = c
  /\ h[c].prev = Null => c = 0

\* A chunk map as malloc and free leave it, coalesced or not: typed, linked,
\* without overlaps, and with every byte of the heap in some chunk.
Typed(h) == DOMAIN h \subseteq Addresses /\ h \in [DOMAIN h -> Chunk]
Apart(h) == \A c, d \in DOMAIN h : c < d => EndOf(h, c) <= d
Covers(h) == \A a \in Addresses : \E c \in DOMAIN h : c <= a /\ a < EndOf(h, c)

WellFormed(h) ==
  /\ Typed(h)
  /\ 0 \in DOMAIN h
  /\ \A c \in DOMAIN h : LinkedAt(h, c)
  /\ Apart(h)
  /\ Covers(h)

\* The inductive invariant.
HeapInv == WellFormed(heap) /\ Coalesced

-----------------------------------------------------------------------------
\* What the type of a chunk map says about one chunk.
LEMMA ChunkFacts ==
  ASSUME NEW h, Typed(h), NEW c \in DOMAIN h
  PROVE  /\ c \in Nat /\ c < HeapSize /\ h[c].size \in Nat /\ h[c].size > 0
         /\ h[c].size <= HeapSize /\ h[c].allocated \in BOOLEAN
         /\ h[c] \in Chunk /\ h[c].next \in Addresses \cup {Null}
         /\ h[c].prev \in Addresses \cup {Null}
         /\ h[c] = [prev |-> h[c].prev, next |-> h[c].next,
                    allocated |-> h[c].allocated, size |-> h[c].size]
<1>1. h[c] \in Chunk /\ c \in Addresses
  BY DEF Typed
<1> QED
  BY <1>1, HeapAssumption DEF Chunk, Addresses

\* A chunk ends inside the heap.
LEMMA EndInHeap ==
  ASSUME NEW h, WellFormed(h), NEW c \in DOMAIN h
  PROVE  EndOf(h, c) \in Nat /\ EndOf(h, c) <= HeapSize /\ c < EndOf(h, c)
<1>1. LinkedAt(h, c) /\ Typed(h)
  BY DEF WellFormed
<1>2. c \in Nat /\ h[c].size \in Nat /\ h[c].size > 0
  BY <1>1, ChunkFacts
<1>3. h[c].next # Null => EndOf(h, c) < HeapSize
  BY <1>1, ChunkFacts DEF LinkedAt
<1> QED
  BY <1>1, <1>2, <1>3, HeapAssumption DEF LinkedAt, EndOf

\* The initial heap, one free chunk (memorymanagement.cpp:5-9).
LEMMA InitHeap == HeapInit => HeapInv
<1> SUFFICES ASSUME HeapInit PROVE HeapInv
  OBVIOUS
<1>1. /\ DOMAIN heap = {0} /\ heap[0].next = Null /\ heap[0].prev = Null
      /\ heap[0].size = HeapSize - Header
  BY DEF HeapInit
<1>2. Typed(heap)
  BY HeapAssumption DEF Typed, HeapInit, Chunk, Addresses
<1>3. EndOf(heap, 0) = HeapSize
  BY <1>1, HeapAssumption DEF EndOf
<1>4. \A c \in DOMAIN heap : LinkedAt(heap, c)
  BY <1>1, <1>3 DEF LinkedAt
<1>5. Apart(heap) /\ Covers(heap)
  BY <1>1, <1>3, HeapAssumption DEF Apart, Covers, Addresses
<1>6. Coalesced
  BY <1>1 DEF Coalesced, Chunks
<1> QED
  BY <1>1, <1>2, <1>4, <1>5, <1>6 DEF HeapInv, WellFormed

-----------------------------------------------------------------------------
\* Changing only the allocated flag of a chunk keeps the map well formed.
LEMMA FlagKeeps ==
  ASSUME NEW h, WellFormed(h), NEW c \in DOMAIN h, NEW flag \in BOOLEAN
  PROVE  WellFormed([h EXCEPT ![c].allocated = flag])
<1> DEFINE g == [h EXCEPT ![c].allocated = flag]
<1>1. Typed(h) /\ 0 \in DOMAIN h
  BY DEF WellFormed
<1>2. DOMAIN g = DOMAIN h
  OBVIOUS
<1>3. \A x \in DOMAIN h : /\ g[x].next = h[x].next /\ g[x].prev = h[x].prev
                          /\ g[x].size = h[x].size
  BY <1>1, ChunkFacts
<1>4. Typed(g)
  <2>1. \A x \in DOMAIN h : g[x] \in Chunk
    BY <1>1, ChunkFacts DEF Chunk
  <2> QED
    BY <1>1, <1>2, <2>1 DEF Typed
<1> HIDE DEF g
<1>5. \A x \in DOMAIN h : EndOf(g, x) = EndOf(h, x)
  BY <1>3 DEF EndOf
<1>6. \A x \in DOMAIN g : LinkedAt(g, x)
  BY <1>2, <1>3, <1>5 DEF WellFormed, LinkedAt
<1>7. Apart(g) /\ Covers(g)
  BY <1>2, <1>5 DEF WellFormed, Apart, Covers
<1>8. WellFormed(g)
  BY <1>1, <1>2, <1>4, <1>6, <1>7 DEF WellFormed
<1> QED
  BY <1>8 DEF g

\* Merging a chunk with its successor keeps the map well formed.
LEMMA AbsorbKeeps ==
  ASSUME NEW h, WellFormed(h), NEW c \in DOMAIN h, h[c].next # Null
  PROVE  WellFormed(Absorb(h, c, h[c].next))
<1> DEFINE d == h[c].next
           g == Absorb(h, c, d)
<1>1. Typed(h) /\ 0 \in DOMAIN h /\ \A x \in DOMAIN h : LinkedAt(h, x)
  BY DEF WellFormed
<1>2. d \in DOMAIN h /\ d # Null /\ EndOf(h, c) = d /\ h[d].prev = c
  BY <1>1 DEF LinkedAt
<1>3. /\ c \in Nat /\ d \in Nat /\ c < d /\ d # c
      /\ h[c].size \in Nat /\ h[d].size \in Nat /\ h[c].size > 0 /\ h[d].size > 0
  BY <1>1, <1>2, EndInHeap, ChunkFacts
<1>4. EndOf(h, d) \in Nat /\ EndOf(h, d) <= HeapSize
  BY <1>2, EndInHeap
<1>5. h[d].next # c /\ h[d].next # d
  <2>1. h[d].next # Null => EndOf(h, d) = h[d].next /\ d < EndOf(h, d)
    BY <1>1, <1>2, EndInHeap DEF LinkedAt
  <2>2. Null # c /\ Null # d
    BY <1>3 DEF Null
  <2> QED
    BY <1>3, <2>1, <2>2
<1>6. DOMAIN g = DOMAIN h \ {d}
  BY DEF Absorb
<1>7. /\ g[c].size = h[c].size + Header + h[d].size /\ g[c].next = h[d].next
      /\ g[c].prev = h[c].prev /\ g[c].allocated = h[c].allocated
  <2>1. g[c] = [h[c] EXCEPT !.size = h[c].size + Header + h[d].size, !.next = h[d].next]
    BY <1>3 DEF Absorb
  <2> QED
    BY <1>1, <2>1, ChunkFacts
<1>8. ASSUME NEW x \in DOMAIN h, x # c, x # d, x = h[d].next
      PROVE  /\ g[x].prev = c /\ g[x].next = h[x].next /\ g[x].size = h[x].size
             /\ g[x].allocated = h[x].allocated
  <2>1. g[x] = [h[x] EXCEPT !.prev = c]
    BY <1>8 DEF Absorb
  <2> QED
    BY <1>1, <1>8, <2>1, ChunkFacts
<1>9. ASSUME NEW x \in DOMAIN h, x # c, x # d, x # h[d].next
      PROVE  g[x] = h[x]
  BY <1>9 DEF Absorb
<1> HIDE DEF g, d
<1>10. EndOf(g, c) = EndOf(h, d)
  BY <1>2, <1>3, <1>7, HeapAssumption DEF EndOf
<1>11. \A x \in DOMAIN g : x # c => EndOf(g, x) = EndOf(h, x)
  BY <1>6, <1>8, <1>9 DEF EndOf
<1>12. Typed(g)
  <2>1. h[c].size + Header + h[d].size \in 1..HeapSize
    BY <1>2, <1>3, <1>4, HeapAssumption DEF EndOf
  <2>2. g[c] \in Chunk
    <3>1. g[c] = [h[c] EXCEPT !.size = h[c].size + Header + h[d].size, !.next = h[d].next]
      BY <1>3 DEF Absorb, g
    <3>2. h[c] \in Chunk /\ h[d].next \in Addresses \cup {Null}
      BY <1>1, <1>2, ChunkFacts
    <3> QED
      BY <2>1, <3>1, <3>2, Zenon DEF Chunk
  <2>3. \A x \in DOMAIN g : x # c => g[x] \in Chunk
    <3> SUFFICES ASSUME NEW x \in DOMAIN g, x # c PROVE g[x] \in Chunk
      OBVIOUS
    <3>1. x \in DOMAIN h /\ x # d
      BY <1>6
    <3>2. CASE x = h[d].next
      <4>1. g[x] = [h[x] EXCEPT !.prev = c]
        BY <3>1, <3>2 DEF Absorb, g
      <4>2. g[x] = [prev |-> c, next |-> h[x].next, allocated |-> h[x].allocated,
                    size |-> h[x].size]
        BY <1>1, <3>1, <4>1, ChunkFacts
      <4>3. c \in Addresses
        BY <1>1 DEF Typed
      <4> QED
        BY <1>1, <3>1, <4>2, <4>3, ChunkFacts DEF Chunk
    <3> QED
      BY <1>1, <1>9, <3>1, <3>2, ChunkFacts
  <2>4. g = [x \in DOMAIN g |-> g[x]]
    BY DEF g, Absorb
  <2>5. DOMAIN g \subseteq Addresses
    BY <1>1, <1>6 DEF Typed
  <2>6. \A x \in DOMAIN g : g[x] \in Chunk
    BY <2>2, <2>3
  <2> QED
    BY <2>4, <2>5, <2>6 DEF Typed
<1>13. 0 \in DOMAIN g
  BY <1>1, <1>3, <1>6
<1>14. ASSUME NEW x \in DOMAIN g PROVE LinkedAt(g, x)
  <2>1. x \in DOMAIN h /\ x # d /\ LinkedAt(h, x)
    BY <1>1, <1>6
  <2>2. CASE x = c
    <3>1. h[d].next # Null => /\ h[d].next \in DOMAIN h /\ EndOf(h, d) = h[d].next
                              /\ h[d].next # c /\ h[d].next # d
      BY <1>1, <1>2, <1>5 DEF LinkedAt
    <3>2. h[d].next # Null => g[h[d].next].prev = c
      BY <1>8, <3>1
    <3>3. h[d].next = Null => EndOf(h, d) = HeapSize
      BY <1>1, <1>2 DEF LinkedAt
    <3>4. h[c].prev # Null => h[c].prev \in DOMAIN h /\ h[h[c].prev].next = c
      BY <2>1, <2>2 DEF LinkedAt
    <3>5. h[c].prev # Null => h[c].prev # d /\ h[c].prev # c
      BY <1>2, <1>3, <1>5, <3>4 DEF d
    <3>6. h[c].prev # Null => g[h[c].prev].next = c
      BY <1>8, <1>9, <3>4, <3>5
    <3>7. h[c].prev = Null => c = 0
      BY <2>1, <2>2 DEF LinkedAt
    <3> QED
      BY <1>6, <1>7, <1>10, <2>2, <3>1, <3>2, <3>3, <3>4, <3>5, <3>6, <3>7 DEF LinkedAt
  <2>3. CASE x # c
    <3>1. g[x].next = h[x].next /\ EndOf(g, x) = EndOf(h, x)
      BY <1>8, <1>9, <1>11, <2>1, <2>3
    <3>2. h[x].next # Null => /\ h[x].next \in DOMAIN h /\ EndOf(h, x) = h[x].next
                              /\ h[h[x].next].prev = x
      BY <2>1 DEF LinkedAt
    <3>3. h[x].next # Null => h[x].next # d
      BY <1>2, <2>3, <3>2
    <3>4. h[x].next # Null => g[h[x].next].prev = x
      <4>1. h[x].next # h[d].next \/ h[x].next = Null
        BY <1>1, <1>2, <2>1, <3>2 DEF LinkedAt
      <4> QED
        BY <1>7, <1>9, <3>2, <3>3, <4>1
    <3>5. h[x].next = Null => EndOf(h, x) = HeapSize
      BY <2>1 DEF LinkedAt
    <3>6. g[x].prev = Null => x = 0
      BY <1>3, <1>8, <1>9, <2>1, <2>3 DEF LinkedAt, Null
    <3>7. g[x].prev # Null => g[x].prev \in DOMAIN g /\ g[g[x].prev].next = x
      <4>1. CASE x = h[d].next
        BY <1>3, <1>6, <1>7, <1>8, <2>1, <2>3, <4>1
      <4>2. CASE x # h[d].next
        <5>1. g[x].prev = h[x].prev
          BY <1>9, <2>1, <2>3, <4>2
        <5>2. h[x].prev # Null => h[x].prev \in DOMAIN h /\ h[h[x].prev].next = x
          BY <2>1 DEF LinkedAt
        <5>3. h[x].prev # Null => h[x].prev # d /\ h[x].prev # c
          BY <2>1, <2>3, <4>2, <5>2 DEF d
        <5> QED
          BY <1>6, <1>8, <1>9, <5>1, <5>2, <5>3
      <4> QED
        BY <4>1, <4>2
    <3> QED
      BY <1>6, <3>1, <3>2, <3>3, <3>4, <3>5, <3>6, <3>7 DEF LinkedAt
  <2> QED
    BY <2>2, <2>3
<1>15. Apart(g)
  <2> SUFFICES ASSUME NEW x \in DOMAIN g, NEW y \in DOMAIN g, x < y
               PROVE  EndOf(g, x) <= y
    BY DEF Apart
  <2>1. /\ x \in DOMAIN h /\ y \in DOMAIN h /\ y # d /\ EndOf(h, x) <= y
        /\ x \in Nat /\ y \in Nat
    BY <1>1, <1>6, ChunkFacts DEF WellFormed, Apart
  <2>2. CASE x = c
    <3>1. d < y
      BY <1>2, <1>3, <2>1, <2>2
    <3>2. EndOf(h, d) <= y
      BY <1>2, <2>1, <3>1 DEF WellFormed, Apart
    <3> QED
      BY <1>10, <2>2, <3>2
  <2> QED
    BY <1>11, <2>1, <2>2
<1>16. Covers(g)
  <2> SUFFICES ASSUME NEW a \in Addresses
               PROVE  \E x \in DOMAIN g : x <= a /\ a < EndOf(g, x)
    BY DEF Covers
  <2>1. PICK x \in DOMAIN h : x <= a /\ a < EndOf(h, x)
    BY DEF WellFormed, Covers
  <2>2. a \in Int
    BY DEF Addresses
  <2>3. CASE x \in {c, d}
    <3>1. c <= a /\ a < EndOf(g, c)
      BY <1>2, <1>3, <1>4, <1>10, <2>1, <2>2, <2>3, EndInHeap
    <3> QED
      BY <1>3, <1>6, <3>1
  <2>4. CASE x \notin {c, d}
    BY <1>6, <1>11, <2>1, <2>4
  <2> QED
    BY <2>3, <2>4
<1>17. WellFormed(g)
  BY <1>12, <1>13, <1>14, <1>15, <1>16 DEF WellFormed
<1> QED
  BY <1>17 DEF g, d

-----------------------------------------------------------------------------
\* Splitting a free chunk that is larger than the request and a header.
LEMMA SplitInv ==
  ASSUME HeapInv, NEW n \in Nat \ {0}, NEW c \in Chunks, ~heap[c].allocated,
         heap[c].size > n + Header, Split(c, n)
  PROVE  HeapInv'
<1> DEFINE h == heap
           g == heap'
           new == c + Header + n
<1>1. /\ WellFormed(h) /\ Typed(h) /\ 0 \in DOMAIN h
      /\ \A x \in DOMAIN h : LinkedAt(h, x)
  BY DEF HeapInv, WellFormed
<1>2. c \in DOMAIN h /\ h[c].size > n + Header /\ ~h[c].allocated
  BY DEF Chunks
<1>3. c \in Nat /\ h[c].size \in Nat /\ Header \in Nat /\ Header > 0
  BY <1>1, <1>2, ChunkFacts, HeapAssumption
<1>4. new \in Nat /\ c < new /\ new < EndOf(h, c) /\ EndOf(h, c) \in Nat
      /\ EndOf(h, c) <= HeapSize
  BY <1>1, <1>2, <1>3, EndInHeap DEF EndOf
<1>5. new \notin DOMAIN h /\ new # Null
  BY <1>1, <1>2, <1>4 DEF WellFormed, Apart, Null
<1>6. DOMAIN g = DOMAIN h \cup {new}
  BY DEF Split, Chunks
<1>7. /\ g[new].prev = c /\ g[new].next = h[c].next /\ ~g[new].allocated
      /\ g[new].size = h[c].size - n - Header
  BY DEF Split, Chunks
<1>8. /\ g[c].prev = h[c].prev /\ g[c].next = new /\ g[c].size = n /\ g[c].allocated
  <2>1. g[c] = [h[c] EXCEPT !.next = new, !.size = n, !.allocated = TRUE]
    BY <1>2, <1>4 DEF Split, Chunks
  <2> QED
    BY <1>1, <1>2, <2>1, ChunkFacts
<1>9. ASSUME NEW x \in DOMAIN h, x # c, x = h[c].next
      PROVE  /\ g[x].prev = new /\ g[x].next = h[x].next /\ g[x].size = h[x].size
             /\ g[x].allocated = h[x].allocated
  <2>1. g[x] = [h[x] EXCEPT !.prev = new]
    BY <1>5, <1>9 DEF Split, Chunks
  <2> QED
    BY <1>1, <1>9, <2>1, ChunkFacts
<1>10. ASSUME NEW x \in DOMAIN h, x # c, x # h[c].next
       PROVE  g[x] = h[x]
  BY <1>5, <1>10 DEF Split, Chunks
<1>11. Typed(g)
  <2>1. \A x \in DOMAIN g : g[x] \in Chunk
    <3> SUFFICES ASSUME NEW x \in DOMAIN g PROVE g[x] \in Chunk
      OBVIOUS
    <3>0. new \in Addresses /\ c \in Addresses /\ n \in 1..HeapSize
          /\ h[c].size - n - Header \in 1..HeapSize
      <4>1. c \in Addresses /\ h[c].size <= HeapSize
        BY <1>1, <1>2, ChunkFacts DEF Typed
      <4> QED
        BY <1>2, <1>3, <1>4, <4>1, HeapAssumption DEF Addresses
    <3>1. CASE x = new
      <4>1. g[x] = [prev |-> c, next |-> h[c].next, allocated |-> FALSE,
                    size |-> h[c].size - n - Header]
        BY <3>1 DEF Split, Chunks
      <4> QED
        BY <1>1, <1>2, <3>0, <4>1, ChunkFacts DEF Chunk
    <3>2. CASE x = c
      <4>1. g[x] = [h[c] EXCEPT !.next = new, !.size = n, !.allocated = TRUE]
        BY <1>2, <1>4, <3>2 DEF Split, Chunks
      <4>2. h[c] \in Chunk
        BY <1>1, <1>2, ChunkFacts
      <4> QED
        BY <3>0, <4>1, <4>2, Zenon DEF Chunk
    <3>3. CASE x \in DOMAIN h /\ x # c /\ x = h[c].next
      <4>1. g[x] = [h[x] EXCEPT !.prev = new]
        BY <1>5, <3>3 DEF Split, Chunks
      <4>2. h[x] \in Chunk
        BY <1>1, <3>3, ChunkFacts
      <4> QED
        BY <3>0, <4>1, <4>2 DEF Chunk
    <3>4. CASE x \in DOMAIN h /\ x # c /\ x # h[c].next
      BY <1>1, <1>10, <3>4, ChunkFacts
    <3> QED
      BY <1>6, <3>1, <3>2, <3>3, <3>4
  <2>2. g = [x \in DOMAIN g |-> g[x]]
    BY DEF Split
  <2>3. DOMAIN g \subseteq Addresses
    <3>1. new \in Addresses
      BY <1>4, HeapAssumption DEF Addresses
    <3> QED
      BY <1>1, <1>6, <3>1 DEF Typed
  <2> QED
    BY <2>1, <2>2, <2>3 DEF Typed
<1> HIDE DEF g, h, new
<1>12. EndOf(g, c) = new /\ EndOf(g, new) = EndOf(h, c)
  BY <1>3, <1>7, <1>8 DEF EndOf, new
<1>13. \A x \in DOMAIN h : x # c => EndOf(g, x) = EndOf(h, x)
  BY <1>9, <1>10 DEF EndOf
<1>14. ASSUME NEW x \in DOMAIN g PROVE LinkedAt(g, x)
  <2>1. LinkedAt(h, c)
    BY <1>1, <1>2
  <2>2. CASE x = new
    <3>1. h[c].next # Null => /\ h[c].next \in DOMAIN h /\ EndOf(h, c) = h[c].next
                              /\ h[c].next # c
      BY <1>4, <2>1 DEF LinkedAt
    <3>2. h[c].next # Null => g[h[c].next].prev = new
      BY <1>9, <3>1
    <3>3. h[c].next = Null => EndOf(h, c) = HeapSize
      BY <2>1 DEF LinkedAt
    <3>4. c # Null
      BY <1>3 DEF Null
    <3> QED
      BY <1>2, <1>6, <1>7, <1>8, <1>12, <2>2, <3>1, <3>2, <3>3, <3>4 DEF LinkedAt
  <2>3. CASE x = c
    <3>1. h[c].prev # Null => h[c].prev \in DOMAIN h /\ h[h[c].prev].next = c
      BY <2>1 DEF LinkedAt
    <3>2. h[c].next # Null => EndOf(h, c) = h[c].next
      BY <2>1 DEF LinkedAt
    <3>3. h[c].prev # Null => h[c].prev # c
      BY <1>3, <1>4, <3>1, <3>2 DEF Null
    <3>4. h[c].prev # Null => g[h[c].prev].next = c
      BY <1>9, <1>10, <3>1, <3>3
    <3>5. h[c].prev = Null => c = 0
      BY <2>1 DEF LinkedAt
    <3> QED
      BY <1>5, <1>6, <1>7, <1>8, <1>12, <2>3, <3>1, <3>4, <3>5 DEF LinkedAt
  <2>4. CASE x # new /\ x # c
    <3>1. x \in DOMAIN h /\ LinkedAt(h, x)
      BY <1>1, <1>6, <2>4
    <3>2. g[x].next = h[x].next /\ EndOf(g, x) = EndOf(h, x)
      BY <1>9, <1>10, <1>13, <2>4, <3>1
    <3>3. h[x].next # Null => /\ h[x].next \in DOMAIN h /\ EndOf(h, x) = h[x].next
                              /\ h[h[x].next].prev = x
      BY <3>1 DEF LinkedAt
    <3>4. h[x].next # Null => g[h[x].next].prev = x
      <4>1. h[x].next # h[c].next \/ h[x].next = Null
        BY <2>1, <2>4, <3>3 DEF LinkedAt
      <4> QED
        BY <1>8, <1>10, <3>3, <4>1
    <3>5. h[x].next = Null => EndOf(h, x) = HeapSize
      BY <3>1 DEF LinkedAt
    <3>6. g[x].prev = Null => x = 0
      BY <1>5, <1>9, <1>10, <2>4, <3>1 DEF LinkedAt
    <3>7. g[x].prev # Null => g[x].prev \in DOMAIN g /\ g[g[x].prev].next = x
      <4>1. CASE x = h[c].next
        BY <1>6, <1>7, <1>9, <2>4, <3>1, <4>1
      <4>2. CASE x # h[c].next
        <5>1. g[x].prev = h[x].prev
          BY <1>10, <2>4, <3>1, <4>2
        <5>2. h[x].prev # Null => h[x].prev \in DOMAIN h /\ h[h[x].prev].next = x
          BY <3>1 DEF LinkedAt
        <5>3. h[x].prev # Null => h[x].prev # c
          BY <4>2, <5>2
        <5> QED
          BY <1>6, <1>9, <1>10, <5>1, <5>2, <5>3
      <4> QED
        BY <4>1, <4>2
    <3> QED
      BY <1>6, <3>1, <3>2, <3>3, <3>4, <3>5, <3>6, <3>7 DEF LinkedAt
  <2> QED
    BY <2>2, <2>3, <2>4
<1>15. Apart(g)
  <2> SUFFICES ASSUME NEW x \in DOMAIN g, NEW y \in DOMAIN g, x < y
               PROVE  EndOf(g, x) <= y
    BY DEF Apart
  <2>1. \A u, v \in DOMAIN h : u < v => EndOf(h, u) <= v
    BY <1>1 DEF WellFormed, Apart
  <2>2. \A u \in DOMAIN h : u \in Nat /\ EndOf(h, u) \in Nat
    BY <1>1, ChunkFacts, EndInHeap
  <2>3. CASE x = c
    BY <1>2, <1>4, <1>6, <1>12, <2>1, <2>2, <2>3
  <2>4. CASE x = new
    BY <1>2, <1>4, <1>6, <1>12, <2>1, <2>2, <2>4
  <2>5. CASE x # c /\ x # new
    BY <1>2, <1>4, <1>6, <1>13, <2>1, <2>2, <2>5
  <2> QED
    BY <2>3, <2>4, <2>5
<1>16. Covers(g)
  <2> SUFFICES ASSUME NEW a \in Addresses
               PROVE  \E x \in DOMAIN g : x <= a /\ a < EndOf(g, x)
    BY DEF Covers
  <2>1. PICK x \in DOMAIN h : x <= a /\ a < EndOf(h, x)
    BY <1>1 DEF WellFormed, Covers
  <2>2. a \in Int
    BY DEF Addresses
  <2>3. CASE x = c
    <3>1. (c <= a /\ a < EndOf(g, c)) \/ (new <= a /\ a < EndOf(g, new))
      BY <1>4, <1>12, <2>1, <2>2, <2>3
    <3> QED
      BY <1>2, <1>6, <3>1
  <2>4. CASE x # c
    BY <1>6, <1>13, <2>1, <2>4
  <2> QED
    BY <2>3, <2>4
<1>17. WellFormed(g)
  BY <1>1, <1>6, <1>11, <1>14, <1>15, <1>16 DEF WellFormed
<1>18. \A x \in DOMAIN g : ~g[x].allocated /\ g[x].next # Null => g[g[x].next].allocated
  <2> SUFFICES ASSUME NEW x \in DOMAIN g, ~g[x].allocated, g[x].next # Null
               PROVE  g[g[x].next].allocated
    OBVIOUS
  <2>1. \A u \in DOMAIN h : ~h[u].allocated /\ h[u].next # Null
                              => h[h[u].next].allocated /\ h[u].next \in DOMAIN h
    BY <1>1 DEF HeapInv, Coalesced, Chunks, LinkedAt, h
  <2>2. h[c].next # Null => h[c].next # c
    BY <1>1, <1>2, <1>4 DEF LinkedAt
  <2>3. CASE x = new
    BY <1>2, <1>7, <1>9, <2>1, <2>2, <2>3
  <2>4. CASE x # new
    <3>1. x \in DOMAIN h /\ x # c
      BY <1>6, <1>8, <2>4
    <3>2. ~h[x].allocated /\ g[x].next = h[x].next
      BY <1>9, <1>10, <3>1
    <3>3. h[h[x].next].allocated /\ h[x].next \in DOMAIN h
      BY <2>1, <3>1, <3>2
    <3> QED
      BY <1>2, <1>9, <1>10, <3>2, <3>3
  <2> QED
    BY <2>3, <2>4
<1> QED
  BY <1>17, <1>18 DEF HeapInv, Coalesced, Chunks, g

\* malloc keeps the invariant, whether it splits, takes a whole chunk or fails.
LEMMA MallocInv ==
  ASSUME HeapInv, NEW n \in Sizes, Malloc(n)
  PROVE  HeapInv'
<1>1. CASE \E c \in Chunks : /\ IsFirstFit(c, n)
                             /\ heap[c].size > n + Header
                             /\ Split(c, n)
  BY <1>1, SplitInv, HeapAssumption DEF IsFirstFit, Fits
<1>2. ASSUME NEW c \in Chunks, IsFirstFit(c, n),
             heap' = [heap EXCEPT ![c].allocated = TRUE]
      PROVE  HeapInv'
  <2>1. WellFormed(heap')
    BY <1>2, FlagKeeps, Zenon DEF HeapInv, Chunks
  <2>2. Typed(heap) /\ DOMAIN heap' = DOMAIN heap
    BY <1>2 DEF HeapInv, WellFormed
  <2>3. \A x \in DOMAIN heap : /\ heap'[x].next = heap[x].next
                               /\ heap[x].allocated => heap'[x].allocated
    BY <1>2, <2>2, ChunkFacts
  <2>4. \A x \in DOMAIN heap : heap[x].next # Null => heap[x].next \in DOMAIN heap
    BY DEF HeapInv, WellFormed, LinkedAt
  <2>5. Coalesced'
    BY <2>2, <2>3, <2>4 DEF HeapInv, Coalesced, Chunks
  <2> QED
    BY <2>1, <2>5 DEF HeapInv
<1>3. CASE UNCHANGED heap
  BY <1>3 DEF HeapInv, Coalesced, Chunks
<1> QED
  BY <1>1, <1>2, <1>3 DEF Malloc, Take

\* What a merge leaves of every other chunk.
LEMMA AbsorbFacts ==
  ASSUME NEW h, WellFormed(h), NEW c \in DOMAIN h, h[c].next # Null,
         NEW d, d = h[c].next, NEW g, g = Absorb(h, c, d)
  PROVE  /\ d \in DOMAIN h /\ c # d /\ h[d].next # d /\ h[d].next # c
         /\ DOMAIN g = DOMAIN h \ {d}
         /\ g[c].next = h[d].next /\ g[c].prev = h[c].prev
         /\ \A x \in DOMAIN g : g[x].allocated = h[x].allocated
         /\ \A x \in DOMAIN g : x # c => g[x].next = h[x].next /\ g[x].size = h[x].size
<1>1. Typed(h) /\ \A x \in DOMAIN h : LinkedAt(h, x)
  BY DEF WellFormed
<1>2. d \in DOMAIN h /\ EndOf(h, c) = d
  BY <1>1 DEF LinkedAt
<1>3. c \in Nat /\ d \in Nat /\ c < d /\ d < EndOf(h, d) /\ EndOf(h, d) \in Nat
  BY <1>1, <1>2, EndInHeap, ChunkFacts, SMTT(30)
<1>4. h[d].next # d /\ h[d].next # c
  BY <1>1, <1>2, <1>3 DEF LinkedAt, Null
<1>5. DOMAIN g = DOMAIN h \ {d}
  BY DEF Absorb
<1>6. g[c].next = h[d].next /\ g[c].prev = h[c].prev /\ g[c].allocated = h[c].allocated
  <2>1. g[c] = [h[c] EXCEPT !.size = h[c].size + Header + h[d].size, !.next = h[d].next]
    BY <1>3 DEF Absorb
  <2> QED
    BY <1>1, <2>1, ChunkFacts
<1>7. ASSUME NEW x \in DOMAIN g, x # c
      PROVE  /\ g[x].next = h[x].next /\ g[x].size = h[x].size
             /\ g[x].allocated = h[x].allocated
  <2>1. x \in DOMAIN h /\ x # d
    BY <1>5
  <2>2. g[x] = IF x = h[d].next THEN [h[x] EXCEPT !.prev = c] ELSE h[x]
    BY <1>7, <2>1 DEF Absorb
  <2> QED
    BY <1>1, <2>1, <2>2, ChunkFacts
<1>8. \A x \in DOMAIN g : g[x].allocated = h[x].allocated
  BY <1>6, <1>7
<1> QED
  BY <1>2, <1>3, <1>4, <1>5, <1>6, <1>7, <1>8

\* While free works on c: every other free chunk has c, an allocated chunk or
\* nothing behind it.
CoalescedBut(h, c) ==
  \A x \in DOMAIN h :
    x # c /\ ~h[x].allocated /\ h[x].next \notin {Null, c} => h[h[x].next].allocated

\* free keeps the invariant.
LEMMA FreeInv ==
  ASSUME HeapInv, NEW c \in Chunks, Free(c)
  PROVE  HeapInv'
<1> DEFINE f == [heap EXCEPT ![c].allocated = FALSE]
           m == MergeNext(f, c)
<1>1. WellFormed(f) /\ CoalescedBut(f, c) /\ c \in DOMAIN f /\ ~f[c].allocated
  <2>1. WellFormed(f)
    BY FlagKeeps, Zenon DEF HeapInv, Chunks
  <2>2. Typed(heap) /\ DOMAIN f = DOMAIN heap
    BY DEF HeapInv, WellFormed
  <2>3. \A x \in DOMAIN heap : f[x].next = heap[x].next
    BY <2>2, ChunkFacts
  <2>4. \A x \in DOMAIN heap : x # c => f[x] = heap[x]
    BY <2>2
  <2>5. c \in DOMAIN f /\ ~f[c].allocated
    BY <2>2, ChunkFacts DEF Chunks
  <2>6. \A x \in DOMAIN heap : heap[x].next # Null => heap[x].next \in DOMAIN heap
    BY DEF HeapInv, WellFormed, LinkedAt
  <2> HIDE DEF f
  <2>7. CoalescedBut(f, c)
    BY <2>2, <2>3, <2>4, <2>6, Zenon DEF CoalescedBut, HeapInv, Coalesced, Chunks
  <2> QED
    BY <2>1, <2>5, <2>7
<1> HIDE DEF f
<1>2. /\ WellFormed(m) /\ CoalescedBut(m, c) /\ c \in DOMAIN m /\ ~m[c].allocated
      /\ m[c].next # Null => m[m[c].next].allocated
  <2>0. f[c].next # Null => f[c].next \in DOMAIN f
    BY <1>1 DEF WellFormed, LinkedAt
  <2>1. CASE f[c].next # Null /\ ~f[f[c].next].allocated
    <3> DEFINE d == f[c].next
    <3>1. m = Absorb(f, c, d)
      BY <2>1 DEF MergeNext
    <3>2. WellFormed(m)
      BY <1>1, <2>1, <3>1, AbsorbKeeps
    <3>3. /\ d \in DOMAIN f /\ c # d /\ f[d].next # d /\ f[d].next # c
          /\ DOMAIN m = DOMAIN f \ {d} /\ m[c].next = f[d].next
          /\ \A x \in DOMAIN m : m[x].allocated = f[x].allocated
          /\ \A x \in DOMAIN m : x # c => m[x].next = f[x].next
      <4> HIDE DEF m, d
      <4>1. d = f[c].next
        BY DEF d
      <4> QED
        BY <1>1, <2>1, <3>1, <4>1, AbsorbFacts, SMTT(30)
    <3>4. \A x \in DOMAIN f : f[x].next # Null => f[x].next \in DOMAIN f
      BY <1>1 DEF WellFormed, LinkedAt
    <3> HIDE DEF m, d
    <3>5. c \in DOMAIN m /\ ~m[c].allocated
      BY <1>1, <3>3
    <3>6. ~f[d].allocated
      BY <2>1 DEF d
    <3>7. m[c].next # Null => m[m[c].next].allocated
      BY <1>1, <3>3, <3>4, <3>6 DEF CoalescedBut
    <3>8. CoalescedBut(m, c)
      BY <1>1, <3>3, <3>4, <3>6 DEF CoalescedBut
    <3> QED
      BY <3>2, <3>5, <3>7, <3>8
  <2>2. CASE ~(f[c].next # Null /\ ~f[f[c].next].allocated)
    <3>1. m = f
      BY <2>2 DEF MergeNext
    <3>2. f[c].next # Null => f[f[c].next].allocated
      BY <2>2
    <3> QED
      BY <1>1, <3>1, <3>2
  <2> QED
    BY <2>1, <2>2
<1>3. heap' = MergePrev(m, c)
  BY DEF Free, f
<1> HIDE DEF m
<1>4. \A x \in DOMAIN m : LinkedAt(m, x)
  BY <1>2 DEF WellFormed
<1>5. CASE m[c].prev # Null /\ ~m[m[c].prev].allocated
  <2> DEFINE p == m[c].prev
  <2>1. p \in DOMAIN m /\ m[p].next = c
    BY <1>2, <1>4, <1>5 DEF LinkedAt
  <2>2. c # Null
    BY <1>2, ChunkFacts DEF WellFormed, Null
  <2>3. heap' = Absorb(m, p, m[p].next)
    BY <1>3, <1>5, <2>1 DEF MergePrev
  <2>4. WellFormed(heap')
    BY <1>2, <2>1, <2>2, <2>3, AbsorbKeeps
  <2>5. /\ p # c /\ m[c].next # c /\ DOMAIN heap' = DOMAIN m \ {c}
        /\ heap'[p].next = m[c].next
        /\ \A x \in DOMAIN heap' : heap'[x].allocated = m[x].allocated
        /\ \A x \in DOMAIN heap' : x # p => heap'[x].next = m[x].next
    <3> DEFINE Merged(g) ==
          /\ p # c /\ m[c].next # c /\ DOMAIN g = DOMAIN m \ {c}
          /\ g[p].next = m[c].next
          /\ \A x \in DOMAIN g : g[x].allocated = m[x].allocated
          /\ \A x \in DOMAIN g : x # p => g[x].next = m[x].next
    <3>1. /\ WellFormed(m) /\ p \in DOMAIN m /\ m[p].next # Null /\ c = m[p].next
          /\ heap' = Absorb(m, p, c)
      BY <1>2, <2>1, <2>2, <2>3
    <3> HIDE DEF p
    <3>2. ASSUME NEW g, g = Absorb(m, p, c)
          PROVE  Merged(g)
      BY ONLY <3>1, <3>2, AbsorbFacts, SMTT(30) DEF Merged
    <3> HIDE DEF Merged
    <3>3. Merged(heap')
      BY ONLY <3>1, <3>2
    <3> QED
      BY ONLY <3>3 DEF Merged
  <2>6. \A x \in DOMAIN m : m[x].next # Null => m[x].next \in DOMAIN m
    BY <1>4 DEF LinkedAt
  <2>7. \A x \in DOMAIN m : m[x].next = c => x = p
    BY <1>4, <2>2 DEF LinkedAt
  <2> HIDE DEF p
  <2>8. ASSUME NEW x \in DOMAIN heap', ~heap'[x].allocated, heap'[x].next # Null
        PROVE  heap'[heap'[x].next].allocated
    <3>1. CASE x = p
      BY <1>2, <2>5, <2>6, <2>8, <3>1
    <3>2. CASE x # p
      BY <1>2, <2>5, <2>6, <2>7, <2>8, <3>2 DEF CoalescedBut
    <3> QED
      BY <3>1, <3>2
  <2> QED
    BY <2>4, <2>8 DEF HeapInv, Coalesced, Chunks
<1>6. CASE ~(m[c].prev # Null /\ ~m[m[c].prev].allocated)
  <2>1. heap' = m
    BY <1>3, <1>6 DEF MergePrev
  <2>2. c # Null
    BY <1>2, ChunkFacts DEF WellFormed, Null
  <2>3. ASSUME NEW x \in DOMAIN m, ~m[x].allocated, m[x].next # Null
        PROVE  m[m[x].next].allocated
    <3>1. CASE x = c
      BY <1>2, <2>3, <3>1
    <3>2. CASE x # c
      <4>1. m[x].next = c => m[c].prev = x /\ x # Null
        BY <1>2, <1>4, <2>2, ChunkFacts, SMTT(30) DEF LinkedAt, WellFormed, Null
      <4>2. m[x].next # c
        BY <1>6, <2>3, <4>1
      <4> QED
        BY <1>2, <2>3, <3>2, <4>2, Zenon DEF CoalescedBut
    <3> QED
      BY <3>1, <3>2
  <2> QED
    BY <1>2, <2>1, <2>3 DEF HeapInv, Coalesced, Chunks
<1> QED
  BY <1>5, <1>6

\* Every call to the heap keeps the invariant.
LEMMA NextHeap == HeapInv /\ [HeapNext]_heap => HeapInv'
<1> SUFFICES ASSUME HeapInv, [HeapNext]_heap PROVE HeapInv'
  OBVIOUS
<1>1. CASE UNCHANGED heap
  BY <1>1 DEF HeapInv, Coalesced, Chunks
<1> QED
  BY <1>1, MallocInv, FreeInv DEF HeapNext

\* The inductive invariant holds in every reachable state.
LEMMA HeapInvariance == HeapSpec => []HeapInv
BY InitHeap, NextHeap, PTL DEF HeapSpec

\* Every linked header is a chunk inside the heap.
THEOREM HeapTypeCorrect == HeapSpec => []HeapTypeOK
<1>1. HeapInv => HeapTypeOK
  BY DEF HeapInv, WellFormed, Typed, HeapTypeOK, Chunks
<1> QED
  BY <1>1, HeapInvariance, PTL

\* The list stays linked both ways, in address order, over the whole heap.
THEOREM AlwaysLinked == HeapSpec => []Linked
<1>1. HeapInv => Linked
  BY DEF HeapInv, WellFormed, LinkedAt, Linked, Chunks, End, EndOf
<1> QED
  BY <1>1, HeapInvariance, PTL

\* No two chunks ever share a byte.
THEOREM AlwaysDisjoint == HeapSpec => []ChunksDisjoint
<1>1. HeapInv => ChunksDisjoint
  BY DEF HeapInv, WellFormed, Apart, ChunksDisjoint, Chunks, End, EndOf
<1> QED
  BY <1>1, HeapInvariance, PTL

\* Two neighbouring chunks are never both free.
THEOREM AlwaysCoalesced == HeapSpec => []Coalesced
<1>1. HeapInv => Coalesced
  BY DEF HeapInv
<1> QED
  BY <1>1, HeapInvariance, PTL

\* malloc fails only when the request fits nowhere: the byte the request would
\* start at lies in a free chunk, and what follows that chunk is allocated.
THEOREM AlwaysComplete == HeapSpec => []MallocComplete
<1>1. HeapInv => MallocComplete
  <2> SUFFICES ASSUME HeapInv, NEW n \in Sizes, NEW a \in Addresses,
                      a + Header + n <= HeapSize,
                      \A c \in Chunks : heap[c].allocated
                                          => End(c) <= a \/ a + Header + n <= c
               PROVE  \E c \in Chunks : Fits(c, n)
    BY DEF MallocComplete
  <2>1. /\ WellFormed(heap) /\ Typed(heap) /\ \A x \in DOMAIN heap : LinkedAt(heap, x)
        /\ a \in Nat /\ n \in Nat /\ n > 0 /\ Header \in Nat /\ Header > 0
    BY HeapAssumption DEF HeapInv, WellFormed, Addresses
  <2>2. PICK c \in DOMAIN heap : c <= a /\ a < EndOf(heap, c)
    BY <2>1 DEF WellFormed, Covers
  <2>3. c \in Nat /\ EndOf(heap, c) \in Nat /\ heap[c].size \in Nat
    BY <2>1, <2>2, ChunkFacts, EndInHeap
  <2>4. ~heap[c].allocated
    BY <2>1, <2>2, <2>3 DEF Chunks, End, EndOf
  <2>5. a + Header + n <= EndOf(heap, c)
    <3>1. CASE heap[c].next = Null
      BY <2>1, <2>2, <3>1 DEF LinkedAt
    <3>2. CASE heap[c].next # Null
      <4> DEFINE d == heap[c].next
      <4>1. d \in DOMAIN heap /\ EndOf(heap, c) = d /\ heap[d].allocated
        BY <2>1, <2>2, <2>4, <3>2 DEF HeapInv, Coalesced, Chunks, LinkedAt
      <4> HIDE DEF d
      <4>2. d \in Nat /\ EndOf(heap, d) \in Nat /\ d < EndOf(heap, d)
        BY <2>1, <4>1, ChunkFacts, EndInHeap
      <4>3. EndOf(heap, d) <= a \/ a + Header + n <= d
        BY <4>1 DEF Chunks, End, EndOf
      <4> QED
        BY <2>1, <2>2, <4>1, <4>2, <4>3
    <3> QED
      BY <3>1, <3>2
  <2>6. heap[c].size >= n
    BY <2>1, <2>2, <2>3, <2>5 DEF EndOf
  <2> QED
    BY <2>2, <2>4, <2>6 DEF Fits, Chunks
<1> QED
  BY <1>1, HeapInvariance, PTL

-----------------------------------------------------------------------------
(***************************************************************************)
(* The heap implements the allocator.                                      *)
(***************************************************************************)

Allocated(h) == {x \in DOMAIN h : h[x].allocated}
Blocks(h) == {<<x + Header, h[x].size>> : x \in Allocated(h)}

\* Merging two free chunks touches no block.
LEMMA AbsorbBlocks ==
  ASSUME NEW h, WellFormed(h), NEW c \in DOMAIN h, h[c].next # Null,
         NEW d, d = h[c].next, ~h[c].allocated, ~h[d].allocated,
         NEW g, g = Absorb(h, c, d)
  PROVE  Blocks(g) = Blocks(h)
<1>1. /\ DOMAIN g = DOMAIN h \ {d}
      /\ \A x \in DOMAIN g : g[x].allocated = h[x].allocated
      /\ \A x \in DOMAIN g : x # c => g[x].next = h[x].next /\ g[x].size = h[x].size
  BY AbsorbFacts, SMTT(30)
<1>2. Allocated(g) = Allocated(h)
  BY <1>1 DEF Allocated
<1>3. \A x \in Allocated(h) : g[x].size = h[x].size
  BY <1>1 DEF Allocated
<1> QED
  BY <1>2, <1>3 DEF Blocks

\* free gives back exactly the block it was given.
LEMMA FreeBlocks ==
  ASSUME HeapInv, NEW c \in Chunks, Free(c)
  PROVE  /\ <<c + Header, heap[c].size>> \in Blocks(heap)
         /\ Blocks(heap') = Blocks(heap) \ {<<c + Header, heap[c].size>>}
<1> DEFINE f == [heap EXCEPT ![c].allocated = FALSE]
           m == MergeNext(f, c)
<1>1. Typed(heap) /\ c \in DOMAIN heap /\ heap[c].allocated
  BY DEF HeapInv, WellFormed, Chunks, Free
<1>2. WellFormed(f) /\ c \in DOMAIN f /\ ~f[c].allocated
  <2>1. WellFormed(f)
    BY <1>1, FlagKeeps, Zenon DEF HeapInv
  <2> QED
    BY <1>1, <2>1, ChunkFacts
<1>3. Blocks(f) = Blocks(heap) \ {<<c + Header, heap[c].size>>}
  <2>1. Allocated(f) = Allocated(heap) \ {c}
    BY <1>1, <1>2 DEF Allocated
  <2>2. \A x \in Allocated(f) : f[x].size = heap[x].size
    BY <1>1, <2>1 DEF Allocated
  <2>3. \A x \in Allocated(heap) : x + Header = c + Header => x = c
    BY <1>1, ChunkFacts, HeapAssumption DEF Allocated
  <2> HIDE DEF f
  <2> QED
    BY <2>1, <2>2, <2>3 DEF Blocks
<1>4. <<c + Header, heap[c].size>> \in Blocks(heap)
  BY <1>1 DEF Blocks, Allocated
<1> HIDE DEF f
<1>5. /\ Blocks(m) = Blocks(f) /\ WellFormed(m) /\ c \in DOMAIN m /\ ~m[c].allocated
  <2>1. CASE f[c].next # Null /\ ~f[f[c].next].allocated
    <3> DEFINE d == f[c].next
    <3>1. m = Absorb(f, c, d) /\ d = f[c].next
      BY <2>1 DEF MergeNext
    <3>2. f[c].next # Null /\ ~f[d].allocated
      BY <2>1
    <3> HIDE DEF m, d
    <3>3. /\ d \in DOMAIN f /\ c # d /\ f[d].next # d /\ f[d].next # c
          /\ DOMAIN m = DOMAIN f \ {d} /\ m[c].next = f[d].next
          /\ \A x \in DOMAIN m : m[x].allocated = f[x].allocated
          /\ \A x \in DOMAIN m : x # c => m[x].next = f[x].next
      <4>1. WellFormed(f) /\ c \in DOMAIN f /\ f[c].next # Null
        BY <1>2, <3>2
      <4> QED
        BY ONLY <3>1, <4>1, AbsorbFacts, SMTT(30)
    <3>4. Blocks(m) = Blocks(f) /\ WellFormed(m)
      BY <1>2, <3>1, <3>2, AbsorbBlocks, AbsorbKeeps, SMTT(30)
    <3>5. c \in DOMAIN m /\ ~m[c].allocated
      BY <1>2, <3>3, Zenon
    <3> QED
      BY <3>4, <3>5
  <2>2. CASE ~(f[c].next # Null /\ ~f[f[c].next].allocated)
    BY <1>2, <2>2 DEF MergeNext
  <2> QED
    BY <2>1, <2>2
<1>6. heap' = MergePrev(m, c)
  BY DEF Free, f
<1> HIDE DEF m
<1>7. Blocks(heap') = Blocks(m)
  <2>1. CASE m[c].prev # Null /\ ~m[m[c].prev].allocated
    <3> DEFINE p == m[c].prev
    <3>1. p \in DOMAIN m /\ m[p].next = c /\ c # Null
      <4>1. Typed(m) /\ LinkedAt(m, c)
        BY <1>5 DEF WellFormed
      <4>2. p \in DOMAIN m /\ m[p].next = c
        BY <2>1, <4>1 DEF LinkedAt
      <4>3. c # Null
        BY <1>5, <4>1, ChunkFacts DEF Null
      <4> QED
        BY <4>2, <4>3
    <3>2. heap' = Absorb(m, p, c) /\ ~m[p].allocated
      BY <1>6, <2>1 DEF MergePrev
    <3> HIDE DEF p
    <3> QED
      BY <1>5, <3>1, <3>2, AbsorbBlocks
  <2>2. CASE ~(m[c].prev # Null /\ ~m[m[c].prev].allocated)
    BY <1>6, <2>2 DEF MergePrev
  <2> QED
    BY <2>1, <2>2
<1> QED
  BY <1>3, <1>4, <1>5, <1>7

\* A successful malloc adds one block, of the requested size at least, that
\* overlaps no other.
LEMMA MallocBlocks ==
  ASSUME HeapInv, NEW n \in Sizes, NEW c \in Chunks, Fits(c, n),
         \/ heap[c].size > n + Header /\ Split(c, n)
         \/ heap' = [heap EXCEPT ![c].allocated = TRUE]
  PROVE  \E length \in 1..HeapSize :
           /\ length >= n
           /\ c + Header + length <= HeapSize
           /\ \A b \in Blocks(heap) : Promise!Disjoint(b, <<c + Header, length>>)
           /\ Blocks(heap') = Blocks(heap) \cup {<<c + Header, length>>}
<1>1. WellFormed(heap) /\ Typed(heap) /\ c \in DOMAIN heap /\ ~heap[c].allocated
  BY DEF HeapInv, WellFormed, Chunks, Fits
<1>2. /\ c \in Nat /\ heap[c].size \in Nat /\ heap[c].size >= n /\ heap[c].size > 0
      /\ n \in Nat /\ n > 0 /\ Header \in Nat /\ heap[c].size <= HeapSize
      /\ HeapSize \in Nat
  BY <1>1, ChunkFacts, HeapAssumption DEF Fits
<1>3. EndOf(heap, c) <= HeapSize
  BY <1>1, EndInHeap
<1>4. ASSUME NEW length \in Nat, length <= heap[c].size, NEW b \in Blocks(heap)
      PROVE  Promise!Disjoint(b, <<c + Header, length>>)
  <2>1. PICK d \in Allocated(heap) : b = <<d + Header, heap[d].size>>
    BY DEF Blocks
  <2>2. d \in DOMAIN heap /\ d # c /\ d \in Nat /\ heap[d].size \in Nat
    BY <1>1, <2>1, ChunkFacts DEF Allocated
  <2>3. (d < c /\ EndOf(heap, d) <= c) \/ (c < d /\ EndOf(heap, c) <= d)
    BY <1>1, <1>2, <2>2 DEF WellFormed, Apart
  <2>4. b[1] = d + Header /\ b[2] = heap[d].size
    BY <2>1
  <2> QED
    BY <1>2, <1>4, <2>2, <2>3, <2>4 DEF Promise!Disjoint, EndOf
<1>5. CASE heap[c].size > n + Header /\ Split(c, n)
  <2> DEFINE new == c + Header + n
  <2>1. new \notin DOMAIN heap /\ new # c
    <3>1. new < EndOf(heap, c) /\ c < new /\ new \in Nat /\ EndOf(heap, c) \in Nat
      BY <1>2, <1>5, HeapAssumption DEF EndOf
    <3> HIDE DEF new
    <3> QED
      BY <1>1, <1>2, <3>1 DEF WellFormed, Apart
  <2>2. DOMAIN heap' = DOMAIN heap \cup {new} /\ ~heap'[new].allocated
    BY <1>5 DEF Split, Chunks
  <2>3. heap'[c].allocated /\ heap'[c].size = n
    <3>1. heap'[c] = [heap[c] EXCEPT !.next = new, !.size = n, !.allocated = TRUE]
      BY <1>1, <1>5, <2>1 DEF Split, Chunks
    <3> QED
      BY <1>1, <3>1, ChunkFacts
  <2>4. \A x \in DOMAIN heap : x # c => /\ heap'[x].allocated = heap[x].allocated
                                        /\ heap'[x].size = heap[x].size
    <3> SUFFICES ASSUME NEW x \in DOMAIN heap, x # c
                 PROVE  /\ heap'[x].allocated = heap[x].allocated
                        /\ heap'[x].size = heap[x].size
      OBVIOUS
    <3>1. heap'[x] = IF x = heap[c].next THEN [heap[x] EXCEPT !.prev = new] ELSE heap[x]
      BY <1>5, <2>1 DEF Split, Chunks
    <3> QED
      BY <1>1, <3>1, ChunkFacts
  <2> HIDE DEF new
  <2>5. Allocated(heap') = Allocated(heap) \cup {c}
    BY <1>1, <2>1, <2>2, <2>3, <2>4 DEF Allocated
  <2>6. \A x \in Allocated(heap) : heap'[x].size = heap[x].size
    BY <1>1, <2>4 DEF Allocated
  <2>7. Blocks(heap') = Blocks(heap) \cup {<<c + Header, n>>}
    BY <2>3, <2>5, <2>6 DEF Blocks
  <2>8. n \in 1..HeapSize /\ c + Header + n <= HeapSize
    BY <1>2, <1>3 DEF EndOf
  <2> QED
    BY <1>2, <1>4, <2>7, <2>8
<1>6. CASE heap' = [heap EXCEPT ![c].allocated = TRUE]
  <2>1. DOMAIN heap' = DOMAIN heap /\ heap'[c].allocated /\ heap'[c].size = heap[c].size
    BY <1>1, <1>6, ChunkFacts
  <2>2. \A x \in DOMAIN heap : x # c => heap'[x] = heap[x]
    BY <1>6
  <2>3. Allocated(heap') = Allocated(heap) \cup {c}
    BY <1>1, <2>1, <2>2 DEF Allocated
  <2>4. \A x \in Allocated(heap) : heap'[x].size = heap[x].size
    BY <1>1, <2>2 DEF Allocated
  <2>5. Blocks(heap') = Blocks(heap) \cup {<<c + Header, heap[c].size>>}
    BY <2>1, <2>3, <2>4 DEF Blocks
  <2>6. heap[c].size \in 1..HeapSize /\ c + Header + heap[c].size <= HeapSize
    BY <1>2, <1>3 DEF EndOf
  <2> QED
    BY <1>2, <1>4, <2>5, <2>6
<1> QED
  BY <1>5, <1>6, Zenon

\* operator new and delete keep the promise of Allocator: every malloc that
\* succeeds and every free is a step of it, a malloc that fails is none.
THEOREM HeapImplementsAllocator == HeapSpec => ImplementsAllocator
<1>1. LiveBlocks = Blocks(heap) /\ LiveBlocks' = Blocks(heap')
  BY DEF LiveBlocks, Blocks, Allocated, Chunks
<1>2. HeapInit => Promise!Init
  <2> SUFFICES ASSUME HeapInit PROVE Blocks(heap) = {}
    BY <1>1 DEF Promise!Init
  <2>1. Allocated(heap) = {}
    BY DEF HeapInit, Allocated
  <2> QED
    BY <2>1 DEF Blocks
<1>3. HeapInv /\ [HeapNext]_heap => [Promise!Next]_LiveBlocks
  <2> SUFFICES ASSUME HeapInv, [HeapNext]_heap PROVE Promise!Next \/ LiveBlocks' = LiveBlocks
    OBVIOUS
  <2>1. CASE heap' = heap
    BY <1>1, <2>1
  <2>2. ASSUME NEW n \in Sizes, NEW c \in Chunks, Fits(c, n),
               \/ heap[c].size > n + Header /\ Split(c, n)
               \/ heap' = [heap EXCEPT ![c].allocated = TRUE]
        PROVE  Promise!Next
    <3>1. PICK length \in 1..HeapSize :
            /\ length >= n
            /\ c + Header + length <= HeapSize
            /\ \A b \in Blocks(heap) : Promise!Disjoint(b, <<c + Header, length>>)
            /\ Blocks(heap') = Blocks(heap) \cup {<<c + Header, length>>}
      BY <2>2, MallocBlocks, Zenon
    <3>2. c + Header \in 1..HeapSize
      <4>1. c \in Nat
        BY ChunkFacts DEF HeapInv, WellFormed, Chunks
      <4> QED
        BY <3>1, <4>1, HeapAssumption
    <3> QED
      BY <1>1, <3>1, <3>2 DEF Promise!Next, Promise!Allocate
  <2>3. ASSUME NEW c \in Chunks, Free(c) PROVE Promise!Next
    BY <1>1, <2>3, FreeBlocks, Zenon DEF Promise!Next, Promise!Release
  <2> QED
    BY <2>1, <2>2, <2>3 DEF HeapNext, Malloc, Take, IsFirstFit
<1> QED
  BY <1>2, <1>3, HeapInvariance, PTL DEF HeapSpec, ImplementsAllocator, Promise!Spec

-----------------------------------------------------------------------------
(***************************************************************************)
(* The processes.                                                          *)
(***************************************************************************)

\* Exit marks its process DEAD before anything else, so a thread past that
\* statement belongs to a DEAD process.
ExitedIsDead ==
  \A p \in Slots : pc[p] \in {"e_wake", "e_sched", "e_switch"} => state[p] = "DEAD"

\* Slots at and after process_count are empty, and the active slot is not one.
EmptySlots ==
  /\ \A i \in Slots : i > process_count => state[i] = "NULL"
  /\ current_index <= process_count

\* waitpid holds the slot FindProcess returned.
WaitTargets ==
  \A p \in Slots : pc[p] \in WaitPoints => loc[p] \in Slots

\* The TSS and CR3 follow current_index.
SpaceFollows == tss = current_index /\ cr3 = current_index

\* Between the two halves of exit's switch the active process is the one
\* Schedule has just promoted.
MarkedRuns ==
  cpu # current_index => current_index \in Slots /\ state[current_index] = "RUNNING"

\* The inductive invariant.
Inv ==
  /\ TypeOK
  /\ ActiveIsCaller
  /\ RunningIsCurrent
  /\ ExitedIsDead
  /\ EmptySlots
  /\ WaitTargets
  /\ SpaceFollows
  /\ MarkedRuns

-----------------------------------------------------------------------------
\* A remainder lies below its divisor: Schedule's index stays in the table.
LEMMA ModRange ==
  ASSUME NEW x \in Int, NEW n \in Nat \ {0}
  PROVE  x % n \in 0..(n - 1)
OBVIOUS

\* The slot Schedule probes is a slot in use (scheduler.cpp:51).
LEMMA SlotInTable ==
  ASSUME TypeOK, NEW turn \in 1..process_count
  PROVE  Slot(turn) \in 1..process_count
<1>1. current_index - 1 + turn \in Int
  BY DEF TypeOK
<1>2. (current_index - 1 + turn) % process_count \in 0..(process_count - 1)
  BY <1>1, ModRange DEF TypeOK
<1> QED
  BY <1>2 DEF Slot, TypeOK

\* The initial state of kernelMain satisfies the invariant.
LEMMA InitInv == Init => Inv
<1> SUFFICES ASSUME Init PROVE Inv
  OBVIOUS
<1> USE SchedulerAssumption DEF Init, Slots
<1>1. TypeOK
  <2>1. /\ process_count \in Nat \ {0} /\ kb \in 0..KbCap
        /\ current_index \in 0..MaxProcs /\ cpu \in 0..MaxProcs
        /\ tss \in 0..MaxProcs /\ cr3 \in 0..MaxProcs
    OBVIOUS
  <2>2. /\ state \in [Slots -> {"NULL", "RUNNING", "READY", "BLOCKED", "DEAD"}]
        /\ saved \in [Slots -> Frames] /\ pc \in [Slots -> Points]
    BY DEF Frames, Points
  <2>3. /\ pid \in [Slots -> PidRange] /\ loc \in [Slots -> PidRange]
        /\ wait_pid \in [Slots -> PidRange \cup {NoWait, KeyWait, NetWait}]
        /\ ticks \in [Slots -> 0..WaitTicks]
    BY DEF PidRange
  <2>4. rx \in BOOLEAN
    BY Zenon
  <2> QED
    BY <2>1, <2>2, <2>3, <2>4, Zenon DEF TypeOK
<1>2. ActiveIsCaller /\ RunningIsCurrent /\ EmptySlots /\ SpaceFollows /\ MarkedRuns
  BY DEF ActiveIsCaller, RunningIsCurrent, EmptySlots, SpaceFollows, MarkedRuns
<1>3. ExitedIsDead /\ WaitTargets
  BY DEF ExitedIsDead, WaitTargets, WaitPoints
<1> QED
  BY <1>1, <1>2, <1>3 DEF Inv

-----------------------------------------------------------------------------
\* The process a system call finds with GetActive() is the caller, and it is in
\* the table.
LEMMA Caller ==
  ASSUME Inv, NEW p \in Slots, cpu = p, pc[p] # "e_switch"
  PROVE  current_index = p /\ p <= process_count /\ tss = p /\ cr3 = p
BY SchedulerAssumption
   DEF Inv, ActiveIsCaller, EmptySlots, SpaceFollows, Slots


States == {"NULL", "RUNNING", "READY", "BLOCKED", "DEAD"}
WaitIds == PidRange \cup {NoWait, KeyWait, NetWait}

\* A statement of a system call that moves its own thread to a point of the
\* code and gives its own process the state s.
LEMMA OwnStep ==
  ASSUME Inv, NEW p \in Slots, cpu = p, pc[p] # "e_switch",
         NEW to \in Points, to # "e_switch", pc' = [pc EXCEPT ![p] = to],
         NEW s \in States, state' = [state EXCEPT ![p] = s],
         to \in {"e_wake", "e_sched"} => s = "DEAD",
         to \in WaitPoints => loc'[p] \in Slots,
         loc' \in [Slots -> PidRange],
         \A q \in Slots : q # p => loc'[q] = loc[q],
         wait_pid' \in [Slots -> WaitIds],
         ticks' \in [Slots -> 0..WaitTicks], kb' \in 0..KbCap, rx' \in BOOLEAN,
         UNCHANGED <<table, sched>>
  PROVE  Inv'
<1> USE SchedulerAssumption DEF table, sched, space
<1>1. TypeOK'
  BY Zenon DEF Inv, TypeOK, States, WaitIds
<1>2. ActiveIsCaller' /\ SpaceFollows' /\ MarkedRuns'
  BY Caller, Zenon DEF ActiveIsCaller, SpaceFollows, MarkedRuns
<1>3. RunningIsCurrent'
  BY Caller, Zenon DEF Inv, TypeOK, RunningIsCurrent
<1>4. EmptySlots'
  BY Caller, SMTT(20) DEF Inv, TypeOK, EmptySlots, Slots
<1>5. ExitedIsDead'
  BY DEF Inv, TypeOK, ExitedIsDead
<1>6. WaitTargets'
  BY DEF Inv, TypeOK, WaitTargets
<1> QED
  BY <1>1, <1>2, <1>3, <1>4, <1>5, <1>6 DEF Inv

\* The same for a statement that leaves every process state alone.
LEMMA QuietStep ==
  ASSUME Inv, NEW p \in Slots, cpu = p, pc[p] # "e_switch",
         NEW to \in Points, to # "e_switch", pc' = [pc EXCEPT ![p] = to],
         state' = state,
         to \in {"e_wake", "e_sched"} => state[p] = "DEAD",
         to \in WaitPoints => loc'[p] \in Slots,
         loc' \in [Slots -> PidRange],
         \A q \in Slots : q # p => loc'[q] = loc[q],
         wait_pid' \in [Slots -> WaitIds],
         ticks' \in [Slots -> 0..WaitTicks], kb' \in 0..KbCap, rx' \in BOOLEAN,
         UNCHANGED <<table, sched>>
  PROVE  Inv'
<1>1. state[p] \in States /\ state' = [state EXCEPT ![p] = state[p]]
  BY DEF Inv, TypeOK, States
<1> QED
  BY <1>1, OwnStep, Zenon

\* What the type invariant says about the parts a system call may leave alone.
LEMMA Types ==
  ASSUME Inv
  PROVE  /\ loc \in [Slots -> PidRange] /\ wait_pid \in [Slots -> WaitIds]
         /\ ticks \in [Slots -> 0..WaitTicks] /\ kb \in 0..KbCap
         /\ rx \in BOOLEAN /\ pid \in [Slots -> PidRange]
BY DEF Inv, TypeOK, WaitIds

AllPoints == {"user", "work", "wild", "r_test", "r_block", "r_wait", "r_loop",
  "r_cli", "r_deq", "w_block", "w_wait", "w_loop", "w_cli", "n_block", "n_wait",
  "n_loop", "n_cli", "n_take", "x_pid", "x_check", "x_store", "e_dead", "e_wake",
  "e_sched", "e_switch"}

\* The points of the code, listed.
LEMMA PointsAre == Points = AllPoints
BY DEF Points, AllPoints, ReadPoints, WaitPoints, NetPoints, ExecPoints, ExitPoints

\* Entering a system call (the ring 3 to ring 0 transition of int 0x80).
LEMMA EnterInv ==
  ASSUME Inv, NEW p \in Slots, Enter(p)
  PROVE  Inv'
<1> USE SchedulerAssumption DEF At, Goto, devices
<1>1. cpu = p /\ pc[p] = "user" /\ UNCHANGED <<table, sched, state, wait_pid, kb, rx>>
  BY DEF Enter
<1>2. CASE \E to \in {"work", "r_test", "x_pid", "e_dead"} :
             Goto(p, to) /\ UNCHANGED <<loc, ticks>>
  <2>1. PICK to \in {"work", "r_test", "x_pid", "e_dead"} :
             Goto(p, to) /\ UNCHANGED <<loc, ticks>>
    BY <1>2, Zenon
  <2>2. to \in Points /\ to \notin WaitPoints /\ to \notin {"e_wake", "e_sched", "e_switch"}
    BY <2>1, PointsAre DEF AllPoints, WaitPoints
  <2> QED
    BY <1>1, <2>1, <2>2, Types, QuietStep, Zenon
<1>3. CASE Goto(p, "w_block") /\ ticks' = ticks
             /\ \E target \in Slots : loc' = [loc EXCEPT ![p] = target]
  <2>1. loc' \in [Slots -> PidRange] /\ loc'[p] \in Slots
        /\ \A q \in Slots : q # p => loc'[q] = loc[q]
    <3>1. PICK target \in Slots : loc' = [loc EXCEPT ![p] = target]
      BY <1>3, Zenon
    <3>2. target \in PidRange
      BY <3>1 DEF PidRange, Slots
    <3> QED
      BY <3>1, <3>2, Types
  <2>2. "w_block" \in Points
    BY PointsAre DEF AllPoints
  <2> QED
    BY <1>1, <1>3, <2>1, <2>2, Types, QuietStep, Zenon
<1>4. CASE ticks' = [ticks EXCEPT ![p] = WaitTicks] /\ loc' = loc
             /\ \E to \in {"n_take", "n_block"} : Goto(p, to)
  <2>1. PICK to \in {"n_take", "n_block"} : Goto(p, to)
    BY <1>4, Zenon
  <2>2. to \in Points /\ to \notin WaitPoints /\ to \notin {"e_wake", "e_sched", "e_switch"}
    BY <2>1, PointsAre DEF AllPoints, WaitPoints
  <2>3. ticks' \in [Slots -> 0..WaitTicks]
    BY <1>4, Types
  <2> QED
    BY <1>1, <1>4, <2>1, <2>2, <2>3, Types, QuietStep, Zenon
<1> QED
  BY <1>2, <1>3, <1>4 DEF Enter

\* Statements that every blocking system call shares.
LEMMA SetStateInv ==
  ASSUME Inv, NEW p \in Slots, NEW from \in Points, NEW s \in States,
         NEW to \in Points, SetState(p, from, s, to),
         from # "e_switch", to # "e_switch",
         to \in {"e_wake", "e_sched"} => s = "DEAD",
         to \in WaitPoints => from \in WaitPoints
  PROVE  Inv'
<1> USE SchedulerAssumption DEF SetState, At, Goto, devices
<1>1. cpu = p /\ pc[p] = from /\ current_index = p
  BY Caller
<1>2. to \in WaitPoints => loc'[p] \in Slots
  BY <1>1 DEF Inv, WaitTargets
<1> QED
  BY <1>1, <1>2, Types, OwnStep, Zenon

\* The same for the statement that records what the process waits for.
LEMMA SetWaitInv ==
  ASSUME Inv, NEW p \in Slots, NEW from \in Points, NEW id \in WaitIds,
         NEW to \in Points, SetWait(p, from, id, to),
         from # "e_switch", to \notin {"e_wake", "e_sched", "e_switch"},
         to \in WaitPoints => from \in WaitPoints
  PROVE  Inv'
<1> USE SchedulerAssumption DEF SetWait, At, Goto, devices
<1>1. cpu = p /\ pc[p] = from /\ current_index = p
  BY Caller
<1>2. to \in WaitPoints => loc'[p] \in Slots
  BY <1>1 DEF Inv, WaitTargets
<1>3. wait_pid' \in [Slots -> WaitIds]
  BY Types, Zenon
<1> QED
  BY <1>1, <1>2, <1>3, Types, QuietStep, Zenon

\* The same for leaving the hlt loop.
LEMMA LeaveLoopInv ==
  ASSUME Inv, NEW p \in Slots, NEW from \in Points, NEW cond,
         NEW to \in Points, LeaveLoop(p, from, cond, to),
         from # "e_switch", to \notin {"e_wake", "e_sched", "e_switch"},
         to \in WaitPoints => from \in WaitPoints
  PROVE  Inv'
<1> USE SchedulerAssumption DEF LeaveLoop, At, Goto, devices
<1>1. cpu = p /\ pc[p] = from
  OBVIOUS
<1>2. to \in WaitPoints => loc'[p] \in Slots
  BY <1>1 DEF Inv, WaitTargets
<1> QED
  BY <1>1, <1>2, Types, QuietStep, Zenon

\* sys_read.
LEMMA ReadInv ==
  ASSUME Inv, NEW p \in Slots, SysRead(p)
  PROVE  Inv'
<1> USE SchedulerAssumption, PointsAre, Types DEF AllPoints, At, Goto, devices
<1>1. CASE ReadTest(p)
  <2>1. PICK to \in {"r_block", "r_deq"} : pc' = [pc EXCEPT ![p] = to]
    BY <1>1, Zenon DEF ReadTest
  <2> QED
    BY <1>1, <2>1, QuietStep, Zenon DEF ReadTest, WaitPoints
<1>2. CASE SetState(p, "r_block", "BLOCKED", "r_wait")
  <2>1. /\ "r_block" \in Points /\ "r_wait" \in Points /\ "BLOCKED" \in States
        /\ "r_wait" \notin WaitPoints
    BY DEF States, WaitPoints
  <2> QED
    BY ONLY Inv, p \in Slots, <1>2, <2>1, SetStateInv
<1>3. CASE SetWait(p, "r_wait", KeyWait, "r_loop")
  <2>1. /\ "r_wait" \in Points /\ "r_loop" \in Points /\ KeyWait \in WaitIds
        /\ "r_loop" \notin WaitPoints
    BY DEF WaitIds, WaitPoints
  <2> QED
    BY ONLY Inv, p \in Slots, <1>3, <2>1, SetWaitInv
<1>4. CASE LeaveLoop(p, "r_loop", kb > 0, "r_cli")
  <2>1. "r_loop" \in Points /\ "r_cli" \in Points /\ "r_cli" \notin WaitPoints
    BY DEF WaitPoints
  <2> QED
    BY ONLY Inv, p \in Slots, <1>4, <2>1, LeaveLoopInv
<1>5. CASE ReadTail(p)
  <2>1. wait_pid' \in [Slots -> WaitIds] /\ kb' \in 0..KbCap
    BY <1>5 DEF ReadTail, Unblock, WaitIds
  <2> QED
    BY <1>5, <2>1, OwnStep, Zenon DEF ReadTail, Unblock, States, WaitPoints
<1>6. CASE ReadDequeue(p)
  <2>1. kb' \in 0..KbCap
    BY <1>6 DEF ReadDequeue
  <2>2. PICK to \in {"r_deq", "user"} : pc' = [pc EXCEPT ![p] = to]
    BY <1>6, Zenon DEF ReadDequeue, Inv, TypeOK
  <2> QED
    BY <1>6, <2>1, <2>2, QuietStep, Zenon DEF ReadDequeue, WaitPoints
<1> QED
  BY <1>1, <1>2, <1>3, <1>4, <1>5, <1>6 DEF SysRead

\* sys_waitpid.
LEMMA WaitpidInv ==
  ASSUME Inv, NEW p \in Slots, SysWaitpid(p)
  PROVE  Inv'
<1> USE SchedulerAssumption, PointsAre, Types DEF AllPoints, At, Goto, devices
<1>1. CASE SetState(p, "w_block", "BLOCKED", "w_wait")
  <2>1. /\ "w_block" \in Points /\ "w_wait" \in Points /\ "BLOCKED" \in States
        /\ "w_block" \in WaitPoints
    BY DEF States, WaitPoints
  <2> QED
    BY ONLY Inv, p \in Slots, <1>1, <2>1, SetStateInv
<1>2. CASE At(p, "w_wait") /\ SetWait(p, "w_wait", pid[loc[p]], "w_loop")
  <2>1. pid[loc[p]] \in WaitIds
    BY <1>2 DEF Inv, WaitTargets, WaitPoints, WaitIds
  <2>2. "w_wait" \in Points /\ "w_loop" \in Points /\ "w_wait" \in WaitPoints
    BY DEF WaitPoints
  <2> QED
    BY ONLY Inv, p \in Slots, <1>2, <2>1, <2>2, SetWaitInv, Zenon
<1>3. CASE At(p, "w_loop") /\ LeaveLoop(p, "w_loop", state[loc[p]] = "DEAD", "w_cli")
  <2>1. "w_loop" \in Points /\ "w_cli" \in Points /\ "w_loop" \in WaitPoints
    BY DEF WaitPoints
  <2> QED
    BY ONLY Inv, p \in Slots, <1>3, <2>1, LeaveLoopInv
<1>4. CASE WaitpidTail(p)
  <2>1. wait_pid' \in [Slots -> WaitIds]
    BY <1>4 DEF WaitpidTail, Unblock, WaitIds
  <2> QED
    BY <1>4, <2>1, OwnStep, Zenon DEF WaitpidTail, Unblock, States, WaitPoints
<1> QED
  BY <1>1, <1>2, <1>3, <1>4 DEF SysWaitpid

\* The network waits.
LEMMA NetInv ==
  ASSUME Inv, NEW p \in Slots, SysNet(p)
  PROVE  Inv'
<1> USE SchedulerAssumption, PointsAre, Types DEF AllPoints, At, Goto, devices
<1>1. CASE SetState(p, "n_block", "BLOCKED", "n_wait")
  <2>1. /\ "n_block" \in Points /\ "n_wait" \in Points /\ "BLOCKED" \in States
        /\ "n_wait" \notin WaitPoints
    BY DEF States, WaitPoints
  <2> QED
    BY ONLY Inv, p \in Slots, <1>1, <2>1, SetStateInv
<1>2. CASE SetWait(p, "n_wait", NetWait, "n_loop")
  <2>1. /\ "n_wait" \in Points /\ "n_loop" \in Points /\ NetWait \in WaitIds
        /\ "n_loop" \notin WaitPoints
    BY DEF WaitIds, WaitPoints
  <2> QED
    BY ONLY Inv, p \in Slots, <1>2, <2>1, SetWaitInv
<1>3. CASE LeaveLoop(p, "n_loop", rx \/ ticks[p] = 0, "n_cli")
  <2>1. "n_loop" \in Points /\ "n_cli" \in Points /\ "n_cli" \notin WaitPoints
    BY DEF WaitPoints
  <2> QED
    BY ONLY Inv, p \in Slots, <1>3, <2>1, LeaveLoopInv
<1>4. CASE NetTail(p)
  <2>1. wait_pid' \in [Slots -> WaitIds] /\ rx' \in BOOLEAN
    BY <1>4, Zenon DEF NetTail, Unblock, WaitIds
  <2> QED
    BY <1>4, <2>1, OwnStep, Zenon DEF NetTail, Unblock, States, WaitPoints
<1>5. CASE NetTake(p)
  <2>1. rx' \in BOOLEAN
    BY <1>5, Zenon DEF NetTake
  <2> QED
    BY <1>5, <2>1, QuietStep, Zenon DEF NetTake, WaitPoints
<1> QED
  BY <1>1, <1>2, <1>3, <1>4, <1>5 DEF SysNet

\* A system call that touches no process.
LEMMA WorkInv ==
  ASSUME Inv, NEW p \in Slots, Work(p)
  PROVE  Inv'
<1> USE SchedulerAssumption, PointsAre, Types DEF AllPoints, At, Goto, devices
<1> QED
  BY QuietStep, Zenon DEF Work, WaitPoints

\* sys_exec: NextPID, AddProcess's check, AddProcess's store.
LEMMA ExecInv ==
  ASSUME Inv, NEW p \in Slots, SysExec(p)
  PROVE  Inv'
<1> USE SchedulerAssumption, PointsAre, Types DEF AllPoints, At, Goto, devices
<1>1. CASE ExecPid(p)
  <2>1. PICK n \in PidRange : loc' = [loc EXCEPT ![p] = n]
    BY <1>1, Zenon DEF ExecPid
  <2>2. loc' \in [Slots -> PidRange] /\ \A q \in Slots : q # p => loc'[q] = loc[q]
    BY <2>1
  <2> QED
    BY <1>1, <2>2, QuietStep, Zenon DEF ExecPid, WaitPoints
<1>2. CASE ExecCheck(p)
  <2>1. PICK to \in {"user", "x_store"} : pc' = [pc EXCEPT ![p] = to]
    BY <1>2, Zenon DEF ExecCheck
  <2> QED
    BY <1>2, <2>1, QuietStep, Zenon DEF ExecCheck, WaitPoints
<1>3. CASE ExecStore(p)
  <2> DEFINE new == process_count + 1
  <2>1. cpu = p /\ pc[p] = "x_store" /\ current_index = p /\ p <= process_count
    BY <1>3, Caller DEF ExecStore
  <2>2. /\ process_count' = new /\ pc' = [pc EXCEPT ![p] = "user"]
        /\ UNCHANGED <<sched, wait_pid, loc, ticks, devices>>
    BY <1>3 DEF ExecStore
  <2>3. new \in Nat /\ new > process_count /\ new # p
    <3>1. process_count \in Nat /\ p \in Nat
      BY ONLY Inv, p \in Slots DEF Inv, TypeOK, Slots
    <3> QED
      BY ONLY <2>1, <3>1
  <2>4. \A i \in Slots : i # new => state'[i] = state[i] /\ pid'[i] = pid[i]
    BY <1>3 DEF ExecStore, Inv, TypeOK
  <2>5. /\ state' \in [Slots -> States] /\ pid' \in [Slots -> PidRange]
        /\ new \in Slots => state'[new] = "READY" /\ state[new] = "NULL"
    <3>1. /\ state \in [Slots -> States] /\ pid \in [Slots -> PidRange]
          /\ loc[p] \in PidRange /\ "READY" \in States
      BY Types DEF Inv, TypeOK, States
    <3>2. new \in Slots => state[new] = "NULL"
      BY ONLY Inv, <2>3 DEF Inv, EmptySlots
    <3> HIDE DEF new
    <3>3. IF new \in Slots THEN /\ state' = [state EXCEPT ![new] = "READY"]
                                /\ pid' = [pid EXCEPT ![new] = loc[p]]
                           ELSE state' = state /\ pid' = pid
      BY ONLY <1>3, Zenon DEF ExecStore, new
    <3> QED
      BY ONLY <3>1, <3>2, <3>3, Zenon
  <2>6. TypeOK'
    <3>1. pc' \in [Slots -> Points] /\ process_count' \in Nat \ {0}
      <4>1. pc \in [Slots -> Points] /\ process_count \in Nat \ {0} /\ "user" \in Points
        BY DEF Inv, TypeOK
      <4>2. process_count' \in Nat \ {0}
        BY ONLY <2>2, <4>1
      <4> QED
        BY ONLY <2>2, <4>1, <4>2
    <3> QED
      BY ONLY Inv, <2>2, <2>5, <3>1 DEF Inv, TypeOK, States, sched, space, devices
  <2>7. ActiveIsCaller' /\ SpaceFollows' /\ MarkedRuns'
    BY <2>1, <2>2 DEF Inv, ActiveIsCaller, SpaceFollows, MarkedRuns, sched, space
  <2>8. RunningIsCurrent'
    BY <2>2, <2>4, <2>5 DEF Inv, RunningIsCurrent, sched
  <2>9. EmptySlots'
    <3>1. /\ \A i \in Slots : i > process_count => state[i] = "NULL"
          /\ process_count \in Nat /\ current_index' = p /\ p \in Nat
      BY ONLY Inv, p \in Slots, <2>1, <2>2, SMTT(20) DEF Inv, TypeOK, EmptySlots, sched, Slots
    <3>2. \A i \in Slots : i > process_count' => i > process_count /\ i # new
      BY ONLY <2>2, <3>1 DEF Slots
    <3>3. current_index' <= process_count'
      BY ONLY <2>1, <2>2, <3>1
    <3> QED
      BY ONLY <2>4, <3>1, <3>2, <3>3, Zenon DEF EmptySlots
  <2>10. ExitedIsDead'
    BY <2>2, <2>4, <2>5, Zenon DEF Inv, TypeOK, ExitedIsDead
  <2>11. WaitTargets'
    BY <2>2 DEF Inv, TypeOK, WaitTargets, WaitPoints
  <2> QED
    BY <2>6, <2>7, <2>8, <2>9, <2>10, <2>11 DEF Inv
<1> QED
  BY <1>1, <1>2, <1>3 DEF SysExec

\* WakeParent turns BLOCKED processes into READY ones and touches no other.
LEMMA WakeFacts ==
  ASSUME Inv, NEW id, WakeParent(id)
  PROVE  /\ state' \in [Slots -> States] /\ wait_pid' \in [Slots -> WaitIds]
         /\ \A i \in Slots : state'[i] = state[i]
                               \/ (state[i] = "BLOCKED" /\ state'[i] = "READY")
<1>1. state \in [Slots -> States] /\ wait_pid \in [Slots -> WaitIds]
  BY Types DEF Inv, TypeOK, States
<1>2. state' \in [Slots -> States]
  BY <1>1 DEF WakeParent, States
<1>3. wait_pid' \in [Slots -> WaitIds]
  BY <1>1, Zenon DEF WakeParent, WaitIds
<1>4. \A i \in Slots : state'[i] = state[i]
                         \/ (state[i] = "BLOCKED" /\ state'[i] = "READY")
  <2> SUFFICES ASSUME NEW i \in Slots
               PROVE  state'[i] = state[i] \/ (state[i] = "BLOCKED" /\ state'[i] = "READY")
    OBVIOUS
  <2>1. state'[i] = IF Woken(i, id) THEN "READY" ELSE state[i]
    BY DEF WakeParent
  <2>2. Woken(i, id) => state[i] = "BLOCKED"
    BY DEF Woken
  <2> QED
    BY <2>1, <2>2
<1> QED
  BY <1>2, <1>3, <1>4

\* The keyboard and network interrupts move no thread.
LEMMA DeviceInv ==
  ASSUME Inv, Key \/ Packet
  PROVE  Inv'
<1> USE SchedulerAssumption DEF table, sched, space
<1>1. CASE Key
  <2>1. kb' \in 0..KbCap
    BY <1>1, SMTT(20) DEF Key, Inv, TypeOK
  <2>2. /\ state' \in [Slots -> States] /\ wait_pid' \in [Slots -> WaitIds]
        /\ \A i \in Slots : state'[i] = state[i]
                              \/ (state[i] = "BLOCKED" /\ state'[i] = "READY")
    BY <1>1, WakeFacts, Zenon DEF Key
  <2>3. TypeOK'
    BY <1>1, <2>1, <2>2 DEF Key, Inv, TypeOK, States, WaitIds
  <2>4. ActiveIsCaller' /\ RunningIsCurrent' /\ SpaceFollows'
    <3>1. /\ UNCHANGED <<current_index, cpu, pc, tss, cr3>>
          /\ ActiveIsCaller /\ RunningIsCurrent /\ SpaceFollows
      BY ONLY Inv, <1>1 DEF Key, Inv, space
    <3>2. cpu # 0 => cpu \in Slots
      BY ONLY Inv, SchedulerAssumption DEF Inv, TypeOK, Slots
    <3>3. ActiveIsCaller'
      BY ONLY <2>2, <3>1, <3>2 DEF ActiveIsCaller
    <3>4. RunningIsCurrent' /\ SpaceFollows'
      BY ONLY <2>2, <3>1 DEF RunningIsCurrent, SpaceFollows
    <3> QED
      BY <3>3, <3>4
  <2>5. ExitedIsDead' /\ EmptySlots' /\ WaitTargets'
    BY <1>1, <2>2, Zenon DEF Key, Inv, ExitedIsDead, EmptySlots, WaitTargets
  <2>6. MarkedRuns'
    BY <1>1, <2>2, Zenon DEF Key, Inv, MarkedRuns
  <2> QED
    BY <2>3, <2>4, <2>5, <2>6, Zenon DEF Inv
<1>2. CASE Packet
  <2>1. rx' \in BOOLEAN
    BY <1>2, Zenon DEF Packet
  <2>2. TypeOK'
    BY <1>2, <2>1 DEF Packet, Inv, TypeOK
  <2> QED
    BY <1>2, <2>2 DEF Packet, Inv, ActiveIsCaller, RunningIsCurrent, ExitedIsDead,
                      EmptySlots, WaitTargets, SpaceFollows, MarkedRuns
<1> QED
  BY <1>1, <1>2

\* Schedule demotes at most the active process, from RUNNING to READY.
LEMMA YieldedFacts ==
  ASSUME Inv
  PROVE  /\ Yielded \in [Slots -> States]
         /\ \A i \in Slots : Yielded[i] # "RUNNING"
         /\ \A i \in Slots : Yielded[i] # state[i] =>
              state[i] = "RUNNING" /\ Yielded[i] = "READY" /\ i = current_index
<1>1. state \in [Slots -> States] /\ \A i \in Slots : state[i] = "RUNNING" => i = current_index
  BY DEF Inv, TypeOK, States, RunningIsCurrent
<1>2. WasRunning <=> current_index # 0 /\ state[current_index] = "RUNNING"
  BY DEF WasRunning
<1>3. 0 \notin Slots
  BY DEF Slots
<1>4. CASE WasRunning
  <2>1. Yielded = [state EXCEPT ![current_index] = "READY"]
    BY <1>4 DEF Yielded
  <2> QED
    BY <1>1, <1>2, <1>4, <2>1, Zenon DEF States
<1>5. CASE ~WasRunning
  <2>1. Yielded = state
    BY <1>5 DEF Yielded
  <2> QED
    BY <1>1, <1>2, <1>3, <1>5, <2>1
<1> QED
  BY <1>4, <1>5

\* Marking the next process keeps every fact about states and address spaces.
LEMMA SelectFacts ==
  ASSUME Inv, NEW next \in Slots, next <= process_count, Yielded[next] = "READY",
         Select(next), process_count' = process_count
  PROVE  /\ state' \in [Slots -> States]
         /\ current_index' = next /\ cr3' = next /\ tss' = next
         /\ RunningIsCurrent' /\ EmptySlots' /\ SpaceFollows'
         /\ \A i \in Slots : state[i] = "DEAD" => state'[i] = "DEAD"
         /\ state[next] # "DEAD"
<1>1. /\ current_index' = next /\ cr3' = next /\ tss' = next
      /\ state' = [Yielded EXCEPT ![next] = "RUNNING"]
  BY DEF Select
<1>2. state' \in [Slots -> States]
  BY <1>1, YieldedFacts DEF States
<1>3. RunningIsCurrent' /\ SpaceFollows'
  BY <1>1, YieldedFacts DEF RunningIsCurrent, SpaceFollows
<1>4. EmptySlots'
  BY <1>1, YieldedFacts DEF Inv, EmptySlots
<1>5. state[next] # "DEAD" /\ \A i \in Slots : state[i] = "DEAD" => state'[i] = "DEAD"
  BY <1>1, YieldedFacts
<1> QED
  BY <1>1, <1>2, <1>3, <1>4, <1>5

\* Loading a context gives the CPU to the chosen process and leaves its thread
\* in ring 3, where it was, or nowhere defined.
LEMMA ResumeFacts ==
  ASSUME Inv, NEW next \in Slots, NEW frames \in [Slots -> Frames],
         Resume(next, frames)
  PROVE  /\ cpu' = next /\ saved' \in [Slots -> Frames] /\ pc' \in [Slots -> Points]
         /\ \A i \in Slots : pc'[i] \in {"user", "wild", pc[i]}
<1>1. pc \in [Slots -> Points]
  BY DEF Inv, TypeOK
<1>2. Restored(next, frames) \in {"user", "wild", pc[next]}
  BY DEF Restored
<1>3. "user" \in Points /\ "wild" \in Points
  BY PointsAre DEF AllPoints
<1>4. pc' \in [Slots -> Points] /\ \A i \in Slots : pc'[i] \in {"user", "wild", pc[i]}
  BY <1>1, <1>2, <1>3 DEF Resume
<1>5. saved' \in [Slots -> Frames]
  BY DEF Resume, Frames
<1> QED
  BY <1>4, <1>5 DEF Resume

\* What the timer's argument can point to.
LEMMA SavedByFacts ==
  ASSUME Inv
  PROVE  SavedBy(Frame) \in [Slots -> Frames]
<1>1. Frame \in Frames
  BY DEF Frame, Frames
<1> QED
  BY <1>1, Zenon DEF SavedBy, Inv, TypeOK

\* The timer interrupt: SchedulerTimer::HandleInterrupt and Schedule.
LEMMA TimerInv ==
  ASSUME Inv, Timer
  PROVE  Inv'
<1> USE SchedulerAssumption DEF table, space, devices
<1>1. ticks' \in [Slots -> 0..WaitTicks]
  <2>1. ticks \in [Slots -> 0..WaitTicks] /\ WaitTicks \in Nat
    BY DEF Inv, TypeOK
  <2>2. ticks' = [i \in Slots |-> IF ticks[i] > 0 THEN ticks[i] - 1 ELSE 0]
    BY ONLY Timer DEF Timer
  <2>3. \A n \in 0..WaitTicks : (IF n > 0 THEN n - 1 ELSE 0) \in 0..WaitTicks
    BY ONLY <2>1
  <2> QED
    BY ONLY <2>1, <2>2, <2>3
<1>2. process_count \in Slots /\ UNCHANGED <<process_count, pid, wait_pid, loc, kb, rx>>
  BY Zenon DEF Timer
<1>3. CASE NoneReady /\ Continue /\ UNCHANGED <<current_index, state, tss, cr3>>
  <2>1. TypeOK'
    BY <1>1, <1>2, <1>3 DEF Continue, Inv, TypeOK
  <2> QED
    BY <1>2, <1>3, <2>1, Zenon DEF Continue, Inv, ActiveIsCaller, RunningIsCurrent,
                            ExitedIsDead, EmptySlots, WaitTargets, SpaceFollows,
                            MarkedRuns
<1>4. ASSUME NEW turn \in 1..process_count, IsNextTurn(turn), SwitchTo(Slot(turn))
      PROVE  Inv'
  <2> DEFINE next == Slot(turn)
  <2>1. next \in Slots /\ next <= process_count
    <3>1. TypeOK
      BY DEF Inv
    <3>2. next \in 1..process_count
      BY <3>1, SlotInTable
    <3> QED
      BY <1>2, <3>2, SchedulerAssumption DEF Slots
  <2>2. Yielded[next] = "READY" /\ Select(next)
    BY <1>4 DEF IsNextTurn, IsReadyTurn, SwitchTo
  <2> HIDE DEF next
  <2>3. /\ state' \in [Slots -> States]
        /\ current_index' = next /\ cr3' = next /\ tss' = next
        /\ RunningIsCurrent' /\ EmptySlots' /\ SpaceFollows'
        /\ \A i \in Slots : state[i] = "DEAD" => state'[i] = "DEAD"
        /\ state[next] # "DEAD"
    BY <1>2, <2>1, <2>2, SelectFacts, Zenon
  <2>4. /\ cpu' = next /\ saved' \in [Slots -> Frames] /\ pc' \in [Slots -> Points]
        /\ \A i \in Slots : pc'[i] \in {"user", "wild", pc[i]}
    <3>1. CASE ~WasRunning /\ next = current_index
      <4>1. UNCHANGED <<cpu, pc, saved>>
        BY <1>4, <3>1 DEF SwitchTo, Continue, next
      <4>2. cpu = next
        BY <2>1, <3>1 DEF Inv, MarkedRuns, WasRunning, Slots
      <4> QED
        BY <4>1, <4>2 DEF Inv, TypeOK
    <3>2. CASE ~(~WasRunning /\ next = current_index)
      <4>1. Resume(next, SavedBy(Frame))
        BY <1>4, <3>2, Zenon DEF SwitchTo, next
      <4> QED
        BY <2>1, <4>1, SavedByFacts, ResumeFacts
    <3> QED
      BY <3>1, <3>2
  <2>5. TypeOK'
    <3>1. current_index' \in 0..MaxProcs /\ cpu' \in 0..MaxProcs
          /\ tss' \in 0..MaxProcs /\ cr3' \in 0..MaxProcs
      <4>1. next \in 0..MaxProcs
        BY ONLY <2>1, SchedulerAssumption DEF Slots
      <4> QED
        BY ONLY <2>3, <2>4, <4>1
    <3>2. TypeOK
      BY ONLY Inv DEF Inv
    <3> QED
      BY ONLY <1>1, <1>2, <2>3, <2>4, <3>1, <3>2 DEF TypeOK, States
  <2>6. ActiveIsCaller' /\ MarkedRuns'
    BY <2>3, <2>4, Zenon DEF ActiveIsCaller, MarkedRuns
  <2>7. ExitedIsDead'
    BY <2>3, <2>4, Zenon DEF Inv, ExitedIsDead
  <2>8. WaitTargets'
    BY <1>2, <2>4 DEF Inv, WaitTargets, WaitPoints
  <2> QED
    BY <2>3, <2>5, <2>6, <2>7, <2>8 DEF Inv
<1> QED
  BY <1>3, <1>4 DEF Timer

\* The exit system call.
LEMMA ExitInv ==
  ASSUME Inv, NEW p \in Slots, SysExit(p)
  PROVE  Inv'
<1> USE SchedulerAssumption DEF At, Goto, devices, table, sched, space
<1>0. "user" \in Points /\ "e_sched" \in Points /\ "e_switch" \in Points
      /\ "e_dead" \in Points /\ "e_wake" \in Points
  BY PointsAre DEF AllPoints
<1>1. CASE SetState(p, "e_dead", "DEAD", "e_wake")
  BY <1>0, <1>1, SetStateInv DEF States, WaitPoints
<1>2. CASE ExitWake(p)
  <2>1. /\ cpu = p /\ pc[p] = "e_wake" /\ pc' = [pc EXCEPT ![p] = "e_sched"]
        /\ UNCHANGED <<process_count, pid, current_index, saved, cpu, tss, cr3,
                       loc, ticks, kb, rx>>
    BY <1>2 DEF ExitWake
  <2>2. /\ state' \in [Slots -> States] /\ wait_pid' \in [Slots -> WaitIds]
        /\ \A i \in Slots : state'[i] = state[i]
                              \/ (state[i] = "BLOCKED" /\ state'[i] = "READY")
    BY <1>2, WakeFacts DEF ExitWake
  <2>3. current_index = p
    BY <2>1, Caller
  <2>4. TypeOK'
    BY <1>0, <2>1, <2>2, Zenon DEF Inv, TypeOK, States, WaitIds
  <2>5. ActiveIsCaller' /\ RunningIsCurrent' /\ SpaceFollows' /\ MarkedRuns'
    BY <2>1, <2>2, <2>3, Zenon DEF Inv, ActiveIsCaller, RunningIsCurrent, SpaceFollows, MarkedRuns
  <2>6. ExitedIsDead' /\ EmptySlots' /\ WaitTargets'
    BY <2>1, <2>2 DEF Inv, TypeOK, ExitedIsDead, EmptySlots, WaitTargets, WaitPoints
  <2> QED
    BY <2>4, <2>5, <2>6 DEF Inv
<1>3. CASE ExitSchedule(p)
  <2>1. /\ cpu = p /\ pc[p] = "e_sched" /\ process_count \in Slots
        /\ UNCHANGED <<process_count, pid, wait_pid, saved, loc, ticks, cpu, kb, rx>>
    BY <1>3 DEF ExitSchedule
  <2>2. CASE pc' = [pc EXCEPT ![p] = "user"] /\ UNCHANGED <<current_index, state, tss, cr3>>
    BY <1>0, <2>1, <2>2, Types, QuietStep, Zenon DEF WaitPoints
  <2>3. ASSUME NEW turn \in 1..process_count, IsNextTurn(turn), Select(Slot(turn)),
               pc' = [pc EXCEPT ![p] = "e_switch"]
        PROVE  Inv'
    <3> DEFINE next == Slot(turn)
    <3>1. next \in Slots /\ next <= process_count
      <4>1. TypeOK
        BY DEF Inv
      <4>2. next \in 1..process_count
        BY <4>1, SlotInTable
      <4> QED
        BY <2>1, <4>2, SchedulerAssumption DEF Slots
    <3>2. Yielded[next] = "READY" /\ Select(next)
      BY <2>3, Zenon DEF IsNextTurn, IsReadyTurn
    <3> HIDE DEF next
    <3>3. /\ state' \in [Slots -> States]
          /\ current_index' = next /\ cr3' = next /\ tss' = next
          /\ RunningIsCurrent' /\ EmptySlots' /\ SpaceFollows'
          /\ \A i \in Slots : state[i] = "DEAD" => state'[i] = "DEAD"
          /\ state[next] # "DEAD"
      BY <2>1, <3>1, <3>2, SelectFacts, Zenon
    <3>4. state[p] = "DEAD"
      BY <2>1, Zenon DEF Inv, ExitedIsDead
    <3>5. TypeOK'
      <4>1. pc' \in [Slots -> Points]
        BY <1>0, <2>3 DEF Inv, TypeOK
      <4>2. /\ current_index' \in 0..MaxProcs /\ current_index' <= process_count
            /\ tss' \in 0..MaxProcs /\ cr3' \in 0..MaxProcs
        BY <3>1, <3>3, SchedulerAssumption DEF Slots
      <4> QED
        BY <2>1, <3>1, <3>3, <4>1, <4>2, Zenon DEF Inv, TypeOK, States, Slots
    <3>6. ActiveIsCaller'
      <4>1. cpu' = p /\ p # 0 /\ pc'[p] = "e_switch"
        <5>1. p # 0
          BY ONLY p \in Slots, SchedulerAssumption DEF Slots
        <5>2. pc \in [Slots -> Points]
          BY ONLY Inv DEF Inv, TypeOK
        <5> QED
          BY ONLY p \in Slots, <2>1, <2>3, <5>1, <5>2
      <4>2. state'[p] = "DEAD"
        BY <3>3, <3>4
      <4> QED
        BY <4>1, <4>2 DEF ActiveIsCaller
    <3>7. MarkedRuns'
      <4>1. state'[next] = "RUNNING"
        BY <3>1, <3>2, YieldedFacts, Zenon DEF Select
      <4> QED
        BY <3>1, <3>3, <4>1 DEF MarkedRuns
    <3>8. ExitedIsDead'
      BY <2>1, <2>3, <3>3, Zenon DEF Inv, TypeOK, ExitedIsDead
    <3>9. WaitTargets'
      BY <2>1, <2>3 DEF Inv, TypeOK, WaitTargets, WaitPoints
    <3> QED
      BY <3>3, <3>5, <3>6, <3>7, <3>8, <3>9 DEF Inv
  <2> QED
    BY <1>3, <2>2, <2>3 DEF ExitSchedule
<1>4. CASE ExitSwitch(p)
  <2>1. /\ cpu = p /\ Resume(current_index, saved)
        /\ UNCHANGED <<process_count, pid, current_index, state, wait_pid, loc, ticks,
                       tss, cr3, kb, rx>>
    BY <1>4 DEF ExitSwitch
  <2>2. current_index \in Slots /\ saved \in [Slots -> Frames]
    BY <2>1 DEF Inv, MarkedRuns, TypeOK
  <2>3. /\ cpu' = current_index /\ saved' \in [Slots -> Frames]
        /\ pc' \in [Slots -> Points]
        /\ \A i \in Slots : pc'[i] \in {"user", "wild", pc[i]}
    BY <2>1, <2>2, ResumeFacts, Zenon
  <2>4. TypeOK'
    BY <2>1, <2>3, Zenon DEF Inv, TypeOK
  <2>5. ActiveIsCaller' /\ RunningIsCurrent' /\ SpaceFollows' /\ MarkedRuns'
    BY <2>1, <2>3, Zenon DEF Inv, ActiveIsCaller, RunningIsCurrent, SpaceFollows, MarkedRuns
  <2>6. ExitedIsDead' /\ EmptySlots' /\ WaitTargets'
    BY <2>1, <2>3 DEF Inv, ExitedIsDead, EmptySlots, WaitTargets, WaitPoints
  <2> QED
    BY <2>4, <2>5, <2>6 DEF Inv
<1> QED
  BY <1>1, <1>2, <1>3, <1>4 DEF SysExit

\* Every step of the kernel preserves the invariant.
LEMMA NextInv == Inv /\ [Next]_vars => Inv'
<1> SUFFICES ASSUME Inv, [Next]_vars PROVE Inv'
  OBVIOUS
<1>1. CASE Timer
  BY <1>1, TimerInv
<1>2. CASE Key \/ Packet
  BY <1>2, DeviceInv
<1>3. ASSUME NEW p \in Slots, Enter(p) \/ Kernel(p) PROVE Inv'
  BY <1>3, EnterInv, WorkInv, ReadInv, WaitpidInv, NetInv, ExecInv, ExitInv, Zenon DEF Kernel
<1>4. CASE UNCHANGED vars
  BY <1>4 DEF vars, Inv, TypeOK, ActiveIsCaller, RunningIsCurrent, ExitedIsDead,
              EmptySlots, WaitTargets, SpaceFollows, MarkedRuns
<1> QED
  BY <1>1, <1>2, <1>3, <1>4 DEF Next

\* The inductive invariant holds in every reachable state.
LEMMA Invariance == Spec => []Inv
BY InitInv, NextInv, PTL DEF Spec

\* Type correctness: in particular Schedule never leaves the process array.
THEOREM TypeCorrect == Spec => []TypeOK
<1>1. Inv => TypeOK
  BY DEF Inv
<1> QED
  BY <1>1, Invariance, PTL

\* GetActive() is the process that makes the system call, at every statement.
THEOREM ActiveIsAlwaysCaller == Spec => []ActiveIsCaller
<1>1. Inv => ActiveIsCaller
  BY DEF Inv
<1> QED
  BY <1>1, Invariance, PTL

\* At most one process is RUNNING, and it is the active one.
THEOREM OneRunning == Spec => []RunningIsCurrent
<1>1. Inv => RunningIsCurrent
  BY DEF Inv
<1> QED
  BY <1>1, Invariance, PTL

\* Ring 3 runs on its own page directory and its own kernel stack.
THEOREM OwnStack == Spec => []OwnStackInRing3
<1>1. Inv => OwnStackInRing3
  <2> SUFFICES ASSUME Inv, cpu # 0, pc[cpu] = "user" PROVE tss = cpu /\ cr3 = cpu
    BY DEF OwnStackInRing3
  <2>1. cpu = current_index
    BY DEF Inv, ActiveIsCaller
  <2> QED
    BY <2>1 DEF Inv, SpaceFollows
<1> QED
  BY <1>1, Invariance, PTL

-----------------------------------------------------------------------------
(***************************************************************************)
(* Preemption of programs that do not block.                               *)
(***************************************************************************)

RunPoints == {"user", "work", "x_pid", "x_check", "x_store"}

\* The frame cpu_state.esp points to leads back to where the thread stands.
LeadsBack(frame, point) ==
  /\ point = "user" => frame = "base"
  /\ point # "user" => frame = "deep"

\* Nobody is blocked, the active process has the CPU, and the context of every
\* other one is saved.
ContextInv ==
  /\ cpu = current_index
  /\ cpu # 0 => state[cpu] = "RUNNING"
  /\ \A p \in Slots : /\ state[p] # "BLOCKED"
                      /\ pc[p] \in RunPoints
                      /\ p # cpu => LeadsBack(saved[p], pc[p])

\* The timer interrupts and resumes without moving any thread.
LEMMA TimerExact ==
  ASSUME Inv, ContextInv, Timer
  PROVE  ContextInv' /\ pc' = pc
  <1>1. /\ cpu \in 0..MaxProcs /\ saved \in [Slots -> Frames] /\ pc \in [Slots -> Points]
        /\ state \in [Slots -> States] /\ current_index \in 0..MaxProcs
    BY DEF Inv, TypeOK, States
  <1>2. cpu # 0 => cpu \in Slots
    BY <1>1 DEF Slots
  <1>3. CASE NoneReady /\ Continue /\ UNCHANGED <<current_index, state, space>>
    BY <1>3 DEF Continue, ContextInv, LeadsBack
  <1>4. ASSUME NEW turn \in 1..process_count, IsNextTurn(turn), SwitchTo(Slot(turn))
        PROVE  ContextInv' /\ pc' = pc
    <2> DEFINE next == Slot(turn)
    <2>1. next \in Slots
      <3>1. TypeOK
        BY DEF Inv
      <3>2. next \in 1..process_count
        BY <3>1, SlotInTable
      <3> QED
        BY <3>2, SchedulerAssumption DEF Slots, Timer
    <2>2. Yielded[next] = "READY" /\ Select(next)
      BY <1>4 DEF IsNextTurn, IsReadyTurn, SwitchTo
    <2> HIDE DEF next
    <2>3. WasRunning <=> cpu # 0
      BY DEF WasRunning, ContextInv
    <2>4. ~(~WasRunning /\ next = current_index)
      BY <2>1, <2>3 DEF ContextInv, Slots
    <2>5. Resume(next, SavedBy(Frame))
      BY <1>4, <2>4, Zenon DEF SwitchTo, next
    <2> DEFINE frames == SavedBy(Frame)
    <2>6. frames \in [Slots -> Frames] /\ \A p \in Slots : LeadsBack(frames[p], pc[p])
      <3>1. CASE cpu = 0
        <4>1. frames = saved
          BY <2>3, <3>1 DEF SavedBy
        <4>2. \A p \in Slots : p # cpu
          BY <3>1 DEF Slots
        <4> QED
          BY <1>1, <4>1, <4>2 DEF ContextInv
      <3>2. CASE cpu # 0
        <4>1. frames = [saved EXCEPT ![cpu] = Frame]
          BY <2>3, <3>2 DEF SavedBy, ContextInv
        <4>2. pc[cpu] \in RunPoints /\ cpu = current_index
          BY <1>2, <3>2 DEF ContextInv
        <4>3. pc[cpu] # "wild"
          BY <4>2 DEF RunPoints
        <4>4. LeadsBack(Frame, pc[cpu]) /\ Frame \in Frames
          BY <4>2, <4>3 DEF Frame, LeadsBack, Frames
        <4> QED
          BY <1>1, <1>2, <3>2, <4>1, <4>4 DEF ContextInv
      <3> QED
        BY <3>1, <3>2
    <2> HIDE DEF frames
    <2>7. Restored(next, frames) = pc[next]
      BY <2>1, <2>6 DEF Restored, LeadsBack
    <2>8. cpu' = next /\ pc' = [pc EXCEPT ![next] = pc[next]]
          /\ saved' = [frames EXCEPT ![next] = IF @ = "deep" THEN "stale" ELSE @]
      BY <2>5, <2>7 DEF Resume, frames
    <2>9. pc' = pc
      BY <1>1, <2>1, <2>8
    <2>10. \A p \in Slots : p # next => LeadsBack(saved'[p], pc'[p])
      BY <2>6, <2>8, <2>9
    <2>11. current_index' = next /\ state' = [Yielded EXCEPT ![next] = "RUNNING"]
      BY <2>2 DEF Select
    <2>12. state'[next] = "RUNNING" /\ \A p \in Slots : state'[p] # "BLOCKED"
      BY <2>1, <2>11, YieldedFacts DEF ContextInv
    <2>13. \A p \in Slots : pc'[p] \in RunPoints
      BY <2>9 DEF ContextInv
    <2> QED
      BY <2>8, <2>9, <2>10, <2>11, <2>12, <2>13 DEF ContextInv
  <1> QED
    BY <1>3, <1>4 DEF Timer

\* A program that only works and starts others moves its own thread only.
LEMMA CallExact ==
  ASSUME Calls \subseteq {"work", "exec"}, Inv, ContextInv,
         NEW p \in Slots, Enter(p) \/ Kernel(p)
  PROVE  ContextInv' /\ \A q \in Slots : q # p => pc'[q] = pc[q]
  <1>1. /\ saved \in [Slots -> Frames] /\ pc \in [Slots -> Points]
        /\ state \in [Slots -> States]
    BY DEF Inv, TypeOK, States
  <1>2. pc[p] \in RunPoints
    BY DEF ContextInv
  <1>3. /\ cpu = p /\ UNCHANGED sched
        /\ \E to \in RunPoints : pc' = [pc EXCEPT ![p] = to]
        /\ ExecStore(p) \/ state' = state
    <2>1. CASE Enter(p)
      BY <2>1, Zenon DEF Enter, At, Goto, RunPoints
    <2>2. CASE Kernel(p)
      <3>1. Work(p) \/ ExecPid(p) \/ ExecCheck(p) \/ ExecStore(p)
        BY <1>2, <2>2, Zenon DEF RunPoints, Kernel, SysRead, SysWaitpid, SysNet, SysExec, SysExit,
             ReadTest, SetState, SetWait, LeaveLoop, ReadTail, ReadDequeue, WaitpidTail,
             NetTail, NetTake, ExitWake, ExitSchedule, ExitSwitch, At
      <3> QED
        BY <3>1 DEF Work, ExecPid, ExecCheck, ExecStore, At, Goto, RunPoints
    <2> QED
      BY <2>1, <2>2, Zenon
  <1>4. \A q \in Slots : state'[q] = state[q] \/ state'[q] = "READY"
    BY <1>1, <1>3 DEF ExecStore
  <1>5. state'[p] = "RUNNING"
    <2>1. state[p] = "RUNNING" /\ p # 0
      BY <1>3 DEF ContextInv, Slots
    <2>2. CASE ExecStore(p)
      <3>1. process_count + 1 # p
        BY <2>1 DEF Inv, EmptySlots, TypeOK, Slots
      <3> QED
        BY <1>1, <2>1, <2>2, <3>1, Zenon DEF ExecStore
    <2> QED
      BY <1>3, <2>1, <2>2
  <1>6. cpu' = cpu /\ current_index' = current_index /\ saved' = saved
    BY <1>3 DEF sched
  <1>7. \A q \in Slots : q # p => pc'[q] = pc[q]
    BY <1>1, <1>3
  <1>8. \A q \in Slots : pc'[q] \in RunPoints
    BY <1>1, <1>3 DEF ContextInv
  <1> QED
    BY <1>3, <1>4, <1>5, <1>6, <1>7, <1>8, Zenon DEF ContextInv, LeadsBack

\* Keys and packets move no thread and, with nobody blocked, wake none.
LEMMA DeviceExact ==
  ASSUME Inv, ContextInv, Key \/ Packet
  PROVE  ContextInv' /\ pc' = pc
  <1>1. CASE Key
    <2>1. UNCHANGED <<current_index, saved, pc, cpu>>
      BY <1>1, Zenon DEF Key
    <2>2. state' = [i \in Slots |-> state[i]]
      BY <1>1 DEF Key, WakeParent, Woken, ContextInv
    <2>3. \A i \in Slots : state'[i] = state[i]
      BY <2>2, Zenon
    <2>4. cpu # 0 => state'[cpu] = "RUNNING"
      BY <2>3 DEF ContextInv, Inv, TypeOK, Slots
    <2> QED
      BY <2>1, <2>3, <2>4 DEF ContextInv, LeadsBack
  <1>2. CASE Packet
    BY <1>2 DEF Packet, ContextInv, LeadsBack
  <1> QED
    BY <1>1, <1>2

\* Schedule and the interrupt stub, for any number of programs that do not block
\* or exit: the timer hands the CPU from one to the next, and each goes on exactly
\* where it was interrupted.
THEOREM PreemptionIsExact ==
  ASSUME Calls \subseteq {"work", "exec"}
  PROVE  Spec => ContextPreserved
  <1> DEFINE Kept == /\ Timer => pc' = pc
                     /\ \A p \in Slots : cpu # p => pc'[p] = pc[p]
  <1>1. Init => ContextInv
    BY SchedulerAssumption DEF Init, ContextInv, LeadsBack, RunPoints, Slots
  <1>2. Inv /\ ContextInv /\ [Next]_vars => ContextInv' /\ [Kept]_vars
    <2> SUFFICES ASSUME Inv, ContextInv, [Next]_vars PROVE ContextInv' /\ [Kept]_vars
      OBVIOUS
    <2>1. CASE Timer
      BY <2>1, TimerExact
    <2>2. CASE Key \/ Packet
      BY <2>2, DeviceExact
    <2>3. ASSUME NEW p \in Slots, Enter(p) \/ Kernel(p)
          PROVE  ContextInv' /\ Kept
      <3>1. cpu = p
        BY <2>3, Zenon DEF Enter, Kernel, Work, SysRead, SysWaitpid, SysNet, SysExec, SysExit,
             ReadTest, SetState, SetWait, LeaveLoop, ReadTail, ReadDequeue, WaitpidTail,
             NetTail, NetTake, ExecPid, ExecCheck, ExecStore, ExitWake, ExitSchedule,
             ExitSwitch, At
      <3> QED
        BY <2>3, <3>1, CallExact, TimerExact, Zenon
    <2>4. CASE UNCHANGED vars
      BY <2>4, Zenon DEF vars, ContextInv, LeadsBack
    <2> QED
      BY <2>1, <2>2, <2>3, <2>4 DEF Next
  <1> QED
    BY <1>1, <1>2, Invariance, PTL DEF Spec, ContextPreserved

-----------------------------------------------------------------------------
\* Only e starts processes, and between NextPID and the store its new pid is above
\* every pid of the table.
PidInv(e) ==
  /\ \A p \in Slots : pc[p] \in ExecPoints => p = e
  /\ pc[e] \in {"x_check", "x_store"} => \A i \in Slots : pid[i] < loc[e]
  /\ UniquePids

\* A step that changes no pid and leaves the thread of e where it is, or takes it
\* out of exec, keeps PidInv.
LEMMA PidQuiet ==
  ASSUME Inv, NEW e \in Slots, PidInv(e), pid' = pid,
         \A p \in Slots : pc'[p] \in ExecPoints => pc[p] = pc'[p],
         pc'[e] \in ExecPoints => loc'[e] = loc[e]
  PROVE  PidInv(e)'
  BY Zenon DEF PidInv, UniquePids, ExecPoints

\* The statements of exec.
LEMMA PidExec ==
  ASSUME Inv, NEW e \in Slots, PidInv(e), SysExec(e)
  PROVE  PidInv(e)'
  <1>1. /\ pc \in [Slots -> Points] /\ loc \in [Slots -> PidRange]
        /\ pid \in [Slots -> PidRange] /\ process_count \in Nat
    BY DEF Inv, TypeOK
  <1>2. \A i \in Slots : pid[i] \in Int
    BY <1>1, SchedulerAssumption DEF PidRange
  <1>3. CASE ExecPid(e)
    <2>1. PICK n \in PidRange : IsNextPID(n) /\ loc' = [loc EXCEPT ![e] = n]
      BY <1>3, Zenon DEF ExecPid
    <2>2. loc'[e] = n /\ \A i \in Slots : pid[i] < n
      BY <1>1, <2>1 DEF IsNextPID
    <2> QED
      BY <1>1, <1>3, <2>2 DEF ExecPid, PidInv, UniquePids, Goto, table, ExecPoints
  <1>4. CASE ExecCheck(e)
    BY <1>1, <1>4, Zenon DEF ExecCheck, At, Goto, table, PidInv, UniquePids, ExecPoints
  <1>5. CASE ExecStore(e)
    <2>1. /\ \A i \in Slots : pid[i] < loc[e]
          /\ pc' = [pc EXCEPT ![e] = "user"]
      BY <1>5 DEF ExecStore, At, Goto, PidInv
    <2>2. \A i \in Slots : pid'[i] = pid[i] \/ (i = process_count + 1 /\ pid'[i] = loc[e])
      BY <1>1, <1>5 DEF ExecStore
    <2>3. UniquePids'
      BY <1>2, <2>1, <2>2 DEF PidInv, UniquePids
    <2> QED
      BY <1>1, <2>1, <2>3 DEF PidInv, ExecPoints
  <1> QED
    BY <1>3, <1>4, <1>5, Zenon DEF SysExec

\* Entering a call: only e may call exec.
LEMMA PidEnter ==
  ASSUME NEW e \in Slots, Execers \subseteq {e}, Inv, PidInv(e),
         NEW p \in Slots, Enter(p)
  PROVE  PidInv(e)'
  <1>1. /\ pc \in [Slots -> Points] /\ loc \in [Slots -> PidRange]
    BY Zenon DEF Inv, TypeOK
  <1>2. pid' = pid /\ pc[p] = "user"
    BY Zenon DEF Enter, table, At
  <1>3. CASE p = e /\ Goto(p, "x_pid")
    BY <1>1, <1>2, <1>3, Zenon DEF PidInv, UniquePids, Goto, ExecPoints
  <1>4. CASE \E to \in Points \ ExecPoints : pc' = [pc EXCEPT ![p] = to]
    <2>1. \A q \in Slots : pc'[q] \in ExecPoints => q # p /\ pc[q] = pc'[q]
      BY <1>1, <1>4, Zenon
    <2>2. \A q \in Slots : q # p => loc'[q] = loc[q]
      BY <1>1, Zenon DEF Enter
    <2> QED
      BY <1>2, <2>1, <2>2, PidQuiet
  <1>5. \/ Goto(p, "x_pid") /\ p \in Execers
        \/ \E to \in Points \ ExecPoints : pc' = [pc EXCEPT ![p] = to]
    <2>1. {"work", "r_test", "w_block", "n_take", "n_block", "e_dead"} \subseteq Points \ ExecPoints
      BY PointsAre, Zenon DEF AllPoints, ExecPoints
    <2>2. \/ Goto(p, "x_pid") /\ p \in Execers
          \/ \E to \in {"work", "r_test", "w_block", "n_take", "n_block", "e_dead"} :
               pc' = [pc EXCEPT ![p] = to]
      BY DEF Enter, Goto
    <2> QED
      BY <2>1, <2>2
  <1> QED
    BY <1>3, <1>4, <1>5, Zenon

\* The other system calls touch no pid and lead to no statement of exec.
LEMMA PidKernel ==
  ASSUME NEW e \in Slots, Inv, PidInv(e), NEW p \in Slots,
         Work(p) \/ SysRead(p) \/ SysWaitpid(p) \/ SysNet(p) \/ SysExit(p)
  PROVE  PidInv(e)'
  <1>1. pc \in [Slots -> Points]
    BY Zenon DEF Inv, TypeOK
  <1>2. CASE ExitSwitch(p)
    <2>1. Resume(current_index, saved) /\ UNCHANGED <<pid, loc>>
      BY <1>2, Zenon DEF ExitSwitch, table
    <2>2. current_index \in Slots /\ saved \in [Slots -> Frames]
      BY <1>2 DEF ExitSwitch, At, Inv, ActiveIsCaller, MarkedRuns, TypeOK, ExitedIsDead,
                  RunningIsCurrent, Slots
    <2>3. \A i \in Slots : pc'[i] \in {"user", "wild", pc[i]}
      BY <2>1, <2>2, ResumeFacts, Zenon
    <2> QED
      BY <2>1, <2>3, PidQuiet DEF ExecPoints
  <1>3. CASE ~ExitSwitch(p)
    <2>1. UNCHANGED <<pid, loc>>
      BY <1>3, Zenon DEF Work, SysRead, SysWaitpid, SysNet, SysExit, ReadTest, SetState, SetWait,
           LeaveLoop, ReadTail, ReadDequeue, WaitpidTail, NetTail, NetTake, ExitWake,
           ExitSchedule, table
    <2>2. \E to \in Points \ ExecPoints : pc' = [pc EXCEPT ![p] = to]
      <3> DEFINE Targets == {"user", "r_block", "r_wait", "r_loop", "r_cli", "r_deq",
                             "w_wait", "w_loop", "w_cli", "n_wait", "n_loop", "n_cli",
                             "e_wake", "e_sched", "e_switch"}
      <3>1. Targets \subseteq Points \ ExecPoints
        BY PointsAre DEF AllPoints, ExecPoints
      <3>2. CASE ReadDequeue(p)
        <4>1. pc' = pc \/ pc' = [pc EXCEPT ![p] = "user"]
          BY <3>2 DEF ReadDequeue, Goto
        <4>2. pc = [pc EXCEPT ![p] = "r_deq"]
          BY <1>1, <3>2 DEF ReadDequeue, At
        <4> QED
          BY <3>1, <4>1, <4>2
      <3>3. CASE ~ReadDequeue(p)
        <4>1. \E to \in Targets : pc' = [pc EXCEPT ![p] = to]
          BY <1>3, <3>3, Zenon DEF Work, SysRead, SysWaitpid, SysNet, SysExit, ReadTest, SetState,
               SetWait, LeaveLoop, ReadTail, WaitpidTail, NetTail, NetTake, ExitWake,
               ExitSchedule, Goto
        <4> QED
          BY <3>1, <4>1, Zenon
      <3> QED
        BY <3>2, <3>3
    <2>3. \A q \in Slots : pc'[q] \in ExecPoints => pc[q] = pc'[q]
      BY <1>1, <2>2, Zenon
    <2> QED
      BY <2>1, <2>3, PidQuiet, Zenon
  <1> QED
    BY <1>2, <1>3

\* The timer leaves a thread where it is, in ring 3 or nowhere defined.
LEMMA TimerMoves ==
  ASSUME Inv, Timer
  PROVE  \A i \in Slots : pc'[i] \in {"user", "wild", pc[i]}
  <1>1. CASE Continue
    BY <1>1 DEF Continue
  <1>2. ASSUME NEW turn \in 1..process_count, Resume(Slot(turn), SavedBy(Frame))
        PROVE  \A i \in Slots : pc'[i] \in {"user", "wild", pc[i]}
    <2>1. Slot(turn) \in Slots
      <3>1. Slot(turn) \in 1..process_count
        BY SlotInTable DEF Inv
      <3> QED
        BY <3>1, SchedulerAssumption DEF Slots, Timer
    <2> QED
      BY <1>2, <2>1, SavedByFacts, ResumeFacts
  <1> QED
    BY <1>1, <1>2, Zenon DEF Timer, SwitchTo

\* NextPID and AddProcess, for any number of processes of which one calls exec: no
\* two processes ever have the same pid.
THEOREM PidsAreUnique ==
  ASSUME NEW e \in Slots, Execers \subseteq {e}
  PROVE  Spec => []UniquePids
  <1>1. Init => PidInv(e)
    BY SchedulerAssumption DEF Init, PidInv, UniquePids, ExecPoints, Slots
  <1>2. Inv /\ PidInv(e) /\ [Next]_vars => PidInv(e)'
    <2> SUFFICES ASSUME Inv, PidInv(e), [Next]_vars PROVE PidInv(e)'
      OBVIOUS
    <2>1. CASE Timer
      <3>1. UNCHANGED <<pid, loc>>
        BY <2>1, Zenon DEF Timer, table
      <3>2. \A i \in Slots : pc'[i] \in {"user", "wild", pc[i]}
        BY <2>1, TimerMoves, Zenon
      <3> QED
        BY <3>1, <3>2, PidQuiet DEF ExecPoints
    <2>2. CASE Key \/ Packet
      BY <2>2, PidQuiet DEF Key, Packet, table
    <2>3. ASSUME NEW p \in Slots, Enter(p) PROVE PidInv(e)'
      BY <2>3, PidEnter
    <2>4. ASSUME NEW p \in Slots, Kernel(p) PROVE PidInv(e)'
      <3>1. SysExec(p) => p = e
        BY Zenon DEF SysExec, ExecPid, ExecCheck, ExecStore, At, PidInv, ExecPoints
      <3> QED
        BY <2>4, <3>1, PidExec, PidKernel, Zenon DEF Kernel
    <2>5. CASE UNCHANGED vars
      BY <2>5, PidQuiet, Zenon DEF vars
    <2> QED
      BY <2>1, <2>2, <2>3, <2>4, <2>5 DEF Next
  <1>3. PidInv(e) => UniquePids
    BY DEF PidInv
  <1> QED
    BY <1>1, <1>2, <1>3, Invariance, PTL DEF Spec
=============================================================================
