-------------------------------- MODULE Heap --------------------------------
(***************************************************************************)
(* The kernel heap behind operator new and delete: a doubly linked list of *)
(* chunk headers kept inside the managed region, first fit with splitting, *)
(* coalescing with both neighbours on free.                                *)
(***************************************************************************)
EXTENDS Integers

CONSTANTS
  HeapSize,  \* bytes given to MemoryManager
  Header,    \* sizeof(MemoryChunk), 13 in the code
  Sizes      \* sizes the kernel asks for

ASSUME HeapAssumption ==
  /\ HeapSize \in Nat
  /\ Header \in Nat \ {0}
  /\ HeapSize > Header
  /\ Sizes \subseteq Nat \ {0}

Null == -1
Addresses == 0..(HeapSize - 1)

\* The linked headers by address (relative to the start of the heap), each with
\* the fields of MemoryChunk.  A header that is unlinked is forgotten.
VARIABLE heap

Chunks == DOMAIN heap

HeapInit ==
  heap = [a \in {0} |-> [prev |-> Null, next |-> Null, allocated |-> FALSE,
                         size |-> HeapSize - Header]]

-----------------------------------------------------------------------------
\* A variant that counts the header as usable.
FitsWithHeader(c, n) == ~heap[c].allocated /\ heap[c].size + Header >= n

Fits(c, n) == ~heap[c].allocated /\ heap[c].size >= n

\* The list is in address order (Linked), so the chunk that the loop of malloc
\* finds is the fitting one with the least address.
IsFirstFit(c, n) ==
  /\ Fits(c, n)
  /\ \A d \in Chunks : d < c => ~Fits(d, n)

\* A variant of the split that forgets the successor's back link.
SplitNoBackLink(c, n) ==
  LET new == c + Header + n IN
  heap' = [x \in Chunks \cup {new} |->
    IF x = new THEN [prev |-> c, next |-> heap[c].next, allocated |-> FALSE,
                     size |-> heap[c].size - n - Header]
    ELSE IF x = c THEN [heap[c] EXCEPT !.next = new, !.size = n, !.allocated = TRUE]
    ELSE heap[x]]

\* The branch of malloc that splits: the remainder becomes a free chunk between
\* c and its old successor.
Split(c, n) ==
  LET new == c + Header + n IN
  heap' = [x \in Chunks \cup {new} |->
    IF x = new THEN [prev |-> c, next |-> heap[c].next, allocated |-> FALSE,
                     size |-> heap[c].size - n - Header]
    ELSE IF x = c THEN [heap[c] EXCEPT !.next = new, !.size = n, !.allocated = TRUE]
    ELSE IF x = heap[c].next THEN [heap[x] EXCEPT !.prev = new]
    ELSE heap[x]]

\* malloc hands out the chunk it found, whole unless the rest can hold a header
\* and at least one byte.
Take(c, n) ==
  IF heap[c].size > n + Header
    THEN Split(c, n)
    ELSE heap' = [heap EXCEPT ![c].allocated = TRUE]

\* MemoryManager::malloc.  Without a fitting chunk it returns 0.
Malloc(n) ==
  \/ \E c \in Chunks :
       /\ IsFirstFit(c, n)
       /\ Take(c, n)
  \/ (\A c \in Chunks : ~Fits(c, n)) /\ UNCHANGED heap

\* Chunk c takes over its successor d.
Absorb(h, c, d) ==
  [x \in DOMAIN h \ {d} |->
    IF x = c THEN [h[c] EXCEPT !.size = @ + Header + h[d].size, !.next = h[d].next]
    ELSE IF x = h[d].next THEN [h[x] EXCEPT !.prev = c]
    ELSE h[x]]

\* A variant that does not merge.
NoMerge(h, c) == h

MergeNext(h, c) ==
  IF h[c].next # Null /\ ~h[h[c].next].allocated
    THEN Absorb(h, c, h[c].next)
    ELSE h

MergePrev(h, c) ==
  IF h[c].prev # Null /\ ~h[h[c].prev].allocated
    THEN Absorb(h, h[c].prev, c)
    ELSE h

\* MemoryManager::free.  The kernel frees only what malloc returned, once.
Free(c) ==
  /\ heap[c].allocated
  /\ heap' = MergePrev(MergeNext([heap EXCEPT ![c].allocated = FALSE], c), c)

HeapNext ==
  \/ \E n \in Sizes : Malloc(n)
  \/ \E c \in Chunks : Free(c)

HeapSpec == HeapInit /\ [][HeapNext]_heap
-----------------------------------------------------------------------------
(***************************************************************************)
(* Properties.                                                             *)
(***************************************************************************)

Chunk == [prev : Addresses \cup {Null}, next : Addresses \cup {Null},
          allocated : BOOLEAN, size : 1..HeapSize]

End(c) == c + Header + heap[c].size

\* Every linked header is a chunk of at least one byte inside the heap.
HeapTypeOK ==
  /\ Chunks \subseteq Addresses
  /\ heap \in [Chunks -> Chunk]

\* The list holds exactly the chunks of the heap, in address order and linked
\* both ways: each chunk ends where the next begins, the first begins the heap
\* and the last ends it.  Splitting and both merges relink three chunks each
\* (memorymanagement.cpp:25-33, 47-61).
Linked ==
  /\ 0 \in Chunks
  /\ \A c \in Chunks :
       /\ IF heap[c].next = Null
            THEN End(c) = HeapSize
            ELSE heap[c].next \in Chunks /\ End(c) = heap[c].next
                   /\ heap[heap[c].next].prev = c
       /\ IF heap[c].prev = Null
            THEN c = 0
            ELSE heap[c].prev \in Chunks /\ heap[heap[c].prev].next = c

\* No two chunks share a byte, headers included.
ChunksDisjoint ==
  \A c, d \in Chunks : c < d => End(c) <= d

\* Two neighbours are never both free: free merges on both sides and malloc
\* never leaves a free remainder beside a free chunk.
Coalesced ==
  \A c \in Chunks :
    ~heap[c].allocated /\ heap[c].next # Null => heap[heap[c].next].allocated

\* malloc gives up only when the request fits nowhere: wherever a header and n
\* bytes lie clear of all allocated chunks, some free chunk is large enough.
MallocComplete ==
  \A n \in Sizes :
    (\E a \in Addresses :
       /\ a + Header + n <= HeapSize
       /\ \A c \in Chunks : heap[c].allocated => End(c) <= a \/ a + Header + n <= c)
    => \E c \in Chunks : Fits(c, n)

\* The heap implements the allocator its callers rely on.
LiveBlocks == {<<c + Header, heap[c].size>> : c \in {d \in Chunks : heap[d].allocated}}

Promise == INSTANCE Allocator WITH blocks <- LiveBlocks, Limit <- HeapSize

ImplementsAllocator == Promise!Spec
=============================================================================
