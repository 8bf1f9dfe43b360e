-------------------------------- MODULE Boot --------------------------------
(***************************************************************************)
(* How kernelMain lays out memory: the walk over the boot loader's memory  *)
(* map, one entry at a time, and the division of the region it chooses     *)
(* into the kernel's heap and the pool of page frames.  Addresses count    *)
(* pages; sums and differences are those of a uint32_t.                    *)
(***************************************************************************)
EXTENDS Integers, Sequences

CONSTANTS
  LOW,    \* first page above the kernel image (0x00200000)
  CAP,    \* end of the range that is mapped (0x01000000)
  POOL,   \* pages of the frame pool (128)
  Word,   \* pages of a 32-bit address space
  Maps    \* the memory maps of the machines considered

Regions == [usable : BOOLEAN, base : Nat, length : Nat]

ASSUME BootAssumption ==
  /\ LOW \in Nat /\ CAP \in Nat /\ POOL \in Nat \ {0} /\ Word \in Nat
  /\ LOW + POOL < CAP /\ CAP < Word
  /\ Maps \subseteq Seq(Regions)

VARIABLES
  boot,    \* where kernelMain stands
  map,     \* the memory map
  entry,   \* the next entry
  heap_start, heap_size, pmm_pool_base

layout == <<boot, map, entry, heap_start, heap_size, pmm_pool_base>>

LayoutInit ==
  /\ boot = "scan"
  /\ map \in Maps
  /\ entry = 1
  /\ heap_start = 0 /\ heap_size = 0 /\ pmm_pool_base = 0

\* A sum or difference of two words.
Wrap(n) == IF n < 0 THEN n + Word ELSE IF n >= Word THEN n - Word ELSE n

\* An entry of type 1 that starts in the first 4 GB counts, from LOW on (a page
\* below 4 GB is below 0xFFFFFFFF).
Counts(r) == r.usable /\ r.base < Word

Start(r) == IF r.base < LOW THEN LOW ELSE r.base

\* A variant that forgets to take off what lies below LOW.
LengthUncut(r) == r.length % Word

Length(r) ==
  LET len == r.length % Word
      delta == LOW - r.base
  IN IF r.base >= LOW THEN len ELSE IF delta >= len THEN 0 ELSE len - delta

\* One turn of the loop: the longest region so far.
Scan ==
  /\ boot = "scan"
  /\ entry <= Len(map)
  /\ IF Counts(map[entry]) /\ Length(map[entry]) > heap_size
       THEN /\ heap_start' = Start(map[entry])
            /\ heap_size' = Length(map[entry])
       ELSE UNCHANGED <<heap_start, heap_size>>
  /\ entry' = entry + 1
  /\ UNCHANGED <<boot, map, pmm_pool_base>>

Capped ==
  IF Wrap(heap_start + heap_size) > CAP THEN Wrap(CAP - heap_start) ELSE heap_size

Carve ==
  /\ boot = "scan"
  /\ entry > Len(map)
  /\ heap_size' = Wrap(Capped - POOL)
  /\ pmm_pool_base' = Wrap(Wrap(heap_start + Capped) - POOL)
  /\ boot' = "carved"
  /\ UNCHANGED <<map, entry, heap_start>>

LayoutNext == Scan \/ Carve

LayoutSpec == LayoutInit /\ [][LayoutNext]_layout
-----------------------------------------------------------------------------
(***************************************************************************)
(* Properties.                                                             *)
(***************************************************************************)

Candidates == {i \in DOMAIN map : Counts(map[i])}

Longest(i) ==
  /\ i \in Candidates
  /\ \A j \in Candidates : Length(map[j]) <= Length(map[i])

\* The machines kernelMain is right for: no region runs over the end of the first
\* 4 GB, and the longest has room for the pool, and more, below CAP.
Fit ==
  /\ Candidates # {}
  /\ \A i \in Candidates : map[i].base + map[i].length < Word
  /\ \A i \in DOMAIN map : Longest(i) =>
       Length(map[i]) > POOL /\ Start(map[i]) + POOL < CAP

\* Heap and pool, one after the other, lie in one usable region, above the kernel
\* and inside the range that is mapped, on every machine that is Fit
\* (kernel.cpp:84-124).
LayoutSafe ==
  boot # "scan" /\ Fit =>
    /\ heap_size > 0
    /\ heap_start + heap_size = pmm_pool_base
    /\ LOW <= heap_start /\ pmm_pool_base + POOL <= CAP
    /\ \E i \in Candidates :
         /\ map[i].base <= heap_start
         /\ pmm_pool_base + POOL <= map[i].base + map[i].length
=============================================================================
