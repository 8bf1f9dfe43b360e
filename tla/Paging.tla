------------------------------- MODULE Paging -------------------------------
(***************************************************************************)
(* Physical frames and page directories: the bitmap of                     *)
(* PhysicalMemoryManager with its counter of free frames, and the          *)
(* PageDirectory objects of the kernel and of the processes.  Mappings are *)
(* identities, so of a page table entry only the PAGE_USER bit is kept.    *)
(* The frames are those of the pool that kernelMain carves (module Boot).  *)
(***************************************************************************)
EXTENDS Boot, FiniteSets

CONSTANTS
  TotalFrames, \* frames of the machine, from mem_upper
  KernelPDEs,  \* page tables of the kernel directory (4: 16 MB)
  CountBound,  \* largest free_frames explored
  Pids         \* pids of the processes

ASSUME PagingAssumption ==
  /\ TotalFrames \in Nat /\ TotalFrames >= CAP
  /\ KernelPDEs \in Nat \ {0} /\ POOL > KernelPDEs
  /\ CountBound \in Nat /\ CountBound >= POOL
  /\ Pids \subseteq Nat \ {0}

Frames == 0..(TotalFrames - 1)
Pool == pmm_pool_base..(pmm_pool_base + POOL - 1)
Indices == 0..(KernelPDEs - 1)

\* Process images are at 0x00400000, the stacks from 0x00C00000 on.
CodeIndex == 1 % KernelPDEs
StackIndex == KernelPDEs - 1
Code == 0

VARIABLES
  used,         \* frames whose bit in the bitmap is set
  free_frames,  \* PhysicalMemoryManager::free_frames
  dir,          \* PageDirectory by pid, 0 for the kernel's
  user_ptes,    \* by page table frame: the slots whose entry has PAGE_USER
  dry           \* history: AllocFrame has returned 0

frames == <<used, free_frames, dir, user_ptes, dry>>
vars == <<layout, frames>>

NoDir == [phys |-> -1, tables |-> [i \in Indices |-> -1], user |-> {}]
Live == {p \in {0} \cup Pids : dir[p] # NoDir}

Init ==
  /\ LayoutInit
  /\ used = {} /\ free_frames = 0
  /\ dir = [p \in {0} \cup Pids |-> NoDir]
  /\ user_ptes = [f \in Frames |-> {}]
  /\ dry = FALSE

\* PhysicalMemoryManager::Init marks everything used, MarkFree frees the pool, and
\* PagingManager::Init takes its lowest frames, for the kernel directory and then
\* for its tables.
StartPaging ==
  /\ boot = "carved"
  /\ Fit
  /\ LET taken == pmm_pool_base..(pmm_pool_base + KernelPDEs) IN
     /\ used' = (Frames \ Pool) \cup taken
     /\ free_frames' = POOL - KernelPDEs - 1
  /\ dir' = [dir EXCEPT ![0] = [phys |-> pmm_pool_base,
                                tables |-> [i \in Indices |-> pmm_pool_base + 1 + i],
                                user |-> {}]]
  /\ boot' = "run"
  /\ UNCHANGED <<map, entry, heap_start, heap_size, pmm_pool_base, user_ptes, dry>>

\* On a machine that is not Fit the kernel goes on with memory that may not be
\* there; nothing is said of it.
Stray == boot = "carved" /\ ~Fit /\ UNCHANGED vars

-----------------------------------------------------------------------------
\* PhysicalMemoryManager::AllocFrame returns the first free frame, or 0.
IsFirstFree(f) == f \notin used /\ \A g \in Frames : g < f => g \in used

\* A variant that does not set the bit.
AllocFrameNoBit(f) ==
  /\ f \in Frames
  /\ IsFirstFree(f)
  /\ free_frames' = IF free_frames > 0 THEN free_frames - 1 ELSE free_frames
  /\ UNCHANGED <<used, dry>>

AllocFrame(f) ==
  \/ /\ f \in Frames
     /\ IsFirstFree(f)
     /\ used' = used \cup {f}
     /\ free_frames' = IF free_frames > 0 THEN free_frames - 1 ELSE free_frames
     /\ UNCHANGED dry
  \/ /\ Frames \subseteq used
     /\ f = 0
     /\ dry' = TRUE
     /\ UNCHANGED <<used, free_frames>>

\* FreeFrame for each frame of a set, without a look at its bit.
FreeFrames(fs) ==
  /\ free_frames + Cardinality(fs) <= CountBound
  /\ used' = used \ fs
  /\ free_frames' = free_frames + Cardinality(fs)

\* MapPage(PAGE_USER_RW) over the image and the stack sets PAGE_USER on these
\* directory entries ...
UserPDEs == {CodeIndex, StackIndex}

\* A variant that maps the stack one slot too far.
UserPTEsShifted(p) ==
  [f \in Frames |->
    user_ptes[f] \cup (IF f = dir[0].tables[CodeIndex] THEN {Code} ELSE {})
                 \cup (IF f = dir[0].tables[StackIndex] THEN {p + 1} ELSE {})]

\* ... and on the entries of the tables behind them, which are the kernel's.
UserPTEs(p) ==
  [f \in Frames |->
    user_ptes[f] \cup (IF f = dir[0].tables[CodeIndex] THEN {Code} ELSE {})
                 \cup (IF f = dir[0].tables[StackIndex] THEN {p} ELSE {})]

\* The Process constructor: CreateUser copies the entries of the kernel
\* directory, so the tables are shared, then the user pages are mapped.
CreateProcess(p) ==
  /\ boot = "run"
  /\ dir[p] = NoDir
  /\ \E f \in Frames :
       /\ AllocFrame(f)
       /\ dir' = [dir EXCEPT ![p] = [phys |-> f, tables |-> dir[0].tables,
                                     user |-> UserPDEs]]
  /\ user_ptes' = UserPTEs(p)
  /\ UNCHANGED layout

\* A variant of the destructor that frees every table it can reach.
OwnTablesAll(p) == {dir[p].tables[i] : i \in Indices}

\* ~PageDirectory frees the tables that are not the kernel's and the directory.
OwnTables(p) == {dir[p].tables[i] : i \in {j \in Indices :
                                            dir[p].tables[j] # dir[0].tables[j]}}

Destroy(p) ==
  /\ dir[p] # NoDir
  /\ FreeFrames(OwnTables(p) \cup {dir[p].phys})
  /\ dir' = [dir EXCEPT ![p] = NoDir]
  /\ UNCHANGED <<layout, user_ptes, dry>>

Next ==
  \/ LayoutNext /\ UNCHANGED frames
  \/ StartPaging \/ Stray
  \/ \E p \in Pids : CreateProcess(p) \/ Destroy(p)

Spec == Init /\ [][Next]_vars
-----------------------------------------------------------------------------
(***************************************************************************)
(* Properties.                                                             *)
(***************************************************************************)

Owned(p) == {dir[p].phys} \cup OwnTables(p)
KernelOwned == {dir[0].phys} \cup {dir[0].tables[i] : i \in Indices}

\* The kernel's directory and tables, which every process walks, are never
\* freed or handed out, even when the pool runs dry: the destructor tells the
\* shared tables from its own (paging.cpp:22-25).
KernelFramesKept ==
  /\ boot = "run" => KernelOwned \subseteq used
  /\ \A p \in Live \ {0} : Owned(p) \cap KernelOwned = {}

\* As long as no allocation has failed, every frame of a process has one owner, is
\* marked used and comes from the pool, and the counter agrees with the bitmap
\* (paging.cpp:11-29, pmm.cpp:16-43).
FrameOwnership ==
  boot = "run" /\ ~dry =>
          /\ free_frames = Cardinality(Frames \ used)
          /\ \A p \in Live \ {0} : Owned(p) \subseteq used \cap Pool
          /\ \A p, q \in Live \ {0} : p # q => Owned(p) \cap Owned(q) = {}

\* The free frames, the kernel's and those of live directories make up the pool.
FramesAccounted ==
  boot = "run" =>
    /\ Frames \ used \subseteq Pool \cup (IF dry THEN {0} ELSE {})
    /\ Pool \cap used \subseteq KernelOwned \cup UNION {Owned(p) : p \in Live \ {0}}

\* No frame is lost, the kernel keeps its own, and none outside the pool, the heap's
\* above all, is ever free.  After the pool has run dry only frame 0 may be, which a
\* process took for its directory and gave back (paging.cpp:11-29, pmm.cpp:16-47).
PoolAccounted == KernelFramesKept /\ FramesAccounted

\* Pages ring 3 may touch through a directory.
Accessible(p) ==
  UNION {{<<i, s>> : s \in user_ptes[dir[p].tables[i]]} : i \in dir[p].user}

\* A process can touch its image and its own stack, whatever processes came and
\* went before (process.cpp:55-61).
OwnPagesMapped ==
  \A p \in Live \ {0} : {<<CodeIndex, Code>>, <<StackIndex, p>>} \subseteq Accessible(p)
=============================================================================
