-------------------------- MODULE KernelMainProofs --------------------------
(***************************************************************************)
(* Memory, for every memory map, pool size and number of processes: the    *)
(* layout is safe on every machine that is Fit, and the frames of the pool *)
(* keep their owners.  kernelMain with its devices implements the memory   *)
(* and paging of module Paging, so this holds for the whole of it.         *)
(***************************************************************************)
EXTENDS KernelMain, FiniteSetTheorems, TLAPS

\* A number below the modulus is its own remainder.
LEMMA ModSmall ==
  ASSUME NEW n \in Nat, NEW w \in Nat, n < w
  PROVE  n % w = n
  BY Z3

\* A remainder is a natural number.
LEMMA ModNat ==
  ASSUME NEW n \in Nat, NEW w \in Nat \ {0}
  PROVE  n % w \in Nat
  BY Z3

-----------------------------------------------------------------------------
(***************************************************************************)
(* The layout.                                                             *)
(***************************************************************************)

\* The walk has found the longest region among the entries it has seen.
ScanInv ==
  /\ heap_start \in Nat /\ heap_size \in Nat
  /\ \A j \in Candidates : j < entry => Length(map[j]) <= heap_size
  /\ \/ heap_size = 0
     \/ \E i \in Candidates : /\ i < entry
                              /\ heap_start = Start(map[i])
                              /\ heap_size = Length(map[i])

LayoutInv ==
  /\ map \in Seq(Regions) /\ entry \in Nat \ {0}
  /\ boot \in {"scan", "carved", "run"}
  /\ boot = "scan" => ScanInv
  /\ heap_start \in Nat /\ (boot # "scan" /\ Fit => heap_size \in Nat)
  /\ LayoutSafe

\* Start and Length of an entry are natural numbers.
LEMMA RegionTypes ==
  ASSUME NEW r \in Regions
  PROVE  Start(r) \in Nat /\ Length(r) \in Nat
  <1>1. r.length % Word \in Nat
    BY ModNat, BootAssumption DEF Regions
  <1> QED
    BY <1>1, BootAssumption DEF Start, Length, Regions

\* The part of a region that is counted lies inside it, above LOW.
LEMMA RegionInside ==
  ASSUME NEW r \in Regions, r.base + r.length < Word, Length(r) > 0
  PROVE  /\ LOW <= Start(r) /\ r.base <= Start(r)
         /\ Start(r) + Length(r) = r.base + r.length
  <1>1. r.length % Word = r.length
    BY ModSmall, BootAssumption DEF Regions
  <1>2. Length(r) = IF r.base >= LOW THEN r.length
                    ELSE IF LOW - r.base >= r.length THEN 0 ELSE r.length - (LOW - r.base)
    BY <1>1, Zenon DEF Length
  <1>3. r.base \in Nat /\ r.length \in Nat /\ LOW \in Nat
    BY BootAssumption DEF Regions
  <1>4. Start(r) = IF r.base < LOW THEN LOW ELSE r.base
    BY DEF Start
  <1> QED
    BY ONLY Length(r) > 0, <1>2, <1>3, <1>4

\* One turn of the loop over the map.
LEMMA ScanStep ==
  ASSUME LayoutInv, Scan
  PROVE  LayoutInv'
  <1> USE DEF LayoutInv
  <1>1. entry \in DOMAIN map /\ map[entry] \in Regions /\ entry \in Nat
    BY DEF Scan
  <1>2. Start(map[entry]) \in Nat /\ Length(map[entry]) \in Nat
    BY <1>1, RegionTypes
  <1>3. map' = map /\ boot' = "scan" /\ boot = "scan" /\ entry' = entry + 1
    BY DEF Scan
  <1>4. Candidates' = Candidates
    BY <1>3 DEF Candidates
  <1>5. \A j \in Candidates : j \in Nat /\ Length(map[j]) \in Nat
    BY RegionTypes DEF Candidates
  <1>6. ScanInv'
    <2> SUFFICES /\ heap_start' \in Nat /\ heap_size' \in Nat
                 /\ \A j \in Candidates : j < entry + 1 => Length(map[j]) <= heap_size'
                 /\ \/ heap_size' = 0
                    \/ \E i \in Candidates : /\ i < entry + 1
                                             /\ heap_start' = Start(map[i])
                                             /\ heap_size' = Length(map[i])
      BY <1>3, <1>4 DEF ScanInv
    <2>1. CASE Counts(map[entry]) /\ Length(map[entry]) > heap_size
      <3>1. heap_start' = Start(map[entry]) /\ heap_size' = Length(map[entry])
        BY <2>1 DEF Scan
      <3>2. entry \in Candidates
        BY <2>1, <1>1 DEF Candidates
      <3> HIDE DEF LayoutInv
      <3>3. ScanInv
        BY <1>3 DEF LayoutInv
      <3> QED
        BY <2>1, <3>1, <3>2, <3>3, <1>1, <1>2, <1>5 DEF ScanInv
    <2>2. CASE ~(Counts(map[entry]) /\ Length(map[entry]) > heap_size)
      <3>1. UNCHANGED <<heap_start, heap_size>>
        BY <2>2 DEF Scan
      <3>2. entry \in Candidates => Length(map[entry]) <= heap_size
        BY <2>2, <1>2, <1>3 DEF Candidates, ScanInv
      <3> QED
        BY <3>1, <3>2, <1>1, <1>3, <1>5 DEF ScanInv
    <2> QED
      BY <2>1, <2>2
  <1>7. LayoutSafe'
    BY <1>3 DEF LayoutSafe
  <1>8. heap_start' \in Nat
    BY <1>6 DEF ScanInv
  <1> QED
    BY <1>1, <1>3, <1>6, <1>7, <1>8

\* The division of the region that was found.
LEMMA CarveStep ==
  ASSUME LayoutInv, Carve
  PROVE  LayoutInv'
  <1>1. /\ map' = map /\ entry' = entry /\ boot' = "carved" /\ boot = "scan"
        /\ heap_start' = heap_start
        /\ heap_size' = Wrap(Capped - POOL)
        /\ pmm_pool_base' = Wrap(Wrap(heap_start + Capped) - POOL)
        /\ entry > Len(map)
    BY DEF Carve
  <1>2. map \in Seq(Regions) /\ entry \in Nat \ {0} /\ ScanInv
    BY <1>1 DEF LayoutInv
  <1>3. Candidates' = Candidates /\ Fit' = Fit
    BY <1>1 DEF Candidates, Fit, Longest
  <1>4. \A j \in Candidates : /\ j \in DOMAIN map /\ j < entry
                              /\ map[j] \in Regions /\ Length(map[j]) \in Nat
    BY <1>1, <1>2, RegionTypes DEF Candidates
  <1>5. ASSUME Fit
        PROVE  /\ heap_size' \in Nat /\ heap_size' > 0
               /\ heap_start + heap_size' = pmm_pool_base'
               /\ LOW <= heap_start /\ pmm_pool_base' + POOL <= CAP
               /\ \E i \in Candidates :
                    /\ map[i].base <= heap_start
                    /\ pmm_pool_base' + POOL <= map[i].base + map[i].length
    <2>1. \E i \in Candidates : /\ heap_start = Start(map[i])
                                /\ heap_size = Length(map[i])
                                /\ Longest(i)
      <3>1. PICK c \in Candidates : TRUE
        BY <1>5 DEF Fit
      <3>2. CASE heap_size = 0
        <4>1. Longest(c)
          BY <3>1, <3>2, <1>2, <1>4 DEF Longest, ScanInv
        <4>2. Length(map[c]) = 0
          BY <3>1, <3>2, <1>2, <1>4 DEF ScanInv
        <4> QED
          BY <4>1, <4>2, <1>4, <1>5, <3>1, BootAssumption DEF Fit
      <3>3. CASE heap_size # 0
        BY <3>3, <1>2, <1>4 DEF Longest, ScanInv
      <3> QED
        BY <3>2, <3>3
    <2>2. PICK i \in Candidates : /\ heap_start = Start(map[i])
                                  /\ heap_size = Length(map[i])
                                  /\ Longest(i)
      BY <2>1
    <2>3. /\ map[i].base + map[i].length < Word
          /\ heap_size > POOL /\ heap_start + POOL < CAP
          /\ i \in DOMAIN map
      BY <2>2, <1>4, <1>5 DEF Fit
    <2>4. /\ LOW <= heap_start /\ map[i].base <= heap_start
          /\ heap_start + heap_size = map[i].base + map[i].length
      BY <2>2, <2>3, <1>4, RegionInside, BootAssumption
    <2>5. /\ heap_start \in Nat /\ heap_size \in Nat
          /\ map[i].base \in Nat /\ map[i].length \in Nat
      BY <1>2, <1>4 DEF ScanInv, Regions
    <2>6. Capped = IF heap_start + heap_size > CAP THEN CAP - heap_start ELSE heap_size
      BY <2>3, <2>4, <2>5, BootAssumption, SMTT(30) DEF Capped, Wrap
    <2>7. /\ Capped \in Nat /\ POOL < Capped /\ Capped <= heap_size
          /\ heap_start + Capped <= CAP
      BY <2>3, <2>5, <2>6, BootAssumption
    <2>8. heap_size' = Capped - POOL /\ pmm_pool_base' = heap_start + Capped - POOL
      <3> HIDE DEF Capped
      <3>1. ASSUME NEW n \in Nat, n < Word PROVE Wrap(n) = n
        BY ONLY <3>1, BootAssumption DEF Wrap
      <3>2. /\ Capped - POOL \in Nat /\ Capped - POOL < Word
            /\ heap_start + Capped \in Nat /\ heap_start + Capped < Word
            /\ (heap_start + Capped) - POOL \in Nat /\ (heap_start + Capped) - POOL < Word
        BY ONLY <2>5, <2>7, BootAssumption
      <3>3. heap_size' = Capped - POOL
        BY ONLY <1>1, <3>1, <3>2
      <3>4. Wrap(heap_start + Capped) = heap_start + Capped
        BY ONLY <3>1, <3>2
      <3>5. pmm_pool_base' = Wrap((heap_start + Capped) - POOL)
        BY <1>1, <3>4
      <3>6. pmm_pool_base' = (heap_start + Capped) - POOL
        BY ONLY <3>1, <3>2, <3>5
      <3>7. (heap_start + Capped) - POOL = heap_start + Capped - POOL
        BY ONLY <2>5, <2>7, BootAssumption
      <3> QED
        BY <3>3, <3>6, <3>7, Zenon
    <2>9. /\ heap_size' \in Nat /\ heap_size' > 0
          /\ heap_start + heap_size' = pmm_pool_base'
          /\ pmm_pool_base' + POOL = heap_start + Capped
      BY <2>5, <2>7, <2>8, BootAssumption
    <2>10. pmm_pool_base' + POOL <= map[i].base + map[i].length
      BY <2>4, <2>5, <2>7, <2>9
    <2> QED
      BY <2>2, <2>4, <2>7, <2>9, <2>10
  <1>6. LayoutSafe'
    BY <1>1, <1>3, <1>5 DEF LayoutSafe
  <1> QED
    BY <1>1, <1>2, <1>3, <1>5, <1>6 DEF LayoutInv, ScanInv

-----------------------------------------------------------------------------
(***************************************************************************)
(* The frames.                                                             *)
(***************************************************************************)

KernelFrames == pmm_pool_base..(pmm_pool_base + KernelPDEs)

KernelDir ==
  [phys |-> pmm_pool_base, tables |-> [i \in Indices |-> pmm_pool_base + 1 + i],
   user |-> {}]

Dirs == [phys : Int, tables : [Indices -> Int], user : SUBSET Int]

\* A process's directory shares the kernel's tables and has a frame of its own,
\* or frame 0 when there was none.
Member(p) ==
  /\ dir[p].tables = dir[0].tables
  /\ dir[p].user = UserPDEs
  /\ dir[p].phys \in (Pool \ KernelFrames) \cup (IF dry THEN {0} ELSE {})
  /\ Code \in user_ptes[dir[0].tables[CodeIndex]]
  /\ p \in user_ptes[dir[0].tables[StackIndex]]

Running ==
  /\ pmm_pool_base \in Nat \ {0} /\ pmm_pool_base + POOL <= TotalFrames
  /\ dir \in [{0} \cup Pids -> Dirs] /\ dir[0] = KernelDir
  /\ user_ptes \in [Frames -> SUBSET Nat]
  /\ free_frames \in Nat /\ dry \in BOOLEAN
  /\ used \subseteq Frames /\ KernelFrames \subseteq used
  /\ \A p \in Pids : dir[p] # NoDir => Member(p)

Inv ==
  /\ LayoutInv
  /\ boot # "run" => /\ dir = [p \in {0} \cup Pids |-> NoDir]
                     /\ user_ptes = [f \in Frames |-> {}]
                     /\ dry = FALSE
  /\ boot = "run" => Running
  /\ FrameOwnership /\ FramesAccounted

\* The kernel directory and its tables take the first frames from b on.
LEMMA KernelDirFrames ==
  ASSUME NEW b \in Nat, NEW t, t = [i \in Indices |-> b + 1 + i]
  PROVE  {b} \cup {t[i] : i \in Indices} = b..(b + KernelPDEs)
  <1>1. ASSUME NEW f \in b..(b + KernelPDEs), f # b
        PROVE  \E i \in Indices : f = t[i]
    <2>1. f - b - 1 \in Indices /\ b + 1 + (f - b - 1) = f
      BY <1>1, PagingAssumption DEF Indices
    <2> QED
      BY <2>1
  <1>2. \A i \in Indices : t[i] \in b..(b + KernelPDEs)
    BY PagingAssumption DEF Indices
  <1>3. b \in b..(b + KernelPDEs)
    BY PagingAssumption
  <1> QED
    BY <1>1, <1>2, <1>3

\* The tables of the kernel directory are its frames after the first.
LEMMA KernelFacts ==
  Running =>
         /\ Indices # {} /\ CodeIndex \in Indices /\ StackIndex \in Indices
         /\ \A i \in Indices : dir[0].tables[i] \in KernelFrames
         /\ KernelOwned = KernelFrames
         /\ KernelFrames \subseteq Pool /\ Pool \subseteq Frames
         /\ 0 \in Frames /\ 0 \notin Pool
         /\ dir[0] # NoDir /\ 0 \notin Pids
  <1> HAVE Running
  <1>1. KernelPDEs \in Nat \ {0} /\ POOL > KernelPDEs /\ POOL \in Nat
    BY PagingAssumption, BootAssumption
  <1>2. CodeIndex \in Indices /\ StackIndex \in Indices
    <2>1. 1 % KernelPDEs \in 0..(KernelPDEs - 1)
      BY <1>1, Z3
    <2> QED
      BY <1>1, <2>1 DEF Indices, CodeIndex, StackIndex
  <1>3. /\ dir[0].phys = pmm_pool_base
        /\ dir[0].tables = [i \in Indices |-> pmm_pool_base + 1 + i]
    BY DEF Running, KernelDir
  <1>4. \A i \in Indices : i \in Int /\ 0 <= i /\ i <= KernelPDEs - 1
    BY <1>1 DEF Indices
  <1>5. \A i \in Indices : dir[0].tables[i] = pmm_pool_base + 1 + i
    BY <1>3
  <1>6. pmm_pool_base \in Nat \ {0} /\ pmm_pool_base + POOL <= TotalFrames
    BY DEF Running
  <1>7. \A i \in Indices : dir[0].tables[i] \in KernelFrames
    BY <1>1, <1>4, <1>5, <1>6 DEF KernelFrames
  <1>9. KernelOwned = KernelFrames
    BY <1>3, <1>6, KernelDirFrames DEF KernelOwned, KernelFrames
  <1>10. KernelFrames \subseteq Pool /\ Pool \subseteq Frames /\ 0 \in Frames /\ 0 \notin Pool
    BY <1>1, <1>6, PagingAssumption, BootAssumption DEF KernelFrames, Pool, Frames
  <1>11. dir[0] # NoDir
    BY <1>3, <1>6 DEF NoDir
  <1> QED
    BY <1>2, <1>7, <1>9, <1>10, <1>11, PagingAssumption

\* There are finitely many frames.
LEMMA FramesFinite == IsFiniteSet(Frames)
  BY FS_Interval, PagingAssumption DEF Frames

\* A process owns the frame of its directory and no table.
LEMMA OwnedFacts ==
  ASSUME Running, NEW p \in Pids, dir[p] # NoDir
  PROVE  OwnTables(p) = {} /\ Owned(p) = {dir[p].phys} /\ Live \ {0} \subseteq Pids
  <1>1. Member(p)
    BY DEF Running
  <1>2. OwnTables(p) = {}
    BY <1>1 DEF OwnTables, Member
  <1> QED
    BY <1>2 DEF Owned, Live

\* The layout variables of a running kernel do not change.
LEMMA LayoutKept ==
  ASSUME LayoutInv, UNCHANGED layout
  PROVE  LayoutInv'
  BY DEF LayoutInv, layout, ScanInv, LayoutSafe, Fit, Longest, Candidates

\* Paging starts with the frames of the pool the kernel did not take free.
LEMMA StartStep ==
  ASSUME Inv, StartPaging
  PROVE  Inv'
  <1>1. /\ boot = "carved" /\ boot' = "run" /\ Fit
        /\ UNCHANGED <<map, entry, heap_start, heap_size, pmm_pool_base, user_ptes, dry>>
    BY DEF StartPaging
  <1>2. LayoutInv'
    <2>1. Candidates' = Candidates /\ Fit' = Fit
      BY <1>1 DEF Fit, Longest, Candidates
    <2>2. LayoutSafe'
      BY <1>1, <2>1 DEF Inv, LayoutInv, LayoutSafe
    <2> QED
      BY <1>1, <2>1, <2>2 DEF Inv, LayoutInv
  <1>3. /\ heap_start \in Nat /\ heap_size \in Nat /\ heap_size > 0
        /\ heap_start + heap_size = pmm_pool_base /\ pmm_pool_base + POOL <= CAP
    BY <1>1 DEF Inv, LayoutInv, LayoutSafe
  <1>4. /\ used' = (Frames \ Pool) \cup KernelFrames
        /\ free_frames' = POOL - KernelPDEs - 1
        /\ dir' = [dir EXCEPT ![0] = KernelDir]
    BY DEF StartPaging, KernelFrames, KernelDir
  <1>5. /\ KernelFrames' = KernelFrames /\ Pool' = Pool /\ KernelDir' = KernelDir
    BY <1>1 DEF KernelFrames, Pool, KernelDir
  <1>6. /\ dir = [p \in {0} \cup Pids |-> NoDir] /\ dry = FALSE
        /\ user_ptes = [f \in Frames |-> {}]
    BY <1>1 DEF Inv
  <1>7. 0 \notin Pids /\ dir'[0] = KernelDir /\ \A p \in Pids : dir'[p] = NoDir
    BY <1>4, <1>6, PagingAssumption
  <1>8. pmm_pool_base \in Nat \ {0} /\ pmm_pool_base + POOL <= TotalFrames
    BY <1>3, PagingAssumption, BootAssumption
  <1>9. KernelFrames \subseteq Pool /\ Pool \subseteq Frames
    BY <1>8, PagingAssumption, BootAssumption DEF KernelFrames, Pool, Frames
  <1>10. KernelDir \in Dirs /\ NoDir \in Dirs
    BY <1>8, PagingAssumption DEF KernelDir, NoDir, Dirs, Indices
  <1>11. Running'
    <2>1. dir' \in [{0} \cup Pids -> Dirs]
      BY <1>4, <1>6, <1>10, Zenon
    <2>2. free_frames' \in Nat
      BY <1>4, PagingAssumption, BootAssumption
    <2>3. used' \subseteq Frames /\ KernelFrames \subseteq used'
      BY <1>4, <1>9
    <2> QED
      BY <1>1, <1>5, <1>6, <1>7, <1>8, <2>1, <2>2, <2>3, Zenon DEF Running
  <1>12. KernelOwned' = KernelFrames /\ Live' \ {0} = {}
    <2>1. KernelOwned' = KernelFrames
      BY <1>7, <1>8, KernelDirFrames DEF KernelOwned, KernelDir, KernelFrames
    <2> QED
      BY <1>5, <1>7, <2>1 DEF Live
  <1>13. Frames \ used' = Pool \ KernelFrames
    BY <1>4, <1>9
  <1>14. Cardinality(Pool \ KernelFrames) = POOL - KernelPDEs - 1
    <2>1. Pool \ KernelFrames = (pmm_pool_base + KernelPDEs + 1)..(pmm_pool_base + POOL - 1)
      BY <1>8, PagingAssumption, BootAssumption DEF KernelFrames, Pool
    <2>2. /\ pmm_pool_base + KernelPDEs + 1 \in Int /\ pmm_pool_base + POOL - 1 \in Int
          /\ pmm_pool_base + KernelPDEs + 1 <= pmm_pool_base + POOL
      BY <1>8, PagingAssumption, BootAssumption
    <2> DEFINE a == pmm_pool_base + KernelPDEs + 1
               b == pmm_pool_base + POOL - 1
    <2>3. Cardinality(a..b) = IF a > b THEN 0 ELSE b - a + 1
      BY <2>2, FS_Interval
    <2>4. (IF a > b THEN 0 ELSE b - a + 1) = POOL - KernelPDEs - 1
      BY <1>8, PagingAssumption, BootAssumption
    <2> QED
      BY <2>1, <2>3, <2>4, Zenon
  <1>15. FrameOwnership'
    BY <1>4, <1>12, <1>13, <1>14, Zenon DEF FrameOwnership
  <1>16. FramesAccounted'
    BY <1>5, <1>12, <1>13, <1>4, <1>9 DEF FramesAccounted
  <1> QED
    BY <1>1, <1>2, <1>11, <1>15, <1>16 DEF Inv

\* A new directory takes a frame nobody holds, or frame 0.
LEMMA CreateStep ==
  ASSUME Inv, NEW p \in Pids, CreateProcess(p)
  PROVE  Inv'
  <1>1. /\ boot = "run" /\ dir[p] = NoDir /\ user_ptes' = UserPTEs(p)
        /\ UNCHANGED layout /\ boot' = boot /\ pmm_pool_base' = pmm_pool_base
    BY DEF CreateProcess, layout
  <1>2. PICK f \in Frames :
          /\ AllocFrame(f)
          /\ dir' = [dir EXCEPT ![p] = [phys |-> f, tables |-> dir[0].tables,
                                        user |-> UserPDEs]]
    BY Zenon DEF CreateProcess
  <1>3. Running /\ FrameOwnership /\ FramesAccounted /\ LayoutInv
    BY <1>1 DEF Inv
  <1>4. /\ CodeIndex \in Indices /\ StackIndex \in Indices
        /\ \A i \in Indices : dir[0].tables[i] \in KernelFrames
        /\ KernelOwned = KernelFrames /\ KernelFrames \subseteq Pool /\ Pool \subseteq Frames
        /\ 0 \in Frames /\ 0 \notin Pool /\ dir[0] # NoDir /\ 0 \notin Pids
    BY <1>3, KernelFacts
  <1>5. /\ KernelFrames' = KernelFrames /\ Pool' = Pool /\ KernelDir' = KernelDir
    BY <1>1 DEF KernelFrames, Pool, KernelDir
  <1>6. /\ dir \in [{0} \cup Pids -> Dirs] /\ dir[0] = KernelDir
        /\ user_ptes \in [Frames -> SUBSET Nat] /\ free_frames \in Nat /\ dry \in BOOLEAN
        /\ used \subseteq Frames /\ KernelFrames \subseteq used
        /\ \A q \in Pids : dir[q] # NoDir => Member(q)
    BY <1>3 DEF Running
  <1>7. /\ dir'[0] = dir[0]
        /\ dir'[p].phys = f /\ dir'[p].tables = dir[0].tables /\ dir'[p].user = UserPDEs
        /\ \A q \in Pids : q # p => dir'[q] = dir[q]
    BY <1>2, <1>4, <1>6
  <1>8. /\ used' \subseteq Frames /\ used \subseteq used' /\ used' \subseteq used \cup {f}
        /\ free_frames' \in Nat /\ dry' \in BOOLEAN /\ (dry => dry')
        /\ ~dry' => f \notin used /\ used' = used \cup {f} /\ ~dry
        /\ ~dry' => free_frames' = IF free_frames > 0 THEN free_frames - 1 ELSE free_frames
        /\ (f \notin used) \/ (f = 0 /\ dry' = TRUE)
    <2>1. CASE /\ f \notin used /\ used' = used \cup {f} /\ dry' = dry
               /\ free_frames' = IF free_frames > 0 THEN free_frames - 1 ELSE free_frames
      <3>1. free_frames' \in Nat
        BY <2>1, <1>6
      <3> QED
        BY <2>1, <3>1, <1>2, <1>6, Zenon
    <2>2. CASE f = 0 /\ dry' = TRUE /\ used' = used /\ free_frames' = free_frames
      BY <2>2, <1>6, Zenon
    <2> QED
      BY <2>1, <2>2, <1>2, Zenon DEF AllocFrame, IsFirstFree
  <1>9. dir' \in [{0} \cup Pids -> Dirs]
    <2>1. UserPDEs \subseteq Int
      BY <1>4 DEF UserPDEs, Indices
    <2>2. [phys |-> f, tables |-> dir[0].tables, user |-> UserPDEs] \in Dirs
      BY <1>6, <2>1 DEF Dirs, Frames
    <2> QED
      BY <1>2, <1>6, <2>2
  <1>10. /\ user_ptes' \in [Frames -> SUBSET Nat]
         /\ \A g \in Frames : user_ptes[g] \subseteq user_ptes'[g]
         /\ Code \in user_ptes'[dir[0].tables[CodeIndex]]
         /\ p \in user_ptes'[dir[0].tables[StackIndex]]
    <2>1. Code \in Nat /\ p \in Nat
      BY PagingAssumption DEF Code
    <2> QED
      BY <1>1, <1>4, <1>6, <2>1 DEF UserPTEs
  <1>11. f \in (Pool \ KernelFrames) \cup (IF dry' THEN {0} ELSE {})
    <2>1. Frames \ used \subseteq Pool \cup (IF dry THEN {0} ELSE {})
      BY <1>1, <1>3 DEF FramesAccounted
    <2> QED
      BY <1>2, <1>6, <1>8, <2>1
  <1>12. ASSUME NEW q \in Pids, dir'[q] # NoDir
         PROVE  Member(q)'
    <2>1. CASE q = p
      BY <2>1, <1>5, <1>7, <1>10, <1>11 DEF Member
    <2>2. CASE q # p
      <3>1. dir'[q] = dir[q] /\ Member(q)
        BY <2>2, <1>6, <1>7, <1>12
      <3>2. /\ Code \in user_ptes'[dir[0].tables[CodeIndex]]
            /\ q \in user_ptes'[dir[0].tables[StackIndex]]
        BY <3>1, <1>4, <1>10 DEF Member
      <3>3. dir[q].phys \in (Pool \ KernelFrames) \cup (IF dry' THEN {0} ELSE {})
        BY <3>1, <1>8 DEF Member
      <3> QED
        BY <3>1, <3>2, <3>3, <1>5, <1>7 DEF Member
    <2> QED
      BY <2>1, <2>2
  <1>13. Running'
    BY <1>1, <1>3, <1>5, <1>6, <1>7, <1>8, <1>9, <1>10, <1>12 DEF Running
  <1>14. Live' \ {0} = (Live \ {0}) \cup {p}
    <2>1. dir'[p] # NoDir
      <3>1. f # -1
        BY ONLY f \in Frames, PagingAssumption DEF Frames
      <3>2. NoDir.phys = -1
        BY ONLY TRUE DEF NoDir
      <3> QED
        BY ONLY <1>7, <3>1, <3>2
    <2> QED
      BY <2>1, <1>4, <1>6, <1>7 DEF Live
  <1>15. /\ \A q \in Live \ {0} : Owned(q) = {dir[q].phys} /\ q \in Pids /\ q # p
         /\ \A q \in Live \ {0} : Owned(q)' = Owned(q)
         /\ Owned(p)' = {f}
    <2>1. \A q \in Live \ {0} : Owned(q) = {dir[q].phys} /\ q \in Pids /\ q # p
      BY <1>1, <1>3, OwnedFacts DEF Live
    <2>2. \A q \in Live' \ {0} : OwnTables(q)' = {}
      BY <1>12 DEF Live, Member, OwnTables
    <2> QED
      BY <2>1, <2>2, <1>7, <1>14 DEF Owned
  <1>16. FrameOwnership'
    <2> SUFFICES ASSUME ~dry'
                 PROVE  /\ free_frames' = Cardinality(Frames \ used')
                        /\ \A q \in Live' \ {0} : Owned(q)' \subseteq used' \cap Pool
                        /\ \A q, r \in Live' \ {0} : q # r => Owned(q)' \cap Owned(r)' = {}
      BY <1>5 DEF FrameOwnership
    <2>1. /\ f \notin used /\ used' = used \cup {f}
          /\ free_frames' = IF free_frames > 0 THEN free_frames - 1 ELSE free_frames
          /\ free_frames = Cardinality(Frames \ used)
          /\ \A q \in Live \ {0} : Owned(q) \subseteq used \cap Pool
          /\ \A q, r \in Live \ {0} : q # r => Owned(q) \cap Owned(r) = {}
      BY <1>1, <1>3, <1>8 DEF FrameOwnership
    <2>2. free_frames' = Cardinality(Frames \ used')
      <3>1. IsFiniteSet(Frames \ used) /\ f \in Frames \ used
        <4>1. Frames \ used \in SUBSET Frames
          OBVIOUS
        <4> QED
          BY <2>1, <4>1, FramesFinite, FS_Subset
      <3>2. /\ Cardinality((Frames \ used) \ {f}) = Cardinality(Frames \ used) - 1
            /\ Cardinality(Frames \ used) # 0
        <4>1. Cardinality((Frames \ used) \ {f}) = Cardinality(Frames \ used) - 1
          BY <3>1, FS_RemoveElement
        <4>2. Frames \ used # {}
          BY <3>1
        <4> QED
          BY <3>1, <4>1, <4>2, FS_EmptySet
      <3>3. Frames \ used' = (Frames \ used) \ {f}
        BY <2>1
      <3>4. free_frames \in Nat /\ free_frames # 0
        BY <1>6, <2>1, <3>2
      <3>5. free_frames' = free_frames - 1
        BY <2>1, <3>4
      <3> QED
        BY <2>1, <3>2, <3>3, <3>5, Zenon
    <2>3. f \in Pool
      BY <1>11
    <2> QED
      BY <1>14, <1>15, <2>1, <2>2, <2>3, SMTT(30)
  <1>17. FramesAccounted'
    <2>1. /\ Frames \ used \subseteq Pool \cup (IF dry THEN {0} ELSE {})
          /\ Pool \cap used \subseteq KernelOwned \cup UNION {Owned(q) : q \in Live \ {0}}
      BY <1>1, <1>3 DEF FramesAccounted
    <2>2. Frames \ used' \subseteq Pool \cup (IF dry' THEN {0} ELSE {})
      BY <2>1, <1>8
    <2>3. KernelOwned' = KernelOwned
      BY <1>7 DEF KernelOwned
    <2>4. ASSUME NEW g \in Pool \cap used'
          PROVE  g \in KernelOwned' \cup UNION {Owned(q)' : q \in Live' \ {0}}
      <3>1. CASE g \in used
        BY <3>1, <2>1, <2>3, <1>14, <1>15
      <3>2. CASE g = f
        BY <3>2, <1>14, <1>15, <1>4
      <3> QED
        BY <3>1, <3>2, <1>8
    <2> QED
      BY <1>5, <2>2, <2>4 DEF FramesAccounted
  <1>18. LayoutInv'
    BY <1>1, <1>3, LayoutKept
  <1> QED
    BY <1>1, <1>13, <1>16, <1>17, <1>18 DEF Inv

\* A destructor frees the frame of its directory and nothing of the kernel's.
LEMMA DestroyStep ==
  ASSUME Inv, NEW p \in Pids, Destroy(p)
  PROVE  Inv'
  <1>1. /\ dir[p] # NoDir /\ dir' = [dir EXCEPT ![p] = NoDir]
        /\ UNCHANGED layout /\ boot' = boot /\ pmm_pool_base' = pmm_pool_base
        /\ user_ptes' = user_ptes /\ dry' = dry
        /\ FreeFrames(OwnTables(p) \cup {dir[p].phys})
    BY DEF Destroy, layout
  <1>2. boot = "run" /\ Running /\ FrameOwnership /\ FramesAccounted /\ LayoutInv
    BY <1>1, Zenon DEF Inv
  <1>3. /\ KernelOwned = KernelFrames /\ KernelFrames \subseteq Pool /\ Pool \subseteq Frames
        /\ 0 \in Frames /\ 0 \notin Pool /\ dir[0] # NoDir /\ 0 \notin Pids
    BY <1>2, KernelFacts
  <1>4. /\ KernelFrames' = KernelFrames /\ Pool' = Pool /\ KernelDir' = KernelDir
    BY <1>1 DEF KernelFrames, Pool, KernelDir
  <1>5. /\ dir \in [{0} \cup Pids -> Dirs] /\ dir[0] = KernelDir
        /\ user_ptes \in [Frames -> SUBSET Nat] /\ free_frames \in Nat /\ dry \in BOOLEAN
        /\ used \subseteq Frames /\ KernelFrames \subseteq used
        /\ \A q \in Pids : dir[q] # NoDir => Member(q)
    BY <1>2 DEF Running
  <1>6. OwnTables(p) \cup {dir[p].phys} = {dir[p].phys}
    BY <1>1, <1>2, OwnedFacts
  <1> DEFINE f == dir[p].phys
  <1>7. f \in (Pool \ KernelFrames) \cup (IF dry THEN {0} ELSE {})
    BY <1>1, <1>5 DEF Member
  <1>8. used' = used \ {f} /\ free_frames' = free_frames + 1
    <2>1. Cardinality({f}) = 1
      BY FS_Singleton, Zenon
    <2> QED
      BY <1>1, <1>6, <2>1 DEF FreeFrames
  <1>9. /\ dir'[0] = dir[0] /\ dir'[p] = NoDir
        /\ \A q \in Pids : q # p => dir'[q] = dir[q]
    BY <1>1, <1>3, <1>5
  <1>10. Running'
    <2>1. NoDir \in Dirs
      BY SMTT(30) DEF NoDir, Dirs
    <2>2. dir' \in [{0} \cup Pids -> Dirs]
      BY <1>1, <1>5, <2>1
    <2>3. used' \subseteq Frames /\ KernelFrames \subseteq used'
      BY <1>3, <1>5, <1>7, <1>8
    <2>4. free_frames' \in Nat
      BY <1>5, <1>8, SMTT(30)
    <2>5. \A q \in Pids : dir'[q] # NoDir => Member(q)'
      BY <1>1, <1>4, <1>5, <1>9 DEF Member
    <2> QED
      BY <1>1, <1>2, <1>4, <1>5, <1>9, <2>2, <2>3, <2>4, <2>5, SMTT(30) DEF Running
  <1>11. Live' \ {0} = (Live \ {0}) \ {p} /\ p \in Live \ {0}
    BY <1>1, <1>3, <1>5, <1>9 DEF Live
  <1>12. /\ \A q \in Live \ {0} : Owned(q) = {dir[q].phys} /\ q \in Pids
         /\ \A q \in Live' \ {0} : Owned(q)' = Owned(q)
    <2>1. \A q \in Live \ {0} : Owned(q) = {dir[q].phys} /\ q \in Pids
      BY <1>2, OwnedFacts DEF Live
    <2>2. \A q \in Live' \ {0} : OwnTables(q)' = OwnTables(q)
      <3> SUFFICES ASSUME NEW q \in Live' \ {0} PROVE OwnTables(q)' = OwnTables(q)
        OBVIOUS
      <3>1. dir'[q] = dir[q] /\ dir'[0] = dir[0]
        BY ONLY q \in Live' \ {0}, <1>9, <1>11, <2>1
      <3> QED
        BY ONLY <3>1 DEF OwnTables
    <2> QED
      BY <2>1, <2>2, <1>9, <1>11 DEF Owned
  <1>13. FrameOwnership'
    <2> SUFFICES ASSUME ~dry
                 PROVE  /\ free_frames' = Cardinality(Frames \ used')
                        /\ \A q \in Live' \ {0} : Owned(q)' \subseteq used' \cap Pool
                        /\ \A q, r \in Live' \ {0} : q # r => Owned(q)' \cap Owned(r)' = {}
      BY <1>1, <1>4 DEF FrameOwnership
    <2>1. /\ free_frames = Cardinality(Frames \ used)
          /\ \A q \in Live \ {0} : Owned(q) \subseteq used \cap Pool
          /\ \A q, r \in Live \ {0} : q # r => Owned(q) \cap Owned(r) = {}
      BY <1>2 DEF FrameOwnership
    <2>2. f \in used /\ f \in Frames
      <3>1. Owned(p) = {f} /\ Owned(p) \subseteq used /\ used \subseteq Frames
        BY <2>1, <1>5, <1>11, <1>12
      <3> QED
        BY ONLY <3>1
    <2>3. free_frames' = Cardinality(Frames \ used')
      <3>1. IsFiniteSet(Frames \ used)
        <4>1. Frames \ used \in SUBSET Frames
          OBVIOUS
        <4> QED
          BY <4>1, FramesFinite, FS_Subset
      <3>2. Cardinality((Frames \ used) \cup {f}) = Cardinality(Frames \ used) + 1
        BY <2>2, <3>1, FS_AddElement, Zenon
      <3>3. Frames \ used' = (Frames \ used) \cup {f}
        BY <1>8, <2>2
      <3> QED
        BY <1>8, <2>1, <3>2, <3>3, Zenon
    <2> QED
      <3>1. \A q \in Live' \ {0} : q \in Live \ {0} /\ q # p /\ Owned(q)' = Owned(q)
        BY ONLY <1>11, <1>12
      <3>2. \A q, r \in Live' \ {0} : q # r => Owned(q)' \cap Owned(r)' = {}
        BY ONLY <2>1, <3>1
      <3>3. Owned(p) = {f} /\ p \in Live \ {0}
        BY ONLY <1>11, <1>12
      <3>4. \A q \in Live' \ {0} : Owned(q)' \subseteq used' \cap Pool
        <4> SUFFICES ASSUME NEW q \in Live' \ {0} PROVE Owned(q)' \subseteq used' \cap Pool
          OBVIOUS
        <4>1. Owned(q) \subseteq used \cap Pool /\ Owned(q) \cap {f} = {} /\ Owned(q)' = Owned(q)
          BY ONLY q \in Live' \ {0}, <2>1, <3>1, <3>3
        <4> QED
          BY ONLY <1>8, <4>1
      <3> QED
        BY <2>3, <3>2, <3>4
  <1>14. FramesAccounted'
    <2>1. /\ Frames \ used \subseteq Pool \cup (IF dry THEN {0} ELSE {})
          /\ Pool \cap used \subseteq KernelOwned \cup UNION {Owned(q) : q \in Live \ {0}}
      BY <1>2 DEF FramesAccounted
    <2>2. Frames \ used' \subseteq Pool \cup (IF dry' THEN {0} ELSE {})
      BY <2>1, <1>1, <1>7, <1>8
    <2>3. KernelOwned' = KernelOwned
      BY <1>9 DEF KernelOwned
    <2>4. ASSUME NEW g \in Pool \cap used'
          PROVE  g \in KernelOwned' \cup UNION {Owned(q)' : q \in Live' \ {0}}
      <3>1. g \in Pool \cap used /\ g # f
        BY <1>8
      <3>2. CASE g \in KernelOwned
        BY <3>2, <2>3
      <3>3. ASSUME NEW q \in Live \ {0}, g \in Owned(q)
            PROVE  q \in Live' \ {0} /\ g \in Owned(q)'
        BY <3>1, <3>3, <1>11, <1>12
      <3> QED
        BY <2>1, <3>1, <3>2, <3>3
    <2> QED
      BY <1>4, <2>2, <2>4 DEF FramesAccounted
  <1>15. LayoutInv'
    BY <1>1, <1>2, LayoutKept
  <1> QED
    BY <1>1, <1>2, <1>10, <1>13, <1>14, <1>15 DEF Inv

\* The invariant holds at the start and is kept by every step.
LEMMA Invariance == Spec => []Inv
  <1>1. Init => Inv
    <2> SUFFICES ASSUME Init PROVE Inv
      OBVIOUS
    <2>1. /\ boot = "scan" /\ map \in Maps /\ entry = 1
          /\ heap_start = 0 /\ heap_size = 0
      BY DEF Init, LayoutInit
    <2>2. map \in Seq(Regions)
      BY <2>1, BootAssumption
    <2>3. ScanInv
      BY <2>1, <2>2 DEF ScanInv, Candidates
    <2>4. LayoutInv
      BY <2>1, <2>2, <2>3 DEF LayoutInv, LayoutSafe
    <2> QED
      BY <2>1, <2>4 DEF Init, Inv, FrameOwnership, FramesAccounted
  <1>2. Inv /\ [Next]_vars => Inv'
    <2> SUFFICES ASSUME Inv, [Next]_vars PROVE Inv'
      BY SMTT(30)
    <2>1. ASSUME LayoutNext, UNCHANGED frames PROVE Inv'
      <3>1. LayoutInv' /\ boot' # "run" /\ boot # "run"
        BY <2>1, ScanStep, CarveStep DEF Inv, LayoutNext, Scan, Carve
      <3> QED
        BY <2>1, <3>1 DEF Inv, frames, FrameOwnership, FramesAccounted
    <2>2. CASE StartPaging
      BY <2>2, StartStep
    <2>3. CASE UNCHANGED vars
      <3>1. LayoutInv' /\ UNCHANGED <<boot, pmm_pool_base, used, free_frames, dir, user_ptes, dry>>
        BY <2>3, LayoutKept, SMTT(30) DEF Inv, vars, layout, frames
      <3>2. Running' = Running
        BY <3>1 DEF Running, KernelFrames, KernelDir, Member, Pool
      <3>3. FrameOwnership' = FrameOwnership /\ FramesAccounted' = FramesAccounted
        <4>1. /\ Live' = Live /\ KernelOwned' = KernelOwned /\ Pool' = Pool
              /\ \A p : Owned(p)' = Owned(p)
          BY <3>1 DEF Live, Owned, OwnTables, KernelOwned, Pool
        <4>2. FrameOwnership' = FrameOwnership
          BY ONLY <3>1, <4>1 DEF FrameOwnership
        <4>3. FramesAccounted' = FramesAccounted
          BY ONLY <3>1, <4>1 DEF FramesAccounted
        <4> QED
          BY <4>2, <4>3, SMTT(30)
      <3> QED
        BY <3>1, <3>2, <3>3 DEF Inv
    <2>4. CASE Stray
      BY <2>3, <2>4 DEF Stray
    <2>5. ASSUME NEW p \in Pids, CreateProcess(p) PROVE Inv'
      BY <2>5, CreateStep
    <2>6. ASSUME NEW p \in Pids, Destroy(p) PROVE Inv'
      BY <2>6, DestroyStep
    <2> QED
      BY <2>1, <2>2, <2>3, <2>4, <2>5, <2>6 DEF Next
  <1> QED
    BY <1>1, <1>2, PTL DEF Spec

-----------------------------------------------------------------------------
\* The loop over the memory map of kernelMain, for every map: heap and pool lie in
\* one usable region, apart, above the kernel and in the mapped range.
THEOREM LayoutIsSafe == Spec => []LayoutSafe
  <1>1. Inv => LayoutSafe
    BY DEF Inv, LayoutInv
  <1> QED
    BY <1>1, Invariance, PTL

\* The frames of the kernel's directory and tables are never free and never a
\* process's, for every number of processes and after any failure of AllocFrame.
THEOREM KernelKeepsFrames == Spec => []KernelFramesKept
  <1>1. Inv => KernelFramesKept
    <2> SUFFICES ASSUME Inv PROVE KernelFramesKept
      OBVIOUS
    <2>1. CASE boot # "run"
      BY <2>1 DEF Inv, KernelFramesKept, Live
    <2>2. CASE boot = "run"
      <3>1. Running
        BY <2>2 DEF Inv
      <3>2. KernelOwned = KernelFrames /\ KernelFrames \subseteq used
            /\ KernelFrames \subseteq Pool /\ 0 \notin Pool
        BY <3>1, KernelFacts DEF Running
      <3>3. \A p \in Live \ {0} : Owned(p) = {dir[p].phys} /\ Member(p)
        BY <3>1, OwnedFacts DEF Live, Running
      <3> QED
        BY <3>2, <3>3 DEF KernelFramesKept, Member
    <2> QED
      BY <2>1, <2>2
  <1> QED
    BY <1>1, Invariance, PTL

\* AllocFrame and ~PageDirectory: until the pool first runs dry no frame has two
\* owners and free_frames counts the free frames.
THEOREM FramesOwned == Spec => []FrameOwnership
  <1>1. Inv => FrameOwnership
    BY DEF Inv
  <1> QED
    BY <1>1, Invariance, PTL

\* AllocFrame and ~PageDirectory: no frame of the pool is lost, the kernel keeps its
\* own, and none outside the pool is ever free but frame 0.
THEOREM NoFrameLost == Spec => []PoolAccounted
  <1>1. Inv => FramesAccounted
    BY DEF Inv
  <1>2. KernelFramesKept /\ FramesAccounted => PoolAccounted
    BY DEF PoolAccounted
  <1> QED
    BY <1>1, <1>2, KernelKeepsFrames, Invariance, PTL

\* MapPage through the shared tables: a live process always reaches its image and
\* its own stack.
THEOREM ProcessReachesItsPages == Spec => []OwnPagesMapped
  <1>1. Inv => OwnPagesMapped
    <2> SUFFICES ASSUME Inv, NEW p \in Live \ {0}
                 PROVE  {<<CodeIndex, Code>>, <<StackIndex, p>>} \subseteq Accessible(p)
      BY DEF OwnPagesMapped
    <2>1. boot = "run" /\ Running
      BY DEF Inv, Live
    <2>2. Member(p)
      BY <2>1 DEF Running, Live
    <2>3. /\ CodeIndex \in dir[p].user /\ StackIndex \in dir[p].user
          /\ Code \in user_ptes[dir[p].tables[CodeIndex]]
          /\ p \in user_ptes[dir[p].tables[StackIndex]]
      BY <2>2 DEF Member, UserPDEs
    <2>4. ASSUME NEW i \in dir[p].user, NEW s \in user_ptes[dir[p].tables[i]]
          PROVE  <<i, s>> \in Accessible(p)
      <3> DEFINE Through(j) == {<<j, t>> : t \in user_ptes[dir[p].tables[j]]}
      <3>1. <<i, s>> \in Through(i)
        BY ONLY <2>4
      <3>2. Through(i) \in {Through(j) : j \in dir[p].user}
        BY ONLY <2>4, Zenon
      <3>3. Accessible(p) = UNION {Through(j) : j \in dir[p].user}
        BY ONLY TRUE, Zenon DEF Accessible
      <3> HIDE DEF Through
      <3> QED
        BY <3>1, <3>2, <3>3, Zenon
    <2>5. <<CodeIndex, Code>> \in Accessible(p) /\ <<StackIndex, p>> \in Accessible(p)
      BY ONLY <2>3, <2>4
    <2> QED
      BY ONLY <2>5
  <1> QED
    BY <1>1, Invariance, PTL

-----------------------------------------------------------------------------
(***************************************************************************)
(* kernelMain with its devices.                                            *)
(***************************************************************************)

\* The scan of the bus and the mount leave memory alone, and every other step of
\* kernelMain is one of Paging.
THEOREM MainImplementsPaging == MainSpec => Spec
  <1>1. MainInit => Init
    BY DEF MainInit
  <1>2. ASSUME [MainNext]_<<vars, devices>>
        PROVE  [Next]_vars
    <2>1. CASE Memory
      BY <2>1 DEF Memory, Next
    <2>2. CASE Attach
      BY <2>2 DEF Attach
    <2>3. CASE Processes
      BY <2>3 DEF Processes, Next
    <2>4. CASE UNCHANGED <<vars, devices>>
      BY <2>4
    <2> QED
      BY <1>2, <2>1, <2>2, <2>3, <2>4 DEF MainNext
  <1> QED
    BY <1>1, <1>2, PTL DEF MainSpec, Spec

\* The layout of memory and the ownership of frames, from the memory map to any
\* process that comes later, whatever is found on the bus.
THEOREM MainKeepsMemory ==
    MainSpec => [](LayoutSafe /\ FrameOwnership /\ PoolAccounted /\ OwnPagesMapped)
  BY MainImplementsPaging, LayoutIsSafe, FramesOwned, NoFrameLost,
     ProcessReachesItsPages, PTL
=============================================================================
