----------------------------- MODULE Fat32Proofs ----------------------------
(***************************************************************************)
(* The table of the file system, for every size of the disk, every         *)
(* sequence of calls and any number of stops between two sector writes: no *)
(* chain of clusters runs in a circle, but through entry 0.                *)
(***************************************************************************)
EXTENDS Fat32, SequenceTheorems, FiniteSetTheorems, WellFoundedInduction, TLAPS

-----------------------------------------------------------------------------
\* Types.

Words0 == {Zero, Deleted, Dots, Junk}
DataWords == {Data(v, i) : v \in Values, i \in Nat}
Usable == 3..(Clusters - 1)
NameSet == {Last(p) : p \in FilePaths \cup DirPaths}
EntryWords == [tag : {"entry"}, name : NameSet, dir : BOOLEAN, cluster : Usable, size : Nat]
WordSet == Words0 \cup DataWords \cup EntryWords
Blocks == [1..WordsPer -> WordSet]
Dirs == {Root} \cup Usable

WriteOps ==
  [kind : {"write", "move"}, path : FilePaths, dir : Dirs, name : NameSet, data : Seq(Blocks),
   src : FilePaths, exists : BOOLEAN, cur : 0..Clusters, first : All, i : Nat \ {0}, grown : All]
DeleteOps == [kind : {"delete"}, path : FilePaths, dir : Dirs, name : NameSet, cur : 0..Clusters]
MkdirOps ==
  [kind : {"mkdir"}, path : DirPaths, dir : Dirs, name : NameSet, first : All, grown : All]

\* The table and the clusters, and the locals of the call under way.
TypeInv ==
  /\ fat1 \in [All -> 0..Clusters]
  /\ content \in [All -> Blocks]
  /\ pc \in {"free", "unlink"} => op \in WriteOps \cup DeleteOps
  /\ pc = "alloc" => op \in WriteOps \cup MkdirOps
  /\ pc \in {"data", "link", "seal", "last"} => op \in WriteOps
  /\ pc = "dots" => op \in MkdirOps
  /\ pc \in {"enter", "grow", "fill", "done"} => op \in WriteOps \cup MkdirOps

\* The numbers of clusters the call has taken, and what it has written of the file.
LocalInv ==
  /\ pc \in {"data", "link", "seal", "last"} => op.cur \in Usable
  /\ pc \in {"data", "link", "seal", "last", "dots", "enter", "grow", "fill"} =>
       op.first \in Usable
  /\ pc = "unlink" /\ op.kind # "delete" => op.first \in Usable
  /\ pc \in {"grow", "fill"} => op.grown \in Usable
  /\ pc \in {"free", "alloc"} /\ op.kind \in {"write", "move"} => op.i = 1
  /\ pc = "data" => op.data = <<>> \/ op.i <= Len(op.data)
  /\ pc = "link" => op.i < Len(op.data)
  /\ pc = "seal" => op.i <= Len(op.data)
  /\ pc \in {"data", "link"} => fat1[op.cur] = EndOfChain

\* The table has no circle but through entry 0: a rank falls along every other link.
Ranks(rank) ==
  /\ rank \in [All -> Nat]
  /\ \A c \in All \ {0} : fat1[c] \notin {0, EndOfChain} => rank[fat1[c]] < rank[c]

TableInv == \E rank : Ranks(rank)

FatInv == TypeInv /\ LocalInv /\ TableInv

\* The constants.
LEMMA Constants ==
  /\ Clusters \in Nat /\ Clusters > 3 /\ WordsPer \in Nat \ {0}
  /\ EndOfChain = Clusters /\ Root = 2 /\ Root \in All /\ 0 \in All /\ 1 \in All
  /\ Usable \subseteq All /\ Dirs \subseteq All /\ 0..Clusters = All \cup {EndOfChain}
  /\ All \subseteq Nat /\ All \subseteq 0..Clusters /\ EndOfChain \notin All
  BY FatAssumption DEF EndOfChain, Root, All, Usable, Dirs

-----------------------------------------------------------------------------
\* Chains.

\* A set of naturals has a least element.
LEMMA Least ==
  ASSUME NEW T \in SUBSET Nat, T # {}
  PROVE  \E x \in T : \A y \in T : x <= y
  <1> DEFINE R == OpToRel(<, Nat)
  <1>1. IsWellFoundedOn(R, Nat)
    BY NatLessThanWellFounded, Zenon
  <1>2. \A x \in Nat, y \in Nat : y < x => <<y, x>> \in R
    BY DEF OpToRel
  <1> HIDE DEF R
  <1>3. PICK x \in T : \A y \in T : ~ (<<y, x>> \in R)
    BY <1>1, WFMin, Zenon
  <1>4. ASSUME NEW y \in T PROVE x <= y
    <2>1. x \in Nat /\ y \in Nat
      OBVIOUS
    <2>2. ~ (y < x)
      BY <1>2, <1>3, <2>1, Zenon
    <2> QED
      BY ONLY <2>1, <2>2
  <1> QED
    BY <1>4

\* One turn of a loop over NextCluster, with the clusters s visited before.
Turn(s) ==
  IF s # <<>> /\ fat1[Last(s)] < EndOfChain THEN Append(s, fat1[Last(s)]) ELSE s
Start(c) == IF c < EndOfChain THEN <<c>> ELSE <<>>

\* f is the run of such a loop from c on.
Walks(c, f, m) == f = [n \in 0..m |-> IF n = 0 THEN Start(c) ELSE Turn(f[n - 1])]

\* The loop has a run of every length.
LEMMA ChainWalk ==
  ASSUME NEW c
  PROVE  \E f : Walks(c, f, Clusters) /\ Chain(c) = f[Clusters]
  <1> DEFINE Stuck == {m \in Nat : ~ \E f : Walks(c, f, m)}
  <1>1. Clusters \in Nat
    BY Constants
  <1>2. Stuck = {}
    <2> SUFFICES ASSUME Stuck # {} PROVE FALSE
      OBVIOUS
    <2>1. PICK m \in Stuck : \A k \in Stuck : m <= k
      BY Least, Zenon
    <2>2. m \in Nat /\ ~ \E f : Walks(c, f, m)
      OBVIOUS
    <2>3. m # 0
      <3> SUFFICES ASSUME m = 0 PROVE FALSE
        OBVIOUS
      <3> DEFINE g == [n \in 0..0 |-> Start(c)]
      <3>1. Walks(c, g, 0)
        BY DEF Walks
      <3> QED
        BY <2>2, <3>1, Zenon
    <2>4. m - 1 \in Nat /\ ~ (m <= m - 1)
      BY <2>2, <2>3
    <2>5. PICK g : Walks(c, g, m - 1)
      BY <2>1, <2>4, Zenon
    <2> DEFINE h == [n \in 0..m |-> IF n = m THEN Turn(g[m - 1]) ELSE g[n]]
    <2>6. Walks(c, h, m)
      <3>1. \A n \in 0..m : n # m => h[n] = g[n] /\ n \in 0..(m - 1)
        BY <2>4
      <3>2. h[m] = Turn(g[m - 1]) /\ h[m - 1] = g[m - 1]
        BY <2>2, <2>4
      <3>3. ASSUME NEW n \in 0..m
            PROVE  h[n] = IF n = 0 THEN Start(c) ELSE Turn(h[n - 1])
        <4>1. CASE n = m
          BY <4>1, <3>2, <2>3
        <4>2. CASE n # m
          <5>1. h[n] = g[n] /\ n \in 0..(m - 1)
            BY <4>2, <3>1
          <5>2. g[n] = IF n = 0 THEN Start(c) ELSE Turn(g[n - 1])
            BY <2>5, <5>1, Zenon DEF Walks
          <5>3. n # 0 => n - 1 \in 0..m /\ n - 1 # m
            BY <2>2, <5>1
          <5>4. n # 0 => h[n - 1] = g[n - 1]
            BY <3>1, <5>3
          <5> QED
            BY ONLY <5>1, <5>2, <5>4
        <4> QED
          BY <4>1, <4>2
      <3>4. h = [n \in 0..m |-> h[n]]
        OBVIOUS
      <3> HIDE DEF h
      <3> QED
        BY <3>3, <3>4, Zenon DEF Walks
    <2> QED
      BY <2>2, <2>6, Zenon
  <1>3. \E f : Walks(c, f, Clusters)
    BY <1>1, <1>2
  <1> DEFINE a == CHOOSE f : Walks(c, f, Clusters)
  <1>4. Walks(c, a, Clusters)
    BY <1>3, Zenon
  <1>5. Chain(c) = a[Clusters]
    BY Zenon DEF Chain, Walks, Turn, Start
  <1> QED
    BY <1>4, <1>5, Zenon

\* Before and after a turn.
LEMMA WalkTurns ==
  ASSUME NEW c, NEW f, Walks(c, f, Clusters)
  PROVE  f[0] = Start(c) /\ \A n \in 1..Clusters : f[n] = Turn(f[n - 1])
  <1>1. 0 \in 0..Clusters /\ \A n \in 1..Clusters : n \in 0..Clusters /\ n # 0
    BY Constants
  <1> QED
    BY <1>1, Zenon DEF Walks

\* One turn: the clusters stay in the table, each is the next one of that before it,
\* the ranks fall unless the loop has come through entry 0, and it goes on only where
\* it has not come to the end.
Visited(s, n, rank) ==
  /\ s \in Seq(All) /\ Len(s) \in 1..(n + 1)
  /\ fat1[s[Len(s)]] = EndOfChain \/ Len(s) = n + 1
  /\ \A i \in 1..Len(s) : i < Len(s) => s[i + 1] = fat1[s[i]]
  /\ (\A i \in 1..Len(s) : s[i] # 0) =>
       \A i, j \in 1..Len(s) : i < j => rank[s[j]] < rank[s[i]]

LEMMA TurnVisits ==
  ASSUME fat1 \in [All -> 0..Clusters], NEW rank, Ranks(rank),
         NEW n \in Nat, NEW s, Visited(s, n, rank)
  PROVE  Visited(Turn(s), n + 1, rank)
  <1>1. s \in Seq(All) /\ Len(s) \in Nat \ {0} /\ Len(s) <= n + 1
    BY DEF Visited
  <1> DEFINE x == s[Len(s)]
             y == fat1[x]
  <1>2. x \in All /\ y \in 0..Clusters /\ s # <<>> /\ Last(s) = x
    BY <1>1, ElementOfSeq DEF Last
  <1>3. CASE y = EndOfChain
    <2>1. Turn(s) = s
      BY <1>2, <1>3, Constants DEF Turn
    <2> QED
      BY <1>1, <1>3, <2>1 DEF Visited
  <1>4. CASE y # EndOfChain
    <2>1. /\ y \in All /\ y < EndOfChain /\ Len(s) = n + 1
          /\ x # 0 /\ y # 0 => rank[y] < rank[x]
      <3>1. y \in All
        BY <1>2, <1>4, Constants, Zenon
      <3>2. y < EndOfChain
        BY <3>1, Constants DEF All
      <3>3. x # 0 /\ y # 0 => rank[y] < rank[x]
        BY <1>2, <1>4, Zenon DEF Ranks
      <3>4. Len(s) = n + 1
        BY <1>4, Zenon DEF Visited
      <3> QED
        BY <3>1, <3>2, <3>3, <3>4
    <2> DEFINE t == Append(s, y)
    <2>2. Turn(s) = t
      BY <1>2, <2>1 DEF Turn
    <2>3. /\ t \in Seq(All) /\ Len(t) = Len(s) + 1 /\ t[Len(s) + 1] = y
          /\ \A i \in 1..Len(s) : t[i] = s[i]
      BY <1>1, <2>1, AppendProperties
    <2> HIDE DEF t
    <2>4. ASSUME \A k \in 1..Len(t) : t[k] # 0,
                 NEW i \in 1..Len(t), NEW j \in 1..Len(t), i < j
          PROVE  rank[t[j]] < rank[t[i]]
      <3>0. (\A k \in 1..Len(s) : s[k] # 0) /\ x # 0 /\ y # 0
        <4>1. \A k \in 1..Len(s) : k \in 1..Len(t)
          BY <1>1, <2>3
        <4>2. Len(s) \in 1..Len(s) /\ Len(s) + 1 \in 1..Len(t)
          BY <1>1, <2>3
        <4> QED
          BY <2>3, <2>4, <4>1, <4>2, Zenon
      <3>1. CASE j \in 1..Len(s)
        <4>1. i \in 1..Len(s)
          <5>1. \A l \in Nat, a, b \in Int : a \in 1..(l + 1) /\ b \in 1..l /\ a < b => a \in 1..l
            OBVIOUS
          <5>2. i \in Int /\ j \in Int
            OBVIOUS
          <5> QED
            BY <1>1, <2>3, <2>4, <3>1, <5>1, <5>2, Zenon
        <4>2. t[i] = s[i] /\ t[j] = s[j]
          BY <2>3, <3>1, <4>1, Zenon
        <4> QED
          BY <2>4, <3>0, <3>1, <4>1, <4>2, Zenon DEF Visited
      <3>2. CASE j = Len(s) + 1
        <4>1. i \in 1..Len(s) /\ Len(s) \in 1..Len(s) /\ t[i] = s[i] /\ t[j] = y
          BY <1>1, <2>3, <2>4, <3>2
        <4>2. i = Len(s) \/ rank[x] < rank[s[i]]
          BY <1>1, <3>0, <4>1 DEF Visited
        <4>3. rank[x] \in Nat /\ rank[y] \in Nat /\ rank[s[i]] \in Nat
          BY <1>1, <1>2, <2>1, <4>1, ElementOfSeq DEF Ranks
        <4> QED
          BY <2>1, <3>0, <4>1, <4>2, <4>3
      <3> QED
        BY <1>1, <2>3, <3>1, <3>2
    <2>5. Len(t) \in 1..((n + 1) + 1) /\ Len(t) = (n + 1) + 1
      BY <1>1, <2>1, <2>3
    <2>6. ASSUME NEW i \in 1..Len(t), i < Len(t) PROVE t[i + 1] = fat1[t[i]]
      <3>1. i \in 1..Len(s) /\ t[i] = s[i]
        BY <1>1, <2>3, <2>6
      <3>2. CASE i = Len(s)
        BY <2>3, <3>1, <3>2
      <3>3. CASE i # Len(s)
        <4>1. i < Len(s) /\ i + 1 \in 1..Len(s)
          BY <1>1, <3>1, <3>3
        <4> QED
          BY <2>3, <3>1, <4>1 DEF Visited
      <3> QED
        BY <3>2, <3>3
    <2> QED
      BY <2>2, <2>3, <2>4, <2>5, <2>6 DEF Visited
  <1> QED
    BY <1>3, <1>4

\* The loops over NextCluster end: a chain that does not come through entry 0 has no
\* cluster twice, so it comes to its end before the clusters run out; and one that
\* comes there ends there while the entry is reserved.
LEMMA ChainIs ==
  ASSUME TypeInv, TableInv, NEW c \in All
  PROVE  /\ Chain(c) \in Seq(All) /\ Len(Chain(c)) \in Nat \ {0}
         /\ Last(Chain(c)) \in All
         /\ Ends(c) \/ (0 \in Range(Chain(c)) /\ fat1[0] # EndOfChain)
  <1>1. fat1 \in [All -> 0..Clusters] /\ Clusters \in Nat /\ c < EndOfChain
    BY Constants DEF TypeInv, All
  <1>2. PICK rank : Ranks(rank)
    BY Zenon DEF TableInv
  <1>3. PICK f : Walks(c, f, Clusters) /\ Chain(c) = f[Clusters]
    BY ChainWalk, Zenon
  <1>4. f[0] = Start(c) /\ \A n \in 1..Clusters : f[n] = Turn(f[n - 1])
    BY <1>3, WalkTurns
  <1> DEFINE Bad == {n \in 0..Clusters : ~Visited(f[n], n, rank)}
  <1>5. Bad = {}
    <2> SUFFICES ASSUME Bad # {} PROVE FALSE
      OBVIOUS
    <2>1. PICK n \in Bad : \A k \in Bad : n <= k
      <3>1. Bad \in SUBSET Nat
        BY <1>1
      <3> QED
        BY <3>1, Least, Zenon
    <2>2. n \in 0..Clusters /\ ~Visited(f[n], n, rank)
      BY <2>1
    <2>3. n # 0
      <3>1. f[0] = <<c>>
        BY <1>1, <1>4 DEF Start
      <3>2. Visited(<<c>>, 0, rank)
        BY DEF Visited
      <3> QED
        BY <2>2, <3>1, <3>2
    <2>4. n - 1 \in Nat /\ n - 1 \in 0..Clusters /\ n \in 1..Clusters /\ ~ (n <= n - 1)
          /\ (n - 1) + 1 = n
      BY <1>1, <2>2, <2>3
    <2>5. Visited(f[n - 1], n - 1, rank)
      BY <2>1, <2>4
    <2>6. Visited(Turn(f[n - 1]), (n - 1) + 1, rank)
      BY <1>1, <1>2, <2>4, <2>5, TurnVisits
    <2> QED
      BY <1>4, <2>2, <2>4, <2>6
  <1> DEFINE s == Chain(c)
  <1>6. Visited(s, Clusters, rank)
    <2>1. Clusters \in 0..Clusters
      BY <1>1
    <2> QED
      BY <1>3, <1>5, <2>1
  <1> HIDE DEF s
  <1>7. s \in Seq(All) /\ Len(s) \in Nat \ {0} /\ s[Len(s)] \in All /\ Last(s) = s[Len(s)]
    <2>1. s \in Seq(All) /\ Len(s) \in Nat \ {0}
      BY <1>1, <1>6 DEF Visited
    <2> QED
      BY <2>1, ElementOfSeq DEF Last
  <1>8. ASSUME \A i \in 1..Len(s) : s[i] # 0 PROVE Len(s) # Clusters + 1
    <2> SUFFICES ASSUME Len(s) = Clusters + 1 PROVE FALSE
      OBVIOUS
    <2>1. IsFiniteSet(All) /\ Cardinality(All) = Clusters
      BY <1>1, FS_Interval DEF All
    <2>2. IsFiniteSet(1..(Clusters + 1)) /\ Cardinality(1..(Clusters + 1)) = Clusters + 1
      BY <1>1, FS_Interval
    <2>3. s \in [1..(Clusters + 1) -> All]
      BY <1>7, LenProperties
    <2>4. Cardinality(All) < Cardinality(1..(Clusters + 1))
      BY <1>1, <2>1, <2>2
    <2>5. PICK i \in 1..(Clusters + 1), j \in 1..(Clusters + 1) : i # j /\ s[i] = s[j]
      <3> DEFINE D == 1..(Clusters + 1)
      <3>1. IsFiniteSet(D) /\ Cardinality(All) < Cardinality(D) /\ s \in [D -> All]
        BY <2>2, <2>3, <2>4
      <3> HIDE DEF D
      <3>2. \E i, j \in D : i # j /\ s[i] = s[j]
        BY ONLY <2>1, <3>1, FS_PigeonHole
      <3> QED
        BY <3>2 DEF D
    <2>6. i < j \/ j < i
      BY <1>1, <2>5
    <2>7. rank[s[i]] < rank[s[j]] \/ rank[s[j]] < rank[s[i]]
      BY <1>6, <1>8, <2>6 DEF Visited
    <2>8. rank[s[i]] \in Nat
      BY <1>2, <2>3 DEF Ranks
    <2> QED
      BY <2>5, <2>7, <2>8
  <1>9. ASSUME fat1[s[Len(s)]] # EndOfChain
        PROVE  0 \in Range(s) /\ fat1[0] # EndOfChain
    <2>1. PICK i \in 1..Len(s) : s[i] = 0
      BY <1>6, <1>8, <1>9 DEF Visited
    <2>2. 0 \in Range(s)
      BY <1>7, <2>1 DEF Range
    <2>3. CASE i = Len(s)
      BY <1>9, <2>1, <2>2, <2>3
    <2>4. CASE i # Len(s)
      <3>1. i < Len(s) /\ i + 1 \in 1..Len(s)
        BY <1>7, <2>4
      <3>2. s[i + 1] = fat1[0] /\ s[i + 1] \in All
        BY <1>6, <1>7, <2>1, <3>1, ElementOfSeq DEF Visited
      <3> QED
        BY <2>2, <3>2, Constants
    <2> QED
      BY <2>3, <2>4
  <1> QED
    BY <1>7, <1>9, Zenon DEF s, Ends

-----------------------------------------------------------------------------
\* Reading.

\* The place of an entry in its directory: which cluster, and where in it.
LEMMA Place ==
  ASSUME NEW l \in Nat, NEW w \in Nat \ {0}, NEW p \in 1..(l * w)
  PROVE  ((p - 1) \div w) + 1 \in 1..l /\ ((p - 1) % w) + 1 \in 1..w
  <1> DEFINE q == (p - 1) \div w
             r == (p - 1) % w
  <1>1. p \in Int /\ l * w \in Int
    BY Z3
  <1>2. p - 1 \in Nat /\ p - 1 < l * w
    BY <1>1, Z3
  <1>3. q \in Int /\ r \in 0..(w - 1) /\ p - 1 = w * q + r
    BY <1>2, Z3
  <1> HIDE DEF q, r
  <1>4. q >= 0
    <2> SUFFICES ASSUME q <= -1 PROVE FALSE
      BY <1>3
    <2>1. w * q <= -w
      BY <1>3, Z3
    <2> QED
      BY ONLY <1>2, <1>3, <2>1, w \in Nat, Z3
  <1>5. q < l
    <2> SUFFICES ASSUME q >= l PROVE FALSE
      BY <1>3
    <2>1. w * q >= l * w
      BY <1>3, Z3
    <2> QED
      BY ONLY <1>1, <1>2, <1>3, <2>1, w \in Nat, Z3
  <1> QED
    BY <1>3, <1>4, <1>5 DEF q, r

\* Among the words only entries have the tag of one.
LEMMA EntryWord ==
  ASSUME NEW w \in WordSet, IsEntry(w)
  PROVE  w \in EntryWords
  <1>1. w \notin Words0
    BY DEF Words0, IsEntry, Zero, Deleted, Dots, Junk
  <1>2. w \notin DataWords
    BY DEF DataWords, Data, IsEntry
  <1> QED
    BY <1>1, <1>2, Zenon DEF WordSet

\* The words of a directory are words, and are where ClusterOf and IndexOf say.
LEMMA WordsAre ==
  ASSUME TypeInv, TableInv, NEW dir \in All, NEW p \in DOMAIN Words(dir)
  PROVE  /\ Words(dir)[p] \in WordSet
         /\ ClusterOf(dir, p) \in All /\ IndexOf(p) \in 1..WordsPer
  <1> DEFINE ch == Chain(dir)
             k == ((p - 1) \div WordsPer) + 1
             j == ((p - 1) % WordsPer) + 1
  <1>1. ch \in Seq(All) /\ Len(ch) \in Nat /\ WordsPer \in Nat \ {0}
    BY ChainIs, Constants
  <1>2. p \in 1..(Len(ch) * WordsPer) /\ Words(dir)[p] = content[ch[k]][j]
    BY Zenon DEF Words
  <1>3. ClusterOf(dir, p) = ch[k] /\ IndexOf(p) = j
    BY DEF ClusterOf, IndexOf
  <1>4. k \in 1..Len(ch) /\ j \in 1..WordsPer
    BY <1>1, <1>2, Place
  <1> HIDE DEF ch, k, j
  <1>5. ch[k] \in All
    BY <1>1, <1>4, ElementOfSeq
  <1>6. content[ch[k]][j] \in WordSet
    BY <1>4, <1>5, Zenon DEF TypeInv, Blocks
  <1> QED
    BY <1>2, <1>3, <1>4, <1>5, <1>6

\* What FindEntry finds is an entry, and where it says.
LEMMA EntriesAre ==
  ASSUME TypeInv, TableInv, NEW dir \in All, NEW name
  PROVE  /\ Entry(dir, name) \subseteq EntryWords
         /\ \A p \in FindEntry(dir, name) :
              ClusterOf(dir, p) \in All /\ IndexOf(p) \in 1..WordsPer
  <1>1. ASSUME NEW p \in FindEntry(dir, name)
        PROVE  /\ Words(dir)[p] \in EntryWords
               /\ ClusterOf(dir, p) \in All /\ IndexOf(p) \in 1..WordsPer
    <2>1. p \in DOMAIN Words(dir) /\ IsEntry(Words(dir)[p])
      BY DEF FindEntry, Matches
    <2> QED
      BY <2>1, WordsAre, EntryWord
  <1> QED
    BY <1>1 DEF Entry

\* ResolveParentDir and ResolvePath.
LEMMA PathsAre ==
  ASSUME TypeInv, TableInv, NEW path
  PROVE  ResolveParentDir(path) \subseteq Dirs /\ ResolvePath(path) \subseteq EntryWords
  <1>1. ResolveParentDir(path) \subseteq Dirs
    <2>1. Root \in All
      BY Constants
    <2>2. \A x \in Entry(Root, path[1]) : x.cluster \in Usable
      BY <2>1, EntriesAre DEF EntryWords
    <2> QED
      BY <2>2 DEF ResolveParentDir, Dirs
  <1>2. \A d \in ResolveParentDir(path) : Entry(d, Last(path)) \subseteq EntryWords
    BY <1>1, Constants, EntriesAre, Zenon
  <1> QED
    BY <1>1, <1>2 DEF ResolvePath

\* ReadFile gives clusters of words.
LEMMA ReadIs ==
  ASSUME TypeInv, TableInv, NEW path, NEW data \in ReadFile(path)
  PROVE  data \in Seq(Blocks)
  <1>1. PICK e \in ResolvePath(path) :
          data = LET ch == Chain(e.cluster) IN
                 [i \in 1..e.size |-> IF i <= Len(ch) THEN content[ch[i]] ELSE Filled(Junk)]
    BY Zenon DEF ReadFile
  <1>2. e.cluster \in All /\ e.size \in Nat
    <2>1. e \in EntryWords
      BY PathsAre
    <2>2. e.cluster \in Usable /\ e.size \in Nat
      BY <2>1 DEF EntryWords
    <2> QED
      BY <2>2, Constants, Zenon
  <1> DEFINE ch == Chain(e.cluster)
             n == e.size
             B(i) == IF i <= Len(ch) THEN content[ch[i]] ELSE Filled(Junk)
  <1>3. ch \in Seq(All) /\ Len(ch) \in Nat
    BY <1>2, ChainIs
  <1>4. Filled(Junk) \in Blocks
    BY Zenon DEF Filled, Blocks, WordSet, Words0
  <1>5. ASSUME NEW i \in 1..n PROVE B(i) \in Blocks
    <2>1. CASE i <= Len(ch)
      <3>1. i \in 1..Len(ch)
        BY <1>2, <1>3, <2>1
      <3>2. ch[i] \in All
        BY <1>3, <3>1, ElementOfSeq
      <3> QED
        BY <2>1, <3>2 DEF TypeInv
    <2>2. CASE ~ (i <= Len(ch))
      BY <1>4, <2>2
    <2> QED
      BY <2>1, <2>2
  <1>6. data = [i \in 1..n |-> B(i)]
    BY <1>1, Zenon
  <1> HIDE DEF B, n
  <1>7. n \in Nat
    BY <1>2 DEF n
  <1>8. data \in [1..n -> Blocks]
    BY <1>5, <1>6
  <1> QED
    BY <1>7, <1>8, SeqDef

-----------------------------------------------------------------------------
\* Writing the table.

\* AllocCluster finds a free cluster.
LEMMA AllocIs ==
  ASSUME NEW c \in AllocCluster
  PROVE  c \in Usable /\ fat1[c] = 0
  BY DEF AllocCluster, Usable

\* SetFATEntry leaves the table without a circle if it ends a chain, frees a cluster,
\* or links another one to a cluster that is free.
LEMMA TableStep ==
  ASSUME TypeInv, TableInv, NEW c \in All, NEW v, fat1' = [fat1 EXCEPT ![c] = v],
         v = EndOfChain \/ v = 0 \/ (v \in Usable /\ fat1[v] = 0 /\ v # c)
  PROVE  TableInv' /\ fat1' \in [All -> 0..Clusters]
  <1>1. v \in 0..Clusters /\ (v \in Usable => v \in All /\ v # 0 /\ v # EndOfChain)
    BY Constants DEF Usable
  <1>2. fat1 \in [All -> 0..Clusters]
    BY DEF TypeInv
  <1>3. /\ fat1' \in [All -> 0..Clusters] /\ fat1'[c] = v
        /\ \A x \in All : x # c => fat1'[x] = fat1[x]
    BY <1>1, <1>2
  <1>4. PICK rank : Ranks(rank)
    BY Zenon DEF TableInv
  <1>5. /\ rank \in [All -> Nat]
        /\ \A x \in All \ {0} : fat1[x] \notin {0, EndOfChain} => rank[fat1[x]] < rank[x]
    BY <1>4 DEF Ranks
  <1>6. \E new : new \in [All -> Nat]
                 /\ \A x \in All \ {0} :
                      fat1'[x] \notin {0, EndOfChain} => new[fat1'[x]] < new[x]
    <2>1. CASE v \in {0, EndOfChain}
      <3>1. \A x \in All \ {0} : fat1'[x] \notin {0, EndOfChain} => rank[fat1'[x]] < rank[x]
        BY <1>3, <1>5, <2>1
      <3> QED
        BY <1>5, <3>1
    <2>2. CASE v \in Usable /\ fat1[v] = 0 /\ v # c
      <3> DEFINE new == [x \in All |-> IF x = v THEN 0 ELSE rank[x] + 1]
      <3>1. /\ new \in [All -> Nat] /\ new[v] = 0
            /\ \A x \in All : x # v => new[x] = rank[x] + 1 /\ rank[x] \in Nat
        BY <1>1, <1>5, <2>2
      <3> HIDE DEF new
      <3>2. ASSUME NEW x \in All \ {0}, fat1'[x] \notin {0, EndOfChain}
            PROVE  new[fat1'[x]] < new[x]
        <4>1. x # v
          BY <1>1, <1>3, <2>2, <3>2
        <4>2. new[x] = rank[x] + 1 /\ rank[x] \in Nat
          BY <3>1, <4>1
        <4>3. CASE fat1'[x] = v
          BY <3>1, <4>2, <4>3
        <4>4. CASE fat1'[x] # v
          <5> DEFINE y == fat1[x]
          <5>1. fat1'[x] = y /\ y \in All /\ rank[y] < rank[x]
            BY <1>2, <1>3, <1>5, <3>2, <4>4, Constants
          <5>2. new[y] = rank[y] + 1 /\ rank[y] \in Nat
            BY <3>1, <4>4, <5>1
          <5> QED
            BY <4>2, <5>1, <5>2
        <4> QED
          BY <4>3, <4>4
      <3> QED
        BY <3>1, <3>2
    <2> QED
      BY <2>1, <2>2
  <1>7. TableInv'
    BY <1>6 DEF TableInv, Ranks
  <1> QED
    BY <1>3, <1>7
\* A step that does not write the table.
LEMMA TableSame ==
  ASSUME TableInv, fat1' = fat1
  PROVE  TableInv'
  BY DEF TableInv, Ranks

\* WriteCluster and WriteWord.
LEMMA ContentStep ==
  ASSUME TypeInv, NEW c \in All, NEW ws \in Blocks
  PROVE  [content EXCEPT ![c] = ws] \in [All -> Blocks]
  BY DEF TypeInv

LEMMA WordStep ==
  ASSUME TypeInv, NEW c \in All, NEW i \in 1..WordsPer, NEW w \in WordSet
  PROVE  [content EXCEPT ![c][i] = w] \in [All -> Blocks]
  <1>1. content \in [All -> Blocks] /\ content[c] \in [1..WordsPer -> WordSet]
    BY DEF TypeInv, Blocks
  <1>2. [content[c] EXCEPT ![i] = w] \in Blocks
    BY <1>1 DEF Blocks
  <1> QED
    BY <1>1, <1>2

\* Between calls nothing but the disk matters.
LEMMA Rests ==
  ASSUME FatInv, fat1' = fat1, content' \in [All -> Blocks], pc' \in {"idle", "mount"}
  PROVE  FatInv'
  <1>1. TableInv'
    BY TableSame DEF FatInv
  <1>2. TypeInv'
    BY DEF FatInv, TypeInv
  <1>3. LocalInv'
    BY DEF LocalInv
  <1> QED
    BY <1>1, <1>2, <1>3 DEF FatInv

-----------------------------------------------------------------------------
(***************************************************************************)
(* The steps.                                                              *)
(***************************************************************************)

\* The last name of a path.
LEMMA NameIs ==
  ASSUME NEW path \in FilePaths \cup DirPaths
  PROVE  Last(path) \in NameSet
  BY Zenon DEF NameSet

\* WriteFile before the loop that frees the old clusters.
LEMMA StartWriteStep ==
  ASSUME FatInv, NEW kind \in {"write", "move"}, NEW path \in FilePaths,
         NEW data \in Seq(Blocks), NEW src \in FilePaths,
         StartWrite(kind, path, data, src), UNCHANGED <<fat1, content>>
  PROVE  FatInv'
  <1>1. TypeInv /\ TableInv
    BY DEF FatInv
  <1>2. PICK dir \in ResolveParentDir(path) :
          op' = [kind |-> kind, path |-> path, dir |-> dir, name |-> Last(path),
                 data |-> data, src |-> src, exists |-> Entry(dir, Last(path)) # {},
                 cur |-> First(Entry(dir, Last(path))), first |-> 0, i |-> 1, grown |-> 0]
    BY Zenon DEF StartWrite
  <1>3. pc' = "free"
    BY Zenon DEF StartWrite
  <1>4. dir \in Dirs /\ dir \in All
    BY <1>1, PathsAre, Constants, Zenon
  <1> DEFINE old == Entry(dir, Last(path))
  <1>5. First(old) \in 0..Clusters
    <2>1. old \subseteq EntryWords
      BY <1>1, <1>4, EntriesAre
    <2> HIDE DEF old
    <2>2. CASE old = {}
      BY <2>2, Constants DEF First
    <2>3. CASE old # {}
      <3>1. PICK x : x = CHOOSE y \in old : TRUE
        OBVIOUS
      <3>2. x \in old
        BY <2>3, <3>1, Zenon
      <3>3. x.cluster \in Usable
        BY <2>1, <3>2 DEF EntryWords
      <3>4. First(old) = x.cluster
        BY <2>3, <3>1, Zenon DEF First
      <3> QED
        BY <3>3, <3>4, Constants, Zenon
    <2> QED
      BY <2>2, <2>3
  <1>6. op' \in WriteOps /\ op'.i = 1
    <2>1. PICK e : e \in BOOLEAN /\ e = (old # {})
      BY Zenon
    <2>2. PICK f : f \in 0..Clusters /\ f = First(old)
      BY <1>5
    <2>3. op' = [kind |-> kind, path |-> path, dir |-> dir, name |-> Last(path),
                 data |-> data, src |-> src, exists |-> e,
                 cur |-> f, first |-> 0, i |-> 1, grown |-> 0]
      BY <1>2, <2>1, <2>2, Zenon
    <2>4. Last(path) \in NameSet /\ 0 \in All
      BY NameIs, Constants
    <2> QED
      BY <1>4, <2>1, <2>2, <2>3, <2>4 DEF WriteOps
  <1>7. TypeInv'
    BY <1>1, <1>3, <1>6 DEF TypeInv
  <1>8. LocalInv'
    BY <1>3, <1>6 DEF LocalInv
  <1> QED
    BY <1>1, <1>7, <1>8, TableSame DEF FatInv

\* DeleteFile before that loop.
LEMMA StartDeleteStep ==
  ASSUME FatInv, NEW path \in FilePaths, NEW fs, StartDelete(path, fs),
         UNCHANGED <<fat1, content>>
  PROVE  FatInv'
  <1>1. TypeInv /\ TableInv
    BY DEF FatInv
  <1>0. PICK dir \in ResolveParentDir(path) :
          \E e \in Entry(dir, Last(path)) :
            /\ op' = [kind |-> "delete", path |-> path, dir |-> dir,
                      name |-> Last(path), cur |-> e.cluster]
            /\ pc' = "free"
    BY Zenon DEF StartDelete
  <1>2. PICK e \in Entry(dir, Last(path)) :
          /\ op' = [kind |-> "delete", path |-> path, dir |-> dir,
                    name |-> Last(path), cur |-> e.cluster]
          /\ pc' = "free"
    BY <1>0, Zenon
  <1>3. dir \in Dirs /\ dir \in All
    BY <1>1, PathsAre, Constants, Zenon
  <1>4. e.cluster \in 0..Clusters
    <2>1. e \in EntryWords
      BY <1>1, <1>3, EntriesAre
    <2>2. e.cluster \in Usable
      BY <2>1 DEF EntryWords
    <2> QED
      BY <2>2, Constants, Zenon
  <1>5. op' \in DeleteOps /\ op'.kind = "delete"
    <2>1. Last(path) \in NameSet
      BY NameIs
    <2> QED
      BY <1>2, <1>3, <1>4, <2>1 DEF DeleteOps
  <1>6. TypeInv'
    BY <1>1, <1>2, <1>5 DEF TypeInv
  <1>7. LocalInv'
    BY <1>2, <1>5 DEF LocalInv
  <1> QED
    BY <1>1, <1>6, <1>7, TableSame DEF FatInv

\* The calls begin.
LEMMA CallStep ==
  ASSUME FatInv, WriteFile \/ CopyOrMove \/ DeleteFile \/ MakeDir
  PROVE  FatInv'
  <1>1. TypeInv /\ TableInv
    BY DEF FatInv
  <1>2. UNCHANGED <<fat1, content>>
    BY DEF WriteFile, CopyOrMove, DeleteFile, MakeDir, NoWrite, disk
  <1>3. CASE WriteFile
    <2>1. PICK path \in FilePaths, v \in Values, n \in Sizes :
            StartWrite("write", path, [i \in 1..n |-> Filled(Data(v, i))], path)
      BY <1>3, Zenon DEF WriteFile
    <2>2. n \in Nat
      BY FatAssumption
    <2> DEFINE data == [i \in 1..n |-> Filled(Data(v, i))]
    <2>3. \A i \in 1..n : Filled(Data(v, i)) \in Blocks
      <3>1. \A i \in 1..n : i \in Nat
        BY <2>2
      <3>2. \A i \in 1..n : Data(v, i) \in WordSet
        <4>1. \A x \in Values, i \in Nat : Data(x, i) \in DataWords
          BY DEF DataWords
        <4> QED
          BY <3>1, <4>1, Zenon DEF WordSet
      <3> QED
        BY <3>2, Zenon DEF Filled, Blocks
    <2>4. data \in [1..n -> Blocks]
      BY <2>3
    <2>5. data \in Seq(Blocks)
      <3> HIDE DEF data
      <3> QED
        BY <2>2, <2>4, SeqDef
    <2> QED
      BY <1>2, <2>1, <2>5, StartWriteStep
  <1>4. CASE CopyOrMove
    <2>1. PICK src \in FilePaths, dst \in FilePaths, kind \in {"write", "move"} :
            \E data \in ReadFile(src) : StartWrite(kind, dst, data, src)
      BY <1>4, Zenon DEF CopyOrMove
    <2>2. PICK data \in ReadFile(src) : StartWrite(kind, dst, data, src)
      BY <2>1, Zenon
    <2>3. data \in Seq(Blocks)
      BY <1>1, ReadIs
    <2> QED
      BY <1>2, <2>2, <2>3, StartWriteStep
  <1>5. CASE DeleteFile
    <2>1. PICK path \in FilePaths : StartDelete(path, files)
      BY <1>5, Zenon DEF DeleteFile
    <2> QED
      BY <1>2, <2>1, StartDeleteStep
  <1>6. CASE MakeDir
    <2>1. PICK path \in DirPaths :
            op' = [kind |-> "mkdir", path |-> path, dir |-> Root,
                   name |-> Last(path), first |-> 0, grown |-> 0]
      BY <1>6, Zenon DEF MakeDir
    <2>2. pc' = "alloc"
      BY <1>6 DEF MakeDir
    <2>3. Last(path) \in NameSet /\ Root \in Dirs /\ 0 \in All
      BY NameIs, Constants DEF Dirs
    <2>4. op' \in MkdirOps /\ op'.kind = "mkdir"
      BY <2>1, <2>3 DEF MkdirOps
    <2>5. TypeInv'
      BY <1>1, <1>2, <2>2, <2>4 DEF TypeInv
    <2>6. LocalInv'
      BY <2>2, <2>4 DEF LocalInv
    <2> QED
      BY <1>1, <1>2, <2>5, <2>6, TableSame DEF FatInv
  <1> QED
    BY <1>3, <1>4, <1>5, <1>6

\* The kinds of call.
LEMMA Kinds ==
  /\ op \in WriteOps => op.kind \in {"write", "move"}
  /\ op \in DeleteOps => op.kind = "delete"
  /\ op \in MkdirOps => op.kind = "mkdir"
  BY DEF WriteOps, DeleteOps, MkdirOps

\* The loop that frees a chain.
LEMMA FreeStep ==
  ASSUME FatInv, Free
  PROVE  FatInv'
  <1>1. TypeInv /\ TableInv /\ pc = "free" /\ content' = content
    BY DEF FatInv, Free
  <1>2. op \in WriteOps \cup DeleteOps /\ (op.kind # "delete" => op.i = 1)
    BY <1>1, Kinds DEF FatInv, TypeInv, LocalInv
  <1>3. CASE op.cur \in 2..(Clusters - 1)
    <2>1. /\ fat1' = [fat1 EXCEPT ![op.cur] = 0] /\ pc' = "free"
          /\ op' = [op EXCEPT !.cur = fat1[op.cur]]
      BY <1>1, <1>3 DEF Free, SetFATEntry
    <2>2. op.cur \in All
      BY <1>3, Constants DEF All
    <2>3. TableInv' /\ fat1' \in [All -> 0..Clusters]
      BY <1>1, <2>1, <2>2, TableStep, Zenon
    <2>4. fat1[op.cur] \in 0..Clusters
      BY <1>1, <2>2 DEF TypeInv
    <2>5. op' \in WriteOps \cup DeleteOps /\ (op'.kind # "delete" => op'.i = 1)
      <3>1. CASE op \in WriteOps
        <4>1. op' \in WriteOps /\ op'.i = op.i /\ op'.kind = op.kind
          BY <2>1, <2>4, <3>1 DEF WriteOps
        <4> QED
          BY <1>2, <4>1
      <3>2. CASE op \in DeleteOps
        BY <2>1, <2>4, <3>2 DEF DeleteOps
      <3> QED
        BY <1>2, <3>1, <3>2
    <2>6. TypeInv'
      BY <1>1, <2>1, <2>3, <2>5 DEF TypeInv
    <2>7. LocalInv'
      BY <2>1, <2>5 DEF LocalInv
    <2> QED
      BY <2>3, <2>6, <2>7 DEF FatInv
  <1>4. CASE op.cur \notin 2..(Clusters - 1)
    <2>1. /\ fat1' = fat1 /\ op' = op
          /\ pc' = IF op.kind = "delete" THEN "unlink" ELSE "alloc"
      BY <1>1, <1>4 DEF Free, NoWrite, disk
    <2>2. op.kind # "delete" => op \in WriteOps
      BY <1>2, Kinds
    <2>3. TypeInv'
      BY <1>1, <1>2, <2>1, <2>2 DEF TypeInv
    <2>4. LocalInv'
      BY <1>2, <2>1 DEF LocalInv
    <2> QED
      BY <1>1, <2>1, <2>3, <2>4, TableSame DEF FatInv
  <1> QED
    BY <1>3, <1>4

\* The call returns.
LEMMA ReturnStep ==
  ASSUME FatInv, NEW fs, Return(fs), fat1' = fat1, content' \in [All -> Blocks]
  PROVE  FatInv'
  BY Rests DEF Return

\* A call fails, with nothing written in the step.
LEMMA FailStep ==
  ASSUME FatInv, Fail, NoWrite
  PROVE  FatInv'
  <1>1. fat1' = fat1 /\ content' \in [All -> Blocks]
    BY DEF FatInv, TypeInv, NoWrite, disk
  <1> QED
    BY <1>1, ReturnStep DEF Fail

\* The first cluster of a file or a directory.
LEMMA AllocStep ==
  ASSUME FatInv, Alloc
  PROVE  FatInv'
  <1>1. TypeInv /\ TableInv /\ pc = "alloc" /\ content' = content
    BY Zenon DEF FatInv, Alloc
  <1>2. op \in WriteOps \cup MkdirOps /\ (op.kind # "mkdir" => op.i = 1)
    BY <1>1, Kinds DEF FatInv, TypeInv, LocalInv
  <1>3. CASE NoWrite /\ Fail
    BY <1>3, FailStep
  <1>4. CASE \E c \in AllocCluster :
               /\ SetFATEntry(c, EndOfChain)
               /\ op' = IF op.kind = "mkdir" THEN [op EXCEPT !.first = c]
                        ELSE [op EXCEPT !.first = c, !.cur = c]
               /\ pc' = IF op.kind = "mkdir" THEN "dots" ELSE "data"
    <2>1. PICK c \in AllocCluster :
            /\ SetFATEntry(c, EndOfChain)
            /\ op' = IF op.kind = "mkdir" THEN [op EXCEPT !.first = c]
                     ELSE [op EXCEPT !.first = c, !.cur = c]
            /\ pc' = IF op.kind = "mkdir" THEN "dots" ELSE "data"
      BY <1>4, Zenon
    <2>2. c \in Usable /\ c \in All /\ c \in 0..Clusters
      BY AllocIs, Constants, Zenon
    <2>3. fat1' = [fat1 EXCEPT ![c] = EndOfChain]
      BY <2>1 DEF SetFATEntry
    <2>4. TableInv' /\ fat1' \in [All -> 0..Clusters]
      BY <1>1, <2>2, <2>3, TableStep, Zenon
    <2>5. fat1'[c] = EndOfChain
      BY <1>1, <2>2, <2>3 DEF TypeInv
    <2>6. CASE op \in WriteOps
      <3>1. op.kind # "mkdir"
        BY <2>6, Kinds
      <3>2. op' = [op EXCEPT !.first = c, !.cur = c] /\ pc' = "data"
        BY <2>1, <3>1
      <3>3. /\ op' \in WriteOps /\ op'.first = c /\ op'.cur = c
            /\ op'.i = 1 /\ op'.data \in Seq(Blocks)
        BY <1>2, <2>2, <2>6, <3>1, <3>2, Zenon DEF WriteOps
      <3>4. op'.data = <<>> \/ op'.i <= Len(op'.data)
        <4>1. PICK d : d = op'.data
          OBVIOUS
        <4>2. d = <<>> \/ 1 <= Len(d)
          BY <3>3, <4>1, EmptySeq, LenProperties
        <4> QED
          BY <3>3, <4>1, <4>2
      <3>5. TypeInv'
        BY <1>1, <2>4, <3>2, <3>3 DEF TypeInv
      <3>6. LocalInv'
        BY <2>2, <2>5, <3>2, <3>3, <3>4 DEF LocalInv
      <3> QED
        BY <2>4, <3>5, <3>6 DEF FatInv
    <2>7. CASE op \in MkdirOps
      <3>1. op' = [op EXCEPT !.first = c] /\ pc' = "dots"
        BY <2>1, <2>7, Kinds
      <3>2. op' \in MkdirOps /\ op'.first = c
        BY <2>2, <2>7, <3>1 DEF MkdirOps
      <3>3. TypeInv'
        BY <1>1, <2>4, <3>1, <3>2 DEF TypeInv
      <3>4. LocalInv'
        BY <2>2, <3>1, <3>2 DEF LocalInv
      <3> QED
        BY <2>4, <3>3, <3>4 DEF FatInv
    <2> QED
      BY <1>2, <2>6, <2>7
  <1> QED
    BY <1>3, <1>4, Zenon DEF Alloc

\* The clusters of a file, one by one.
LEMMA ChainStep ==
  ASSUME FatInv, WriteData \/ Link \/ Seal \/ LastCluster
  PROVE  FatInv'
  <1>1. TypeInv /\ TableInv /\ LocalInv
    BY DEF FatInv
  <1>2. pc \in {"data", "link", "seal", "last"}
    BY Zenon DEF WriteData, Link, Seal, LastCluster
  <1>3. /\ op \in WriteOps /\ op.cur \in Usable /\ op.first \in Usable /\ op.cur \in All
        /\ op.data \in Seq(Blocks) /\ op.i \in Nat \ {0} /\ op.exists \in BOOLEAN
    BY <1>1, <1>2, Constants DEF TypeInv, LocalInv, WriteOps
  <1>4. op.kind \in {"write", "move"} /\ Len(op.data) \in Nat
    BY <1>3, Kinds, LenProperties
  <1>5. CASE WriteData
    <2> DEFINE ws == IF op.data = <<>> THEN Filled(Zero) ELSE op.data[op.i]
    <2>1. /\ pc = "data" /\ fat1' = fat1 /\ op' = op
          /\ content' = [content EXCEPT ![op.cur] = ws]
          /\ pc' = IF op.i < Len(op.data) THEN "link" ELSE "last"
      BY <1>5 DEF WriteData, WriteCluster
    <2>2. ws \in Blocks
      <3>1. CASE op.data = <<>>
        <4>1. Filled(Zero) \in Blocks
          BY Zenon DEF Filled, Blocks, WordSet, Words0
        <4> QED
          BY <3>1, <4>1
      <3>2. CASE op.data # <<>>
        <4>1. op.i \in 1..Len(op.data)
          BY <1>1, <1>3, <1>4, <2>1, <3>2 DEF LocalInv
        <4> QED
          BY <1>3, <3>2, <4>1, ElementOfSeq
      <3> QED
        BY <3>1, <3>2
    <2>3. content' \in [All -> Blocks]
      BY <1>1, <1>3, <2>1, <2>2, ContentStep
    <2>4. TypeInv'
      BY <1>1, <1>3, <2>1, <2>3 DEF TypeInv
    <2>5. LocalInv'
      BY <1>1, <1>3, <2>1 DEF LocalInv
    <2> QED
      BY <1>1, <2>1, <2>4, <2>5, TableSame DEF FatInv
  <1>6. CASE Link
    <2>1. CASE NoWrite /\ Fail
      BY <2>1, FailStep
    <2>2. CASE \E c \in AllocCluster :
                 /\ SetFATEntry(op.cur, c)
                 /\ op' = [op EXCEPT !.cur = c, !.i = @ + 1]
                 /\ pc' = "seal"
      <3>1. PICK c \in AllocCluster :
              /\ SetFATEntry(op.cur, c)
              /\ op' = [op EXCEPT !.cur = c, !.i = @ + 1]
              /\ pc' = "seal"
        BY <2>2, Zenon
      <3>2. c \in Usable /\ fat1[c] = 0 /\ c \in 0..Clusters
        BY AllocIs, Constants, Zenon
      <3>3. pc = "link" /\ content' = content /\ fat1' = [fat1 EXCEPT ![op.cur] = c]
        BY <1>6, <3>1, Zenon DEF Link, SetFATEntry
      <3>4. fat1[op.cur] = EndOfChain /\ op.i < Len(op.data)
        BY <1>1, <3>3 DEF LocalInv
      <3>5. c # op.cur
        BY <3>2, <3>4, Constants
      <3>6. TableInv' /\ fat1' \in [All -> 0..Clusters]
        BY <1>1, <1>3, <3>2, <3>3, <3>5, TableStep, Zenon
      <3>7. /\ op' \in WriteOps /\ op'.cur = c /\ op'.i = op.i + 1
            /\ op'.first = op.first /\ op'.data = op.data
        <4>1. PICK j : j \in Nat \ {0} /\ j = op.i + 1
          BY <1>3
        <4>2. op' = [op EXCEPT !.cur = c, !.i = j]
          BY <1>3, <3>1, <4>1 DEF WriteOps
        <4>3. op' \in WriteOps /\ op'.cur = c /\ op'.i = j
          BY <1>3, <3>2, <4>1, <4>2, Zenon DEF WriteOps
        <4>4. op'.first = op.first /\ op'.data = op.data
          BY <1>3, <4>2 DEF WriteOps
        <4> QED
          BY <4>1, <4>3, <4>4
      <3>8. op'.i <= Len(op'.data)
        BY <1>3, <1>4, <3>4, <3>7
      <3>9. TypeInv'
        BY <1>1, <3>1, <3>3, <3>6, <3>7 DEF TypeInv
      <3>10. LocalInv'
        BY <1>3, <3>1, <3>2, <3>7, <3>8 DEF LocalInv
      <3> QED
        BY <3>6, <3>9, <3>10 DEF FatInv
    <2> QED
      BY <1>6, <2>1, <2>2, Zenon DEF Link
  <1>7. CASE Seal \/ LastCluster
    <2>1. fat1' = [fat1 EXCEPT ![op.cur] = EndOfChain] /\ content' = content /\ op' = op
      BY <1>7 DEF Seal, LastCluster, SetFATEntry
    <2>2. TableInv' /\ fat1' \in [All -> 0..Clusters]
      BY <1>1, <1>3, <2>1, TableStep, Zenon
    <2>3. fat1'[op.cur] = EndOfChain
      BY <1>1, <1>3, <2>1 DEF TypeInv
    <2>4. \/ pc = "seal" /\ pc' = "data"
          \/ pc = "last" /\ pc' \in {"unlink", "enter"}
      BY <1>7 DEF Seal, LastCluster
    <2>5. TypeInv'
      BY <1>1, <1>3, <2>1, <2>2, <2>4 DEF TypeInv
    <2>6. LocalInv'
      BY <1>1, <1>3, <1>4, <2>1, <2>3, <2>4 DEF LocalInv
    <2> QED
      BY <2>2, <2>5, <2>6 DEF FatInv
  <1> QED
    BY <1>5, <1>6, <1>7

\* What BuildDirEntry makes is an entry.
LEMMA NewEntryIs ==
  ASSUME op \in WriteOps \cup MkdirOps, op.first \in Usable
  PROVE  NewEntry \in WordSet
  <1>1. CASE op \in WriteOps
    <2>1. op.kind # "mkdir" /\ op.name \in NameSet /\ Len(op.data) \in Nat
      BY <1>1, LenProperties DEF WriteOps
    <2>2. NewEntry = [tag |-> "entry", name |-> op.name, dir |-> FALSE, cluster |-> op.first,
                      size |-> Len(op.data)]
      BY <2>1, Zenon DEF NewEntry
    <2>3. NewEntry \in EntryWords
      BY <2>1, <2>2 DEF EntryWords
    <2> QED
      BY <2>3, Zenon DEF WordSet
  <1>2. CASE op \in MkdirOps
    <2>1. op.kind = "mkdir" /\ op.name \in NameSet
      BY <1>2 DEF MkdirOps
    <2>2. NewEntry = [tag |-> "entry", name |-> op.name, dir |-> TRUE, cluster |-> op.first,
                      size |-> 0]
      BY <2>1, Zenon DEF NewEntry
    <2>3. NewEntry \in EntryWords
      BY <2>1, <2>2 DEF EntryWords
    <2> QED
      BY <2>3, Zenon DEF WordSet
  <1> QED
    BY <1>1, <1>2

\* The other words a call writes.
LEMMA PlainWords ==
  Zero \in WordSet /\ Deleted \in WordSet /\ Dots \in WordSet
  BY Zenon DEF WordSet, Words0

\* MarkEntryDeleted.
LEMMA UnlinkStep ==
  ASSUME FatInv, Unlink
  PROVE  FatInv'
  <1>1. TypeInv /\ TableInv /\ LocalInv /\ pc = "unlink"
    BY DEF FatInv, Unlink
  <1>2. op \in WriteOps \cup DeleteOps /\ (op.kind # "delete" => op.first \in Usable)
    BY <1>1 DEF TypeInv, LocalInv
  <1>3. op.dir \in All
    BY <1>2, Constants, Zenon DEF WriteOps, DeleteOps
  <1>4. fat1' = fat1 /\ content' \in [All -> Blocks]
    <2>1. CASE NoWrite
      BY <1>1, <2>1 DEF NoWrite, disk, TypeInv
    <2>2. CASE \E p \in FindEntry(op.dir, op.name) :
                 WriteWord(ClusterOf(op.dir, p), IndexOf(p), Deleted)
      <3>1. PICK p \in FindEntry(op.dir, op.name) :
              WriteWord(ClusterOf(op.dir, p), IndexOf(p), Deleted)
        BY <2>2
      <3>2. PICK c \in All, i \in 1..WordsPer : c = ClusterOf(op.dir, p) /\ i = IndexOf(p)
        BY <1>1, <1>3, EntriesAre
      <3>3. fat1' = fat1 /\ content' = [content EXCEPT ![c][i] = Deleted]
        BY <3>1, <3>2 DEF WriteWord
      <3> QED
        BY <1>1, <3>3, WordStep, PlainWords
    <2> QED
      BY <2>1, <2>2 DEF Unlink
  <1>5. CASE op.kind = "delete"
    <2>1. Return(Promise(Missing))
      BY <1>5, Zenon DEF Unlink
    <2> QED
      BY <1>4, <2>1, ReturnStep
  <1>6. CASE op.kind # "delete"
    <2>1. pc' = "enter" /\ op' = op
      BY <1>6, Zenon DEF Unlink
    <2>2. op \in WriteOps
      BY <1>2, <1>6, Kinds
    <2>3. TypeInv'
      BY <1>1, <1>4, <2>1, <2>2 DEF TypeInv
    <2>4. LocalInv'
      BY <1>2, <1>6, <2>1 DEF LocalInv
    <2> QED
      BY <1>1, <1>4, <2>3, <2>4, TableSame DEF FatInv
  <1> QED
    BY <1>5, <1>6

\* The cluster of a new directory.
LEMMA DotsStep ==
  ASSUME FatInv, WriteDots
  PROVE  FatInv'
  <1> DEFINE ws == [k \in 1..WordsPer |-> IF k <= 2 THEN Dots ELSE Zero]
  <1>1. TypeInv /\ TableInv /\ LocalInv
    BY DEF FatInv
  <1>2. /\ pc = "dots" /\ pc' = "enter" /\ op' = op /\ fat1' = fat1
        /\ content' = [content EXCEPT ![op.first] = ws]
    BY DEF WriteDots, WriteCluster
  <1>3. op \in MkdirOps /\ op.first \in Usable /\ op.first \in All
    BY <1>1, <1>2, Constants, Zenon DEF TypeInv, LocalInv
  <1>4. ws \in Blocks
    BY PlainWords DEF Blocks
  <1>5. content' \in [All -> Blocks]
    BY <1>1, <1>2, <1>3, <1>4, ContentStep
  <1>6. TypeInv'
    BY <1>1, <1>2, <1>3, <1>5 DEF TypeInv
  <1>7. LocalInv'
    BY <1>2, <1>3 DEF LocalInv
  <1> QED
    BY <1>1, <1>2, <1>6, <1>7, TableSame DEF FatInv

\* AddDirEntry: the entry into a vacant place, or a new cluster for the directory.
LEMMA EnterStep ==
  ASSUME FatInv, Enter
  PROVE  FatInv'
  <1>1. TypeInv /\ TableInv /\ LocalInv /\ pc = "enter"
    BY DEF FatInv, Enter
  <1>2. op \in WriteOps \cup MkdirOps /\ op.first \in Usable
    BY <1>1 DEF TypeInv, LocalInv
  <1>3. op.dir \in All
    BY <1>2, Constants, Zenon DEF WriteOps, MkdirOps
  <1>4. CASE \E p \in Vacant(op.dir) :
               /\ WriteWord(ClusterOf(op.dir, p), IndexOf(p), NewEntry)
               /\ pc' = "done" /\ op' = op
    <2>1. PICK p \in Vacant(op.dir) :
            /\ WriteWord(ClusterOf(op.dir, p), IndexOf(p), NewEntry)
            /\ pc' = "done" /\ op' = op
      BY <1>4
    <2>2. p \in DOMAIN Words(op.dir)
      BY DEF Vacant
    <2>3. PICK c \in All, i \in 1..WordsPer : c = ClusterOf(op.dir, p) /\ i = IndexOf(p)
      BY <1>1, <1>3, <2>2, WordsAre
    <2>4. PICK w \in WordSet : w = NewEntry
      BY <1>2, NewEntryIs
    <2>5. fat1' = fat1 /\ content' = [content EXCEPT ![c][i] = w]
      BY <2>1, <2>3, <2>4 DEF WriteWord
    <2>6. content' \in [All -> Blocks]
      BY <1>1, <2>5, WordStep
    <2>7. TypeInv'
      BY <1>1, <1>2, <2>1, <2>5, <2>6 DEF TypeInv
    <2>8. LocalInv'
      BY <2>1 DEF LocalInv
    <2> QED
      BY <1>1, <2>5, <2>7, <2>8, TableSame DEF FatInv
  <1>5. CASE NoWrite /\ Fail
    BY <1>5, FailStep
  <1>6. CASE /\ Ends(op.dir) /\ content' = content
             /\ \E c \in AllocCluster :
                  /\ SetFATEntry(Last(Chain(op.dir)), c)
                  /\ op' = [op EXCEPT !.grown = c]
                  /\ pc' = "grow"
    <2>1. PICK c \in AllocCluster :
            /\ SetFATEntry(Last(Chain(op.dir)), c)
            /\ op' = [op EXCEPT !.grown = c]
            /\ pc' = "grow"
      BY <1>6
    <2>2. c \in Usable /\ fat1[c] = 0 /\ c \in All
      BY AllocIs, Constants, Zenon
    <2>3. PICK l \in All : l = Last(Chain(op.dir))
      BY <1>1, <1>3, ChainIs
    <2>4. fat1[l] = EndOfChain /\ fat1' = [fat1 EXCEPT ![l] = c]
      BY <1>6, <2>1, <2>3, Zenon DEF Ends, SetFATEntry
    <2>5. c # l
      BY <2>2, <2>4, Constants
    <2>6. TableInv' /\ fat1' \in [All -> 0..Clusters]
      BY <1>1, <2>2, <2>4, <2>5, TableStep, Zenon
    <2>7. op' \in WriteOps \cup MkdirOps /\ op'.grown = c /\ op'.first = op.first
      <3>1. CASE op \in WriteOps
        BY <2>1, <2>2, <3>1 DEF WriteOps
      <3>2. CASE op \in MkdirOps
        BY <2>1, <2>2, <3>2 DEF MkdirOps
      <3> QED
        BY <1>2, <3>1, <3>2
    <2>8. TypeInv'
      BY <1>1, <1>6, <2>1, <2>6, <2>7 DEF TypeInv
    <2>9. LocalInv'
      BY <1>2, <2>1, <2>2, <2>7 DEF LocalInv
    <2> QED
      BY <2>6, <2>8, <2>9 DEF FatInv
  <1> QED
    BY <1>4, <1>5, <1>6 DEF Enter

\* The new cluster of a directory is sealed, then written.
LEMMA GrowStep ==
  ASSUME FatInv, Grow \/ Fill
  PROVE  FatInv'
  <1>1. TypeInv /\ TableInv /\ LocalInv /\ pc \in {"grow", "fill"} /\ op' = op
    BY DEF FatInv, Grow, Fill
  <1>2. /\ op \in WriteOps \cup MkdirOps /\ op.first \in Usable
        /\ op.grown \in Usable /\ op.grown \in All
    BY <1>1, Constants, Zenon DEF TypeInv, LocalInv
  <1>3. CASE Grow
    <2>1. fat1' = [fat1 EXCEPT ![op.grown] = EndOfChain] /\ content' = content /\ pc' = "fill"
      BY <1>3 DEF Grow, SetFATEntry
    <2>2. TableInv' /\ fat1' \in [All -> 0..Clusters]
      BY <1>1, <1>2, <2>1, TableStep, Zenon
    <2>3. TypeInv'
      BY <1>1, <1>2, <2>1, <2>2 DEF TypeInv
    <2>4. LocalInv'
      BY <1>1, <1>2, <2>1 DEF LocalInv
    <2> QED
      BY <2>2, <2>3, <2>4 DEF FatInv
  <1>4. CASE Fill
    <2> DEFINE ws == [k \in 1..WordsPer |-> IF k = 1 THEN NewEntry ELSE Zero]
    <2>1. fat1' = fat1 /\ pc' = "done" /\ content' = [content EXCEPT ![op.grown] = ws]
      BY <1>4 DEF Fill, WriteCluster
    <2>2. ws \in Blocks
      <3>1. NewEntry \in WordSet /\ Zero \in WordSet
        BY <1>2, NewEntryIs, PlainWords
      <3> QED
        BY <3>1, Zenon DEF Blocks
    <2>3. content' \in [All -> Blocks]
      BY <1>1, <1>2, <2>1, <2>2, ContentStep
    <2>4. TypeInv'
      BY <1>1, <1>2, <2>1, <2>3 DEF TypeInv
    <2>5. LocalInv'
      BY <2>1 DEF LocalInv
    <2> QED
      BY <1>1, <2>1, <2>4, <2>5, TableSame DEF FatInv
  <1> QED
    BY <1>3, <1>4

\* The call is done; sys_mv goes on to delete the source.
LEMMA FinishStep ==
  ASSUME FatInv, Finish
  PROVE  FatInv'
  <1>1. TypeInv /\ pc = "done" /\ UNCHANGED <<fat1, content>>
    BY DEF FatInv, Finish, NoWrite, disk
  <1>2. content' \in [All -> Blocks]
    BY <1>1 DEF TypeInv
  <1>3. op.kind = "move" => op.src \in FilePaths
    <2>1. op \in WriteOps \cup MkdirOps
      BY <1>1 DEF TypeInv
    <2> QED
      BY <2>1 DEF WriteOps, MkdirOps
  <1>4. \/ \E fs : Return(fs)
        \/ op.kind = "move" /\ \E fs : StartDelete(op.src, fs)
    BY Zenon DEF Finish, Done
  <1>5. CASE \E fs : Return(fs)
    BY <1>1, <1>2, <1>5, ReturnStep
  <1>6. CASE op.kind = "move" /\ \E fs : StartDelete(op.src, fs)
    <2>1. PICK fs : StartDelete(op.src, fs)
      BY <1>6
    <2>2. op.src \in FilePaths
      BY <1>3, <1>6
    <2> QED
      BY <1>1, <2>1, <2>2, StartDeleteStep
  <1> QED
    BY <1>4, <1>5, <1>6

\* The second copy of the table, a stop of the machine and the next mount leave the
\* first copy and the clusters alone.
LEMMA RestStep ==
  ASSUME FatInv, Mirror \/ Crash \/ Mount \/ UNCHANGED vars
  PROVE  FatInv'
  <1>1. UNCHANGED <<fat1, content>>
    BY DEF Mirror, Crash, Mount, vars, disk
  <1>2. content' \in [All -> Blocks]
    BY <1>1 DEF FatInv, TypeInv
  <1>3. CASE Crash \/ Mount
    <2>1. pc' \in {"idle", "mount"}
      BY <1>3 DEF Crash, Mount
    <2> QED
      BY <1>1, <1>2, <2>1, Rests
  <1>4. CASE Mirror \/ UNCHANGED vars
    <2>1. pc' = pc /\ op' = op
      BY <1>4 DEF Mirror, vars
    <2>2. TypeInv'
      BY <1>1, <2>1 DEF FatInv, TypeInv
    <2>3. LocalInv'
      BY <1>1, <2>1 DEF FatInv, LocalInv
    <2> QED
      BY <1>1, <2>2, <2>3, TableSame DEF FatInv
  <1> QED
    BY <1>3, <1>4

-----------------------------------------------------------------------------
(***************************************************************************)
(* The theorems.                                                           *)
(***************************************************************************)

\* A fresh volume has no links at all.
LEMMA InitFat ==
  Init => FatInv
  <1> SUFFICES ASSUME Init PROVE FatInv
    OBVIOUS
  <1>1. fat1 \in [All -> {0, EndOfChain}]
    BY DEF Init
  <1>2. fat1 \in [All -> 0..Clusters]
    BY <1>1, Constants
  <1>3. content \in [All -> Blocks]
    <2>1. Filled(Zero) \in Blocks
      BY PlainWords, Zenon DEF Filled, Blocks
    <2>2. content = [c \in All |-> Filled(Zero)]
      BY DEF Init
    <2> QED
      BY <2>1, <2>2, Zenon
  <1>4. pc = "idle"
    BY DEF Init
  <1>5. TypeInv
    BY <1>2, <1>3, <1>4 DEF TypeInv
  <1>6. LocalInv
    BY <1>4 DEF LocalInv
  <1>7. Ranks([c \in All |-> 0])
    BY <1>1 DEF Ranks
  <1>8. TableInv
    BY <1>7 DEF TableInv
  <1> QED
    BY <1>5, <1>6, <1>8 DEF FatInv

\* Every step of a call, every stop and every mount keeps the invariant.
LEMMA NextFat ==
  FatInv /\ [Next]_vars => FatInv'
  <1> SUFFICES ASSUME FatInv, [Next]_vars PROVE FatInv'
    OBVIOUS
  <1>1. CASE WriteFile \/ CopyOrMove \/ DeleteFile \/ MakeDir
    BY <1>1, CallStep
  <1>2. CASE Free
    BY <1>2, FreeStep
  <1>3. CASE Alloc
    BY <1>3, AllocStep
  <1>4. CASE WriteData \/ Link \/ Seal \/ LastCluster
    BY <1>4, ChainStep
  <1>5. CASE Unlink
    BY <1>5, UnlinkStep
  <1>6. CASE WriteDots
    BY <1>6, DotsStep
  <1>7. CASE Enter
    BY <1>7, EnterStep
  <1>8. CASE Grow \/ Fill
    BY <1>8, GrowStep
  <1>9. CASE Finish
    BY <1>9, FinishStep
  <1>10. CASE Mirror \/ Crash \/ Mount \/ UNCHANGED vars
    BY <1>10, RestStep
  <1> QED
    BY <1>1, <1>2, <1>3, <1>4, <1>5, <1>6, <1>7, <1>8, <1>9, <1>10, Zenon DEF Next

\* The table, the clusters and the locals of the call under way are well formed, and a
\* rank falls along every link of the table but that of entry 0, whatever calls are
\* made and wherever the machine stops (fat32.cpp:188-457).
THEOREM FatInvariance == Spec => []FatInv
  BY InitFat, NextFat, PTL DEF Spec

\* On a disk of any size, for any calls and any number of stops between two writes:
\* every loop over NextCluster ends, unless it comes to entry 0 of the table and
\* AddDirEntry has linked a cluster there (fat32.cpp:130, 165, 287, 317, 420, 451).
THEOREM AlwaysChainsEnd == Spec => []ChainsEnd
  <1>1. FatInv => ChainsEnd
    <2> SUFFICES ASSUME FatInv PROVE ChainsEnd
      OBVIOUS
    <2>1. \A c \in 2..(Clusters - 1) : c \in All
      BY Constants DEF All
    <2> QED
      BY <2>1, ChainIs DEF ChainsEnd, FatInv
  <1> QED
    BY <1>1, FatInvariance, PTL

=============================================================================
