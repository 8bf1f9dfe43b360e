---------------------------- MODULE ShellProofs -----------------------------
(***************************************************************************)
(* The shell, for every set of arguments and every length of its buffers:  *)
(* the paths it makes are absolute and name what the user means, cd ..     *)
(* goes up, a command touches the files it names and no other, and every   *)
(* way back to the prompt leaves the terminal and the connection as they   *)
(* were.                                                                   *)
(***************************************************************************)
EXTENDS Shell, WellFoundedInduction, TLAPS

-----------------------------------------------------------------------------
(***************************************************************************)
(* Sequences, as the kernel's lists and strings are modelled.              *)
(***************************************************************************)

\* An entry of a sequence.
LEMMA EntryOf ==
  ASSUME NEW S, NEW s \in Seq(S), NEW i \in 1..Len(s)
  PROVE  s[i] \in S
  OBVIOUS

\* The empty sequence, and the others.
LEMMA NoEntries ==
  ASSUME NEW S
  PROVE  /\ <<>> \in Seq(S) /\ Len(<<>>) = 0
         /\ \A s \in Seq(S) : s # <<>> => Len(s) \in Nat \ {0}
  OBVIOUS

\* Sequences with the same entries are the same.
LEMMA SameEntries ==
  ASSUME NEW S, NEW s \in Seq(S), NEW t \in Seq(S),
         Len(s) = Len(t), \A i \in 1..Len(s) : s[i] = t[i]
  PROVE  s = t
  OBVIOUS

\* One entry more, at the end.
LEMMA OneMore ==
  ASSUME NEW S, NEW s \in Seq(S), NEW a \in S
  PROVE  /\ Append(s, a) \in Seq(S) /\ Append(s, a) # <<>>
         /\ Len(Append(s, a)) = Len(s) + 1 /\ Append(s, a)[Len(s) + 1] = a
         /\ \A i \in 1..Len(s) : Append(s, a)[i] = s[i]
  OBVIOUS

\* Two sequences joined.
LEMMA TwoJoined ==
  ASSUME NEW S, NEW s \in Seq(S), NEW t \in Seq(S)
  PROVE  /\ s \o t \in Seq(S) /\ Len(s \o t) = Len(s) + Len(t)
         /\ \A i \in 1..(Len(s) + Len(t)) :
              (s \o t)[i] = IF i <= Len(s) THEN s[i] ELSE t[i - Len(s)]
  OBVIOUS

\* Joining the empty sequence changes nothing.
LEMMA JoinedToNone ==
  ASSUME NEW S, NEW s \in Seq(S)
  PROVE  s \o <<>> = s /\ <<>> \o s = s
  OBVIOUS

\* A part of a sequence.
LEMMA PartOf ==
  ASSUME NEW S, NEW s, NEW m \in Int, NEW n \in Int, \A i \in m..n : s[i] \in S
  PROVE  /\ SubSeq(s, m, n) \in Seq(S)
         /\ Len(SubSeq(s, m, n)) = IF m <= n THEN n - m + 1 ELSE 0
         /\ \A i \in 1..(n - m + 1) : SubSeq(s, m, n)[i] = s[m + i - 1]
  OBVIOUS

\* The part that ends before it begins.
LEMMA NoPart ==
  ASSUME NEW s, NEW m \in Int, NEW n \in Int, n < m
  PROVE  SubSeq(s, m, n) = <<>>
  OBVIOUS

\* The part that is the whole.
LEMMA WholePart ==
  ASSUME NEW S, NEW s \in Seq(S)
  PROVE  SubSeq(s, 1, Len(s)) = s
  OBVIOUS

-----------------------------------------------------------------------------
\* Numbers.

\* A set of naturals has a least element.
LEMMA Least ==
  ASSUME NEW T \in SUBSET Nat, T # {}
  PROVE  \E x \in T : \A y \in T : x <= y
  <1> DEFINE R == OpToRel(<, Nat)
  <1>1. IsWellFoundedOn(R, Nat)
    BY NatLessThanWellFounded, Zenon
  <1>2. \A x \in Nat, y \in Nat : y < x => <<y, x>> \in R
    BY DEF OpToRel
  <1> HIDE DEF R
  <1>3. PICK x \in T : \A y \in T : ~ (<<y, x>> \in R)
    BY <1>1, WFMin, Zenon
  <1>4. ASSUME NEW y \in T PROVE x <= y
    <2>1. x \in Nat /\ y \in Nat
      OBVIOUS
    <2>2. ~ (y < x)
      BY <1>2, <1>3, <2>1, Zenon
    <2> QED
      BY ONLY <2>1, <2>2
  <1> QED
    BY <1>4

\* The scans of make_abs_strip and path_up_one from the end of a path stop: a set
\* of positions has a greatest one.
LEMMA Greatest ==
  ASSUME NEW n \in Nat, NEW T \in SUBSET (1..n), T # {}
  PROVE  \E x \in T : \A y \in T : y <= x
  <1> DEFINE U == {m \in Nat : \E x \in T : m = n - x}
  <1>1. U \in SUBSET Nat /\ U # {}
    <2>1. PICK x \in T : TRUE
      BY Zenon
    <2>2. n - x \in U
      OBVIOUS
    <2> QED
      BY <2>2, Zenon
  <1>2. PICK m \in U : \A k \in U : m <= k
    BY <1>1, Least, Zenon
  <1>3. PICK x \in T : m = n - x
    OBVIOUS
  <1>4. ASSUME NEW y \in T PROVE y <= x
    <2>1. n - y \in U
      OBVIOUS
    <2>2. n - x <= n - y /\ x \in 1..n /\ y \in 1..n
      BY <1>2, <1>3, <2>1
    <2> QED
      BY ONLY <2>2
  <1> QED
    BY <1>4

-----------------------------------------------------------------------------
\* The names of a path.

\* The texts of paths.
Texts == Seq(Tokens)

\* f has read the path p: after n tokens, the names among them.
Reads(p, f) ==
  f = [n \in 0..Len(p) |-> IF n = 0 THEN <<>>
                           ELSE IF p[n] = Slash THEN f[n - 1] ELSE Append(f[n - 1], p[n])]

\* What a reading of a path says of each of its tokens.
LEMMA ReadsIs ==
  ASSUME NEW p \in Texts, NEW f, Reads(p, f)
  PROVE  /\ f[0] = <<>>
         /\ \A n \in 1..Len(p) :
              f[n] = IF p[n] = Slash THEN f[n - 1] ELSE Append(f[n - 1], p[n])
  <1>1. Len(p) \in Nat
    BY DEF Texts
  <1>2. 0 \in 0..Len(p) /\ \A n \in 1..Len(p) : n \in 0..Len(p) /\ n # 0
    BY <1>1
  <1> QED
    BY <1>2, Zenon DEF Reads

\* Reading a path ends (ResolvePath's loop over the components, fat32.cpp).
LEMMA NamesRead ==
  ASSUME NEW p \in Texts
  PROVE  \E f : Reads(p, f) /\ Names(p) = f[Len(p)]
  <1> DEFINE Step(x, n) == IF p[n] = Slash THEN x ELSE Append(x, p[n])
             Runs(f, m) == f = [n \in 0..m |-> IF n = 0 THEN <<>> ELSE Step(f[n - 1], n)]
             Stuck == {m \in Nat : ~ \E f : Runs(f, m)}
  <1>1. Len(p) \in Nat
    BY DEF Texts
  <1>2. Stuck = {}
    <2> SUFFICES ASSUME Stuck # {} PROVE FALSE
      OBVIOUS
    <2> HIDE DEF Step
    <2>1. PICK m \in Stuck : \A k \in Stuck : m <= k
      BY Least, Zenon
    <2>2. m \in Nat /\ ~ \E f : Runs(f, m)
      OBVIOUS
    <2>3. m # 0
      <3> SUFFICES ASSUME m = 0 PROVE FALSE
        OBVIOUS
      <3> DEFINE g == [n \in 0..0 |-> <<>>]
      <3>1. Runs(g, 0)
        OBVIOUS
      <3> QED
        BY <2>2, <3>1, Zenon
    <2>4. m - 1 \in Nat /\ ~ (m <= m - 1)
      BY <2>2, <2>3
    <2>5. PICK g : Runs(g, m - 1)
      BY <2>1, <2>4, Zenon
    <2> DEFINE h == [n \in 0..m |-> IF n = m THEN Step(g[m - 1], m) ELSE g[n]]
    <2>6. Runs(h, m)
      <3>1. \A n \in 0..m : n # m => h[n] = g[n] /\ n \in 0..(m - 1)
        BY <2>4
      <3>2. h[m] = Step(g[m - 1], m) /\ h[m - 1] = g[m - 1]
        BY <2>2, <2>4
      <3>3. ASSUME NEW n \in 0..m
            PROVE  h[n] = IF n = 0 THEN <<>> ELSE Step(h[n - 1], n)
        <4>1. CASE n = m
          BY <4>1, <3>2, <2>3
        <4>2. CASE n # m
          <5>1. h[n] = g[n] /\ n \in 0..(m - 1)
            BY <4>2, <3>1
          <5>2. g[n] = IF n = 0 THEN <<>> ELSE Step(g[n - 1], n)
            BY <2>5, <5>1
          <5>3. n # 0 => n - 1 \in 0..m /\ n - 1 # m
            BY <2>2, <5>1
          <5>4. n # 0 => h[n - 1] = g[n - 1]
            BY <3>1, <5>3
          <5> QED
            BY ONLY <5>1, <5>2, <5>4
        <4> QED
          BY <4>1, <4>2
      <3>4. h = [n \in 0..m |-> h[n]]
        OBVIOUS
      <3> HIDE DEF h
      <3> QED
        BY <3>3, <3>4
    <2> QED
      BY <2>2, <2>6, Zenon
  <1>3. \E f : Runs(f, Len(p))
    BY <1>1, <1>2
  <1> DEFINE a == CHOOSE f : Reads(p, f)
  <1>4. Reads(p, a)
    BY <1>3, Zenon DEF Reads
  <1>5. Names(p) = a[Len(p)]
    BY DEF Names, Reads
  <1> QED
    BY <1>4, <1>5, Zenon

\* A path that begins as another one does is read alike as far as that goes.
LEMMA ReadAlike ==
  ASSUME NEW p \in Texts, NEW q \in Texts, NEW f, NEW g, Reads(p, f), Reads(q, g),
         NEW m \in 0..Len(p), m <= Len(q), \A n \in 1..m : p[n] = q[n]
  PROVE  \A n \in 0..m : f[n] = g[n]
  <1> DEFINE Bad == {n \in 0..m : f[n] # g[n]}
  <1> SUFFICES ASSUME Bad # {} PROVE FALSE
    OBVIOUS
  <1>1. Len(p) \in Nat /\ Len(q) \in Nat
    BY DEF Texts
  <1>2. PICK n \in Bad : \A k \in Bad : n <= k
    <2>1. Bad \in SUBSET Nat
      BY <1>1
    <2> QED
      BY <2>1, Least, Zenon
  <1>3. f[0] = <<>> /\ g[0] = <<>>
    BY ReadsIs
  <1>4. n \in 1..m /\ n - 1 \in 0..m /\ ~ (n <= n - 1)
    BY <1>1, <1>3
  <1>5. f[n - 1] = g[n - 1]
    BY <1>2, <1>4
  <1>6. n \in 1..Len(p) /\ n \in 1..Len(q) /\ p[n] = q[n]
    BY <1>1, <1>4
  <1>7. /\ f[n] = IF p[n] = Slash THEN f[n - 1] ELSE Append(f[n - 1], p[n])
        /\ g[n] = IF q[n] = Slash THEN g[n - 1] ELSE Append(g[n - 1], q[n])
    BY <1>6, ReadsIs
  <1> QED
    BY <1>5, <1>6, <1>7
\* A prefix of a path is a text, and has the path's tokens.
LEMMA PrefixIs ==
  ASSUME NEW p \in Texts, NEW n \in 0..Len(p)
  PROVE  /\ SubSeq(p, 1, n) \in Texts
         /\ Len(SubSeq(p, 1, n)) = n
         /\ \A k \in 1..n : SubSeq(p, 1, n)[k] = p[k]
  <1>1. Len(p) \in Nat /\ n \in Int /\ 1 \in Int
    BY DEF Texts
  <1>2. \A i \in 1..n : p[i] \in Tokens
    BY <1>1, EntryOf DEF Texts
  <1> DEFINE s == SubSeq(p, 1, n)
  <1>3. /\ s \in Seq(Tokens)
        /\ Len(s) = IF 1 <= n THEN n - 1 + 1 ELSE 0
        /\ \A i \in 1..(n - 1 + 1) : s[i] = p[1 + i - 1]
    BY ONLY <1>1, <1>2, PartOf
  <1> HIDE DEF s
  <1>4. \A i \in 1..n : i \in 1..(n - 1 + 1) /\ 1 + i - 1 = i
    BY <1>1
  <1>5. Len(s) = n
    BY <1>1, <1>3
  <1> QED
    BY <1>3, <1>4, <1>5 DEF s, Texts

\* The names of a path, token by token: ResolvePath skips a slash and takes what
\* is between two.
LEMMA NamesStep ==
  ASSUME NEW p \in Texts
  PROVE  /\ SubSeq(p, 1, Len(p)) = p
         /\ SubSeq(p, 1, 0) = <<>>
         /\ Names(SubSeq(p, 1, 0)) = <<>>
         /\ \A n \in 1..Len(p) :
              Names(SubSeq(p, 1, n)) =
                IF p[n] = Slash THEN Names(SubSeq(p, 1, n - 1))
                ELSE Append(Names(SubSeq(p, 1, n - 1)), p[n])
  <1>1. Len(p) \in Nat
    BY DEF Texts
  <1>2. PICK f : Reads(p, f)
    BY NamesRead
  <1>3. ASSUME NEW n \in 0..Len(p) PROVE Names(SubSeq(p, 1, n)) = f[n]
    <2> DEFINE s == SubSeq(p, 1, n)
    <2>1. s \in Texts /\ Len(s) = n /\ \A k \in 1..n : s[k] = p[k]
      BY PrefixIs
    <2> HIDE DEF s
    <2>2. PICK g : Reads(s, g) /\ Names(s) = g[Len(s)]
      BY <2>1, NamesRead
    <2>3. n \in 0..Len(s) /\ n <= Len(p) /\ n \in 0..n
      BY <1>1, <2>1
    <2>4. \A k \in 0..n : g[k] = f[k]
      BY <1>2, <2>1, <2>2, <2>3, ReadAlike
    <2>5. Names(s) = f[n]
      BY <2>1, <2>2, <2>3, <2>4
    <2> QED
      BY <2>5 DEF s
  <1>4. \A n \in 1..Len(p) : n \in 0..Len(p) /\ n - 1 \in 0..Len(p)
    BY <1>1
  <1>5. SubSeq(p, 1, Len(p)) = p
    BY WholePart DEF Texts
  <1>6. SubSeq(p, 1, 0) = <<>>
    BY NoPart
  <1>7. Names(SubSeq(p, 1, 0)) = <<>>
    <2>1. 0 \in 0..Len(p)
      BY <1>1
    <2>2. f[0] = <<>>
      BY <1>2, ReadsIs
    <2> QED
      BY <1>3, <2>1, <2>2
  <1>8. \A n \in 1..Len(p) :
          f[n] = IF p[n] = Slash THEN f[n - 1] ELSE Append(f[n - 1], p[n])
    BY <1>2, ReadsIs
  <1>9. ASSUME NEW n \in 1..Len(p)
        PROVE  Names(SubSeq(p, 1, n)) =
                 IF p[n] = Slash THEN Names(SubSeq(p, 1, n - 1))
                 ELSE Append(Names(SubSeq(p, 1, n - 1)), p[n])
    <2>1. Names(SubSeq(p, 1, n)) = f[n] /\ Names(SubSeq(p, 1, n - 1)) = f[n - 1]
      BY <1>3, <1>4
    <2> QED
      BY <1>8, <2>1
  <1> QED
    BY <1>5, <1>6, <1>7, <1>9

\* Names are a text.
LEMMA NamesType ==
  ASSUME NEW p \in Texts
  PROVE  Names(p) \in Texts
  <1> DEFINE Bad == {n \in 0..Len(p) : Names(SubSeq(p, 1, n)) \notin Texts}
  <1>1. Len(p) \in Nat
    BY DEF Texts
  <1>2. Bad = {}
    <2> SUFFICES ASSUME Bad # {} PROVE FALSE
      OBVIOUS
    <2>1. Bad \in SUBSET Nat
      BY <1>1
    <2>2. PICK n \in Bad : \A k \in Bad : n <= k
      BY <2>1, Least, Zenon
    <2>3. Names(SubSeq(p, 1, 0)) \in Texts
      <3>1. <<>> \in Texts
        BY NoEntries DEF Texts
      <3>2. Names(SubSeq(p, 1, 0)) = <<>>
        BY NamesStep
      <3> QED
        BY <3>1, <3>2
    <2>4. n \in 1..Len(p) /\ n - 1 \in 0..Len(p) /\ ~ (n <= n - 1)
      BY <1>1, <2>3
    <2>5. Names(SubSeq(p, 1, n - 1)) \in Texts
      BY <2>2, <2>4
    <2>6. p[n] \in Tokens
      BY <2>4, EntryOf DEF Texts
    <2>7. Append(Names(SubSeq(p, 1, n - 1)), p[n]) \in Texts
      BY <2>5, <2>6, OneMore DEF Texts
    <2> QED
      BY <2>4, <2>5, <2>7, NamesStep
  <1>3. Len(p) \in 0..Len(p)
    BY <1>1
  <1> QED
    BY <1>2, <1>3, NamesStep, Zenon

\* The slashes at the end of a path name nothing.
LEMMA SlashesNameNothing ==
  ASSUME NEW p \in Texts, NEW m \in 0..Len(p), \A j \in (m + 1)..Len(p) : p[j] = Slash
  PROVE  Names(SubSeq(p, 1, m)) = Names(p)
  <1> DEFINE Bad == {n \in m..Len(p) : Names(SubSeq(p, 1, n)) # Names(SubSeq(p, 1, m))}
  <1>1. Len(p) \in Nat /\ m \in Nat
    BY DEF Texts
  <1>2. Bad = {}
    <2> SUFFICES ASSUME Bad # {} PROVE FALSE
      OBVIOUS
    <2>1. Bad \in SUBSET Nat
      BY <1>1
    <2>2. PICK n \in Bad : \A k \in Bad : n <= k
      BY <2>1, Least, Zenon
    <2>3. n # m
      OBVIOUS
    <2>4. n \in 1..Len(p) /\ n \in (m + 1)..Len(p) /\ n - 1 \in m..Len(p) /\ ~ (n <= n - 1)
      BY <1>1, <2>3
    <2>5. Names(SubSeq(p, 1, n - 1)) = Names(SubSeq(p, 1, m))
      BY <2>2, <2>4
    <2> QED
      BY <2>4, <2>5, NamesStep
  <1>3. Len(p) \in m..Len(p)
    BY <1>1
  <1> QED
    BY <1>2, <1>3, NamesStep, Zenon

\* A token after two texts is after the second.
LEMMA AppendLast ==
  ASSUME NEW a \in Texts, NEW b \in Texts, NEW t \in Tokens
  PROVE  a \o Append(b, t) = Append(a \o b, t)
  BY DEF Texts

\* The names of two paths, one after the other.
LEMMA NamesConcat ==
  ASSUME NEW p \in Texts, NEW q \in Texts
  PROVE  p \o q \in Texts /\ Names(p \o q) = Names(p) \o Names(q)
  <1> DEFINE r == p \o q
             a == Names(p)
             At(n) == SubSeq(r, 1, Len(p) + n)
             Bad == {n \in 0..Len(q) : Names(At(n)) # a \o Names(SubSeq(q, 1, n))}
  <1>1. Len(p) \in Nat /\ Len(q) \in Nat
    BY DEF Texts
  <1>2. /\ r \in Texts /\ Len(r) = Len(p) + Len(q)
        /\ \A i \in 1..(Len(p) + Len(q)) : r[i] = IF i <= Len(p) THEN p[i] ELSE q[i - Len(p)]
    BY TwoJoined DEF Texts
  <1>3. a \in Texts
    BY NamesType
  <1>4. At(0) = p
    <2> DEFINE s == SubSeq(r, 1, Len(p))
    <2>1. Len(p) \in 0..Len(r)
      BY <1>1, <1>2
    <2>2. s \in Texts /\ Len(s) = Len(p) /\ \A k \in 1..Len(p) : s[k] = r[k]
      BY <1>2, <2>1, PrefixIs, Zenon
    <2>3. \A k \in 1..Len(p) : r[k] = p[k]
      BY <1>1, <1>2
    <2> HIDE DEF s, r
    <2>4. s = p
      BY <2>2, <2>3, SameEntries DEF Texts
    <2> QED
      BY <1>1, <2>4 DEF s
  <1>5. Bad = {}
    <2> SUFFICES ASSUME Bad # {} PROVE FALSE
      OBVIOUS
    <2> HIDE DEF r, a
    <2>1. Bad \in SUBSET Nat
      BY <1>1
    <2>2. PICK n \in Bad : \A k \in Bad : n <= k
      BY <2>1, Least, Zenon
    <2>3. n \in 0..Len(q) /\ Names(At(n)) # a \o Names(SubSeq(q, 1, n))
      OBVIOUS
    <2>4. n # 0
      <3>1. Names(SubSeq(q, 1, 0)) = <<>>
        BY NamesStep
      <3>2. a \o <<>> = a
        BY <1>3, JoinedToNone DEF Texts
      <3>3. Names(At(0)) = a
        BY <1>4, Zenon DEF a
      <3> QED
        BY <2>3, <3>1, <3>2, <3>3, Zenon
    <2>5. n \in 1..Len(q) /\ n - 1 \in 0..Len(q) /\ ~ (n <= n - 1)
      BY <1>1, <2>3, <2>4
    <2> DEFINE b == Names(SubSeq(q, 1, n - 1))
               x == Names(At(n - 1))
    <2>6. x = a \o b
      BY <2>2, <2>5, Zenon
    <2>7. b \in Texts
      BY <2>5, PrefixIs, NamesType
    <2>8. Names(SubSeq(q, 1, n)) = IF q[n] = Slash THEN b ELSE Append(b, q[n])
      BY <2>5, NamesStep
    <2>9. Len(p) + n \in 1..Len(r) /\ (Len(p) + n) - 1 = Len(p) + (n - 1) /\ r[Len(p) + n] = q[n]
      <3>1. /\ Len(p) + n \in 1..(Len(p) + Len(q)) /\ (Len(p) + n) - 1 = Len(p) + (n - 1)
            /\ ~ (Len(p) + n <= Len(p)) /\ (Len(p) + n) - Len(p) = n
        BY ONLY <1>1, <2>5
      <3> QED
        BY ONLY <1>2, <3>1
    <2>10. Names(At(n)) = IF q[n] = Slash THEN x ELSE Append(x, q[n])
      BY <1>2, <2>9, NamesStep, Zenon
    <2>11. q[n] \in Tokens
      BY <2>5, EntryOf DEF Texts
    <2> HIDE DEF b, x
    <2>12. a \o Append(b, q[n]) = Append(a \o b, q[n])
      BY <1>3, <2>7, <2>11, AppendLast, Zenon
    <2> QED
      BY <2>3, <2>6, <2>8, <2>10, <2>12, Zenon
  <1>6. Len(q) \in 0..Len(q)
    BY <1>1
  <1>7. Names(At(Len(q))) = a \o Names(SubSeq(q, 1, Len(q)))
    BY <1>5, <1>6, Zenon
  <1>8. At(Len(q)) = r /\ SubSeq(q, 1, Len(q)) = q
    BY <1>2, NamesStep
  <1> QED
    BY <1>2, <1>7, <1>8, Zenon
-----------------------------------------------------------------------------
\* The path helpers of the shell.

\* The root is a path, and names nothing.
LEMMA RootIs ==
  /\ RootPath \in Texts /\ IsPath(RootPath) /\ Len(RootPath) = 1
  /\ Last(RootPath) = Slash
  /\ Names(RootPath) = <<>>
  <1>1. Slash \in Tokens
    BY ShellAssumption
  <1>2. /\ RootPath \in Texts /\ Len(RootPath) = 1 /\ RootPath[1] = Slash
        /\ RootPath # <<>> /\ Head(RootPath) = Slash
    BY <1>1 DEF RootPath, Texts
  <1>3. IsPath(RootPath)
    BY <1>2 DEF IsPath
  <1>4. Names(SubSeq(RootPath, 1, 1)) = Names(SubSeq(RootPath, 1, 0))
    <2>1. 1 \in 1..Len(RootPath) /\ 1 - 1 = 0
      BY <1>2
    <2> QED
      BY <1>2, <2>1, NamesStep
  <1>5. SubSeq(RootPath, 1, 1) = RootPath /\ Names(SubSeq(RootPath, 1, 0)) = <<>>
    BY <1>2, NamesStep
  <1>6. Last(RootPath) = Slash
    BY <1>2 DEF Last
  <1> QED
    BY <1>2, <1>3, <1>4, <1>5, <1>6, Zenon

\* What is left of a path in a buffer is a prefix of it.
LEMMA CutIs ==
  ASSUME NEW p \in Texts, NEW n \in Nat
  PROVE  \E m \in 0..Len(p) :
           /\ Cut(p, n) = SubSeq(p, 1, m) /\ m <= n
           /\ Len(p) <= n => m = Len(p)
           /\ n <= Len(p) => m = n
  <1>1. Len(p) \in Nat
    BY DEF Texts
  <1>2. CASE Len(p) < n
    <2>1. Cut(p, n) = SubSeq(p, 1, Len(p)) /\ Len(p) \in 0..Len(p)
      BY <1>1, <1>2 DEF Cut
    <2> QED
      BY <1>1, <1>2, <2>1
  <1>3. CASE ~ (Len(p) < n)
    <2>1. Cut(p, n) = SubSeq(p, 1, n) /\ n \in 0..Len(p)
      BY <1>1, <1>3 DEF Cut
    <2> QED
      BY <1>1, <1>3, <2>1
  <1> QED
    BY <1>2, <1>3

\* A prefix of a path that is not empty is a path.
LEMMA PrefixIsPath ==
  ASSUME NEW p \in Texts, IsPath(p), NEW n \in 1..Len(p)
  PROVE  IsPath(SubSeq(p, 1, n))
  <1> DEFINE s == SubSeq(p, 1, n)
  <1>1. Len(p) \in Nat /\ n \in 0..Len(p)
    BY DEF Texts
  <1>2. s \in Texts /\ Len(s) = n /\ \A k \in 1..n : s[k] = p[k]
    BY <1>1, PrefixIs
  <1>3. p # <<>> /\ p[1] = Slash
    BY DEF IsPath, Texts
  <1> HIDE DEF s
  <1>4. s # <<>> /\ Head(s) = s[1]
    BY <1>2 DEF Texts
  <1>5. s[1] = Slash
    BY <1>1, <1>2, <1>3
  <1>6. ASSUME NEW k \in 1..(Len(s) - 1) PROVE s[k] = Slash \/ s[k + 1] = Slash
    <2>1. k \in 1..n /\ k + 1 \in 1..n /\ k \in 1..(Len(p) - 1)
      BY <1>1, <1>2
    <2> QED
      BY <1>2, <2>1 DEF IsPath
  <1>7. IsPath(s)
    BY <1>4, <1>5, <1>6 DEF IsPath
  <1> QED
    BY <1>7 DEF s

\* make_abs_strip takes slashes from the end of a path, and leaves the first.
LEMMA StripIs ==
  ASSUME NEW p \in Texts, p # <<>>
  PROVE  \E k \in 1..Len(p) :
           /\ Strip(p) = SubSeq(p, 1, k)
           /\ k = 1 \/ p[k] # Slash
           /\ \A j \in (k + 1)..Len(p) : p[j] = Slash
  <1> DEFINE kept == {k \in 1..Len(p) : k = 1 \/ p[k] # Slash}
             top == CHOOSE k \in kept : \A j \in kept : j <= k
  <1>1. Len(p) \in Nat \ {0}
    BY NoEntries DEF Texts
  <1>2. 1 \in kept /\ kept \in SUBSET (1..Len(p))
    BY <1>1
  <1>3. \E k \in kept : \A j \in kept : j <= k
    BY <1>1, <1>2, Greatest, Zenon
  <1>4. top \in kept /\ \A j \in kept : j <= top
    BY <1>3, Zenon
  <1>5. Strip(p) = Cut(p, top)
    BY DEF Strip
  <1> HIDE DEF top
  <1>6. top \in 1..Len(p) /\ (top = 1 \/ p[top] # Slash)
    BY <1>4
  <1>7. ASSUME NEW j \in (top + 1)..Len(p) PROVE p[j] = Slash
    <2>1. j \in 1..Len(p) /\ ~ (j <= top)
      BY <1>1, <1>6
    <2> QED
      BY <1>4, <2>1
  <1>8. Strip(p) = SubSeq(p, 1, top)
    <2>1. PICK m \in 0..Len(p) : Cut(p, top) = SubSeq(p, 1, m) /\ (top <= Len(p) => m = top)
      BY <1>6, CutIs
    <2> QED
      BY <1>1, <1>5, <1>6, <2>1
  <1> QED
    BY <1>6, <1>7, <1>8

\* Strip loses slashes only: the path names what it named.
LEMMA StripNames ==
  ASSUME NEW p \in Texts, IsPath(p)
  PROVE  /\ Strip(p) \in Texts /\ IsPath(Strip(p)) /\ Len(Strip(p)) <= Len(p)
         /\ Names(Strip(p)) = Names(p)
         /\ Strip(p) = RootPath \/ Last(Strip(p)) # Slash
  <1>1. p # <<>> /\ Len(p) \in Nat /\ p[1] = Slash
    BY DEF IsPath, Texts
  <1>2. PICK k \in 1..Len(p) :
          /\ Strip(p) = SubSeq(p, 1, k)
          /\ k = 1 \/ p[k] # Slash
          /\ \A j \in (k + 1)..Len(p) : p[j] = Slash
    BY <1>1, StripIs
  <1>3. k \in 0..Len(p) /\ k \in Nat /\ k <= Len(p) /\ k \in 1..k
    BY <1>1
  <1> DEFINE s == SubSeq(p, 1, k)
  <1>4. s \in Texts /\ Len(s) = k /\ \A j \in 1..k : s[j] = p[j]
    BY <1>3, PrefixIs
  <1>5. IsPath(s)
    BY PrefixIsPath
  <1>6. Names(s) = Names(p)
    BY <1>2, <1>3, SlashesNameNothing
  <1> HIDE DEF s
  <1>7. s = RootPath \/ Last(s) # Slash
    <2>1. CASE k = 1
      <3>1. Len(s) = 1 /\ s[1] = Slash
        BY <1>1, <1>4, <2>1
      <3>2. RootPath \in Texts /\ Len(RootPath) = 1 /\ RootPath[1] = Slash
        BY RootIs DEF RootPath
      <3>3. \A j \in 1..1 : s[j] = RootPath[j]
        BY <3>1, <3>2
      <3> QED
        BY ONLY <1>4, <3>1, <3>2, <3>3, SameEntries DEF Texts
    <2>2. CASE k # 1
      <3>1. s[k] = p[k]
        BY <1>3, <1>4
      <3> QED
        BY <1>2, <1>4, <2>2, <3>1 DEF Last
    <2> QED
      BY <2>1, <2>2
  <1> QED
    BY <1>2, <1>3, <1>4, <1>5, <1>6, <1>7, Zenon DEF s

\* No two names are next to each other.
Separated(q) == \A k \in 1..(Len(q) - 1) : q[k] = Slash \/ q[k + 1] = Slash

\* Two parts with a slash between them make a path.
LEMMA Glued ==
  ASSUME NEW p \in Texts, NEW q \in Texts, IsPath(p), Separated(q),
         p[Len(p)] = Slash \/ q = <<>> \/ q[1] = Slash
  PROVE  p \o q \in Texts /\ IsPath(p \o q) /\ Len(p \o q) = Len(p) + Len(q)
  <1> DEFINE r == p \o q
  <1>1. Len(p) \in Nat \ {0} /\ Len(q) \in Nat /\ p[1] = Slash
    BY NoEntries DEF IsPath, Texts
  <1>2. r \in Texts /\ Len(r) = Len(p) + Len(q)
        /\ \A k \in 1..Len(r) : r[k] = IF k <= Len(p) THEN p[k] ELSE q[k - Len(p)]
    BY TwoJoined DEF Texts
  <1> HIDE DEF r
  <1>3. r # <<>> /\ Head(r) = Slash
    <2>1. Len(r) # 0 /\ r[1] = p[1]
      BY <1>1, <1>2
    <2> QED
      BY <1>1, <1>2, <2>1, NoEntries DEF Texts
  <1>4. ASSUME NEW k \in 1..(Len(r) - 1) PROVE r[k] = Slash \/ r[k + 1] = Slash
    <2>1. k \in 1..Len(r) /\ k + 1 \in 1..Len(r) /\ k \in Nat
      BY <1>1, <1>2
    <2>2. CASE k < Len(p)
      <3>1. r[k] = p[k] /\ r[k + 1] = p[k + 1] /\ k \in 1..(Len(p) - 1)
        BY <1>1, <1>2, <2>1, <2>2
      <3> QED
        BY <3>1 DEF IsPath
    <2>3. CASE k = Len(p)
      <3>1. r[k] = p[Len(p)] /\ r[k + 1] = q[1] /\ Len(q) # 0
        BY <1>1, <1>2, <2>1, <2>3
      <3> QED
        BY <3>1, NoEntries
    <2>4. CASE k > Len(p)
      <3>1. /\ r[k] = q[k - Len(p)] /\ r[k + 1] = q[(k - Len(p)) + 1]
            /\ k - Len(p) \in 1..(Len(q) - 1)
        <4>1. ~ (k <= Len(p)) /\ ~ (k + 1 <= Len(p)) /\ (k + 1) - Len(p) = (k - Len(p)) + 1
              /\ k - Len(p) \in 1..(Len(q) - 1)
          BY <1>1, <1>2, <2>1, <2>4
        <4> QED
          BY <1>2, <2>1, <4>1
      <3> QED
        BY <3>1 DEF Separated
    <2> QED
      BY <1>1, <2>1, <2>2, <2>3, <2>4
  <1>5. IsPath(r)
    BY <1>3, <1>4 DEF IsPath
  <1> QED
    BY <1>2, <1>5 DEF r

\* The working directory is a path.
PathInv == cwd_buf \in Texts /\ IsPath(cwd_buf) /\ Len(cwd_buf) <= PathMax

\* The text make_abs_path puts together, before the end of the buffer cuts it:
\* Base is the working directory and a slash behind it.
Base == cwd_buf \o (IF Len(cwd_buf) > 1 THEN <<Slash>> ELSE <<>>)
Raw(a) == IF a # <<>> /\ Head(a) = Slash THEN a ELSE Base \o a

LEMMA BaseIs ==
  ASSUME PathInv
  PROVE  /\ Base \in Texts /\ IsPath(Base) /\ Base[Len(Base)] = Slash
         /\ Names(Base) = Names(cwd_buf)
         /\ Len(Base) \in {Len(cwd_buf), Len(cwd_buf) + 1}
         /\ \A k \in 1..Len(cwd_buf) : Base[k] = cwd_buf[k]
         /\ \A k \in (Len(cwd_buf) + 1)..Len(Base) : Base[k] = Slash
  <1>1. cwd_buf \in Texts /\ IsPath(cwd_buf) /\ cwd_buf \in Seq(Tokens)
    BY DEF PathInv, Texts
  <1>2. Len(cwd_buf) \in Nat \ {0} /\ cwd_buf[1] = Slash
    BY <1>1, NoEntries DEF IsPath
  <1>3. CASE Len(cwd_buf) > 1
    <2>1. Base = cwd_buf \o RootPath
      BY <1>3 DEF Base, RootPath
    <2>2. RootPath \in Texts /\ Len(RootPath) = 1 /\ RootPath[1] = Slash
          /\ Names(RootPath) = <<>>
      BY RootIs DEF RootPath
    <2>3. Separated(RootPath)
      BY <2>2 DEF Separated
    <2>4. Base \in Texts /\ IsPath(Base) /\ Len(Base) = Len(cwd_buf) + 1
      BY <1>1, <2>1, <2>2, <2>3, Glued, Zenon
    <2>5. Names(Base) = Names(cwd_buf)
      <3>1. Names(Base) = Names(cwd_buf) \o <<>>
        BY <1>1, <2>1, <2>2, NamesConcat, Zenon
      <3>2. Names(cwd_buf) \in Seq(Tokens)
        BY <1>1, NamesType DEF Texts
      <3> QED
        BY <3>1, <3>2, JoinedToNone
    <2>6. \A k \in 1..(Len(cwd_buf) + 1) :
             Base[k] = IF k <= Len(cwd_buf) THEN cwd_buf[k] ELSE RootPath[k - Len(cwd_buf)]
      <3> HIDE DEF Base, RootPath
      <3>1. RootPath \in Seq(Tokens)
        BY <2>2 DEF Texts
      <3>2. \A k \in 1..(Len(cwd_buf) + Len(RootPath)) :
              (cwd_buf \o RootPath)[k] =
                IF k <= Len(cwd_buf) THEN cwd_buf[k] ELSE RootPath[k - Len(cwd_buf)]
        BY ONLY <1>1, <3>1, TwoJoined
      <3> QED
        BY ONLY <2>1, <2>2, <3>2, Zenon
    <2> HIDE DEF Base, RootPath
    <2>7. \A k \in (Len(cwd_buf) + 1)..Len(Base) :
             k \in 1..(Len(cwd_buf) + 1) /\ ~ (k <= Len(cwd_buf)) /\ k - Len(cwd_buf) = 1
      BY <1>2, <2>4
    <2>8. \A k \in (Len(cwd_buf) + 1)..Len(Base) : Base[k] = Slash
      BY <2>2, <2>6, <2>7
    <2>9. Len(Base) \in (Len(cwd_buf) + 1)..Len(Base)
      BY <1>2, <2>4
    <2>10. \A k \in 1..Len(cwd_buf) : Base[k] = cwd_buf[k]
      BY <1>2, <2>6
    <2> QED
      BY <2>4, <2>5, <2>8, <2>9, <2>10
  <1>4. CASE ~ (Len(cwd_buf) > 1)
    <2>1. Base = cwd_buf
      BY <1>1, <1>4, JoinedToNone DEF Base
    <2>2. Len(cwd_buf) = 1
      BY <1>2, <1>4
    <2> HIDE DEF Base
    <2> QED
      BY <1>1, <1>2, <2>1, <2>2
  <1> QED
    BY <1>3, <1>4

\* The text is a path and names what is meant.
LEMMA RawIs ==
  ASSUME PathInv, NEW a \in Texts, Separated(a)
  PROVE  /\ Raw(a) \in Texts /\ IsPath(Raw(a)) /\ Names(Raw(a)) = Meant(a)
         /\ Len(Raw(a)) <= Len(cwd_buf) + 1 + Len(a)
  <1>1. Len(cwd_buf) \in Nat /\ Len(a) \in Nat
    BY DEF PathInv, Texts
  <1>2. CASE a # <<>> /\ Head(a) = Slash
    <2>1. Raw(a) = a /\ Meant(a) = Names(a)
      BY <1>2 DEF Raw, Meant
    <2>2. IsPath(a)
      BY <1>2 DEF IsPath, Separated
    <2> QED
      BY <1>1, <2>1, <2>2
  <1>3. CASE ~ (a # <<>> /\ Head(a) = Slash)
    <2>1. Raw(a) = Base \o a /\ Meant(a) = Names(cwd_buf) \o Names(a)
      BY <1>3 DEF Raw, Meant
    <2>2. Raw(a) \in Texts /\ IsPath(Raw(a)) /\ Len(Raw(a)) = Len(Base) + Len(a)
      BY <2>1, BaseIs, Glued
    <2>3. Names(Raw(a)) = Names(Base) \o Names(a)
      BY <2>1, BaseIs, NamesConcat, Zenon
    <2>4. Names(Base) = Names(cwd_buf) /\ Len(Base) \in {Len(cwd_buf), Len(cwd_buf) + 1}
      BY BaseIs
    <2>5. Len(Raw(a)) <= Len(cwd_buf) + 1 + Len(a)
      BY <1>1, <2>2, <2>4
    <2> QED
      BY <2>1, <2>2, <2>3, <2>4, <2>5
  <1> QED
    BY <1>2, <1>3

\* What a prefix of the text names that ends before the last name.
LEMMA CutAtName ==
  ASSUME PathInv, NEW r \in Texts, NEW m \in 0..Len(r), Len(cwd_buf) <= m, m <= Len(Base),
         \A k \in 1..m : r[k] = Base[k]
  PROVE  Names(SubSeq(r, 1, m)) = Names(cwd_buf)
  <1> DEFINE s == SubSeq(r, 1, m)
             c == Len(cwd_buf)
             t == SubSeq(s, 1, c)
  <1>1. c \in Nat /\ Len(r) \in Nat /\ m \in Nat /\ Len(Base) \in Nat
    BY BaseIs DEF PathInv, Texts
  <1>2. s \in Texts /\ Len(s) = m /\ \A k \in 1..m : s[k] = r[k]
    BY PrefixIs
  <1> HIDE DEF s
  <1>3. t \in Texts /\ Len(t) = c /\ \A k \in 1..c : t[k] = s[k]
    <2>1. c \in 0..Len(s)
      BY <1>1, <1>2
    <2> QED
      BY <1>2, <2>1, PrefixIs
  <1> HIDE DEF t
  <1>4. t = cwd_buf
    <2>1. ASSUME NEW k \in 1..c PROVE t[k] = cwd_buf[k]
      <3>1. k \in 1..m
        BY <1>1
      <3> QED
        BY <1>2, <1>3, <3>1, BaseIs
    <2>2. t \in Seq(Tokens) /\ cwd_buf \in Seq(Tokens)
      BY <1>3 DEF PathInv, Texts
    <2> QED
      BY ONLY <1>3, <2>1, <2>2, SameEntries
  <1>5. ASSUME NEW j \in (c + 1)..Len(s) PROVE s[j] = Slash
    <2>1. j \in 1..m /\ j \in (c + 1)..Len(Base)
      BY <1>1, <1>2
    <2>2. Base[j] = Slash
      BY <2>1, BaseIs, Zenon
    <2> QED
      BY <1>2, <2>1, <2>2
  <1>6. c \in 0..Len(s)
    BY <1>1, <1>2
  <1>7. Names(t) = Names(s)
    BY <1>2, <1>5, <1>6, SlashesNameNothing DEF t
  <1> QED
    BY <1>4, <1>7 DEF s

\* make_abs_path (shell.asm).
LEMMA MakeAbsIs ==
  ASSUME PathInv, NEW a \in Texts, Separated(a)
  PROVE  /\ MakeAbs(a) \in Texts /\ IsPath(MakeAbs(a)) /\ Len(MakeAbs(a)) <= PathMax
         /\ MakeAbs(a) = RootPath \/ Last(MakeAbs(a)) # Slash
         /\ Fits(a) => Names(MakeAbs(a)) = Meant(a)
         /\ a # <<>> /\ Head(a) # Slash /\ Len(a) = 1 =>
              Names(MakeAbs(a)) \in {Meant(a), Names(cwd_buf)}
  <1> DEFINE r == Raw(a)
             s == Cut(r, PathMax)
  <1>1. MakeAbs(a) = Strip(s)
    BY DEF MakeAbs, Raw, Base
  <1>2. /\ r \in Texts /\ IsPath(r) /\ Names(r) = Meant(a)
        /\ Len(r) <= Len(cwd_buf) + 1 + Len(a)
    BY RawIs
  <1>3. PathMax \in Nat /\ PathMax > 1 /\ Len(cwd_buf) \in Nat /\ Len(a) \in Nat
        /\ Len(cwd_buf) <= PathMax
    BY ShellAssumption DEF PathInv, Texts
  <1>4. Len(r) \in Nat \ {0}
    BY <1>2, NoEntries DEF IsPath, Texts
  <1>5. a # <<>> /\ Head(a) # Slash => r = Base \o a
    BY DEF Raw
  <1> HIDE DEF r
  <1>6. PICK m \in 0..Len(r) : /\ s = SubSeq(r, 1, m) /\ m <= PathMax
                               /\ Len(r) <= PathMax => m = Len(r)
                               /\ PathMax <= Len(r) => m = PathMax
    BY <1>2, <1>3, CutIs
  <1> HIDE DEF s
  <1>7. m \in 1..Len(r)
    BY <1>3, <1>4, <1>6
  <1>8. s \in Texts /\ Len(s) = m /\ IsPath(s) /\ \A k \in 1..m : s[k] = r[k]
    BY <1>2, <1>6, <1>7, PrefixIs, PrefixIsPath
  <1>9. /\ Strip(s) \in Texts /\ IsPath(Strip(s)) /\ Len(Strip(s)) <= Len(s)
        /\ Names(Strip(s)) = Names(s)
        /\ Strip(s) = RootPath \/ Last(Strip(s)) # Slash
    BY <1>8, StripNames, Zenon
  <1>10. Len(Strip(s)) <= PathMax
    <2>1. Len(Strip(s)) \in Nat
      BY <1>9 DEF Texts
    <2> QED
      BY <1>3, <1>6, <1>8, <1>9, <2>1
  <1>11. Len(r) <= PathMax => s = r
    BY <1>2, <1>6, NamesStep
  <1>12. Fits(a) => Names(s) = Meant(a)
    <2>1. Fits(a) => Len(r) <= PathMax
      BY <1>2, <1>3, <1>4 DEF Fits
    <2> QED
      BY <1>2, <1>11, <2>1
  <1>13. ASSUME a # <<>>, Head(a) # Slash, Len(a) = 1
         PROVE  Names(s) \in {Meant(a), Names(cwd_buf)}
    <2>1. CASE Len(r) <= PathMax
      BY <1>2, <1>11, <2>1
    <2>2. CASE ~ (Len(r) <= PathMax)
      <3>1. Base \in Texts /\ Len(Base) \in Nat
            /\ Len(Base) \in {Len(cwd_buf), Len(cwd_buf) + 1}
        BY BaseIs DEF Texts
      <3>2. r = Base \o a
        BY <1>5, <1>13
      <3>3. /\ Len(r) = Len(Base) + Len(a)
            /\ \A k \in 1..(Len(Base) + Len(a)) :
                 r[k] = IF k <= Len(Base) THEN Base[k] ELSE a[k - Len(Base)]
        BY <3>1, <3>2, TwoJoined DEF Texts
      <3>4. Len(cwd_buf) <= m /\ m <= Len(Base)
        BY <1>3, <1>4, <1>6, <1>13, <2>2, <3>1, <3>3
      <3>5. \A k \in 1..m : r[k] = Base[k]
        <4>1. \A k \in 1..m : k \in 1..(Len(Base) + Len(a)) /\ k <= Len(Base)
          BY <1>3, <3>1, <3>4
        <4> QED
          BY <3>3, <4>1
      <3> QED
        BY <1>2, <1>6, <3>4, <3>5, CutAtName
    <2> QED
      BY <2>1, <2>2, Zenon
  <1> QED
    BY <1>1, <1>9, <1>10, <1>12, <1>13, Zenon

\* The root is the only path with one token.
LEMMA OneSlash ==
  ASSUME NEW s \in Texts, Len(s) = 1, s[1] = Slash
  PROVE  s = RootPath
  <1>1. RootPath \in Seq(Tokens) /\ Len(RootPath) = 1 /\ RootPath[1] = Slash
    BY RootIs DEF RootPath, Texts
  <1>2. \A j \in 1..1 : s[j] = RootPath[j]
    BY <1>1
  <1> QED
    BY ONLY s \in Texts, Len(s) = 1, <1>1, <1>2, SameEntries DEF Texts

\* The directory above, as names.
LEMMA FrontAppend ==
  ASSUME NEW x \in Texts, NEW t \in Tokens
  PROVE  Append(x, t) # <<>> /\ Front(Append(x, t)) = x
  <1> DEFINE y == Append(x, t)
             z == SubSeq(y, 1, Len(x))
  <1>1. x \in Seq(Tokens) /\ Len(x) \in Nat
    BY DEF Texts
  <1>2. /\ y \in Texts /\ Len(y) = Len(x) + 1
        /\ \A k \in 1..Len(x) : y[k] = x[k]
    BY <1>1, OneMore DEF Texts
  <1> HIDE DEF y
  <1>3. y # <<>> /\ Len(x) \in 0..Len(y) /\ Len(y) - 1 = Len(x)
    <2>1. Len(y) # 0 /\ Len(x) \in 0..Len(y) /\ Len(y) - 1 = Len(x)
      BY <1>1, <1>2
    <2> QED
      BY <2>1, NoEntries
  <1>4. z \in Texts /\ Len(z) = Len(x) /\ \A k \in 1..Len(x) : z[k] = y[k]
    BY <1>2, <1>3, PrefixIs
  <1>5. Front(y) = z
    BY <1>3 DEF Front
  <1> HIDE DEF z
  <1>6. \A k \in 1..Len(z) : z[k] = x[k]
    BY <1>2, <1>4
  <1>7. z = x
    BY ONLY <1>1, <1>4, <1>6, SameEntries DEF Texts
  <1> QED
    BY <1>3, <1>5, <1>7 DEF y

\* path_up_one (shell.asm).
LEMMA PathUpOneIs ==
  ASSUME NEW p \in Texts, IsPath(p)
  PROVE  /\ PathUpOne(p) \in Texts /\ IsPath(PathUpOne(p)) /\ Len(PathUpOne(p)) <= Len(p)
         /\ Names(PathUpOne(p)) = IF Last(p) = Slash THEN Names(p) ELSE Front(Names(p))
         /\ Last(PathUpOne(p)) = Slash => PathUpOne(p) = RootPath \/ Doubled(p)
         /\ Last(p) = Slash \/ Names(p) # <<>>
  <1> DEFINE slashes == {k \in 2..Len(p) : p[k] = Slash}
             top == CHOOSE k \in slashes : \A j \in slashes : j <= k
             n == Len(p)
  <1>1. n \in Nat \ {0} /\ p[1] = Slash
    BY NoEntries DEF IsPath, Texts
  <1>2. \A k \in 1..n : p[k] \in Tokens
    BY EntryOf DEF Texts
  <1>3. \A k \in 1..(n - 1) : p[k] = Slash \/ p[k + 1] = Slash
    BY DEF IsPath
  <1>4. PathUpOne(p) = IF n <= 1 THEN p ELSE IF slashes = {} THEN RootPath
                       ELSE Cut(p, top - 1)
    BY DEF PathUpOne
  <1>5. Last(p) = p[n]
    BY DEF Last
  <1>6. \A k \in 0..n : SubSeq(p, 1, k) \in Texts /\ Names(SubSeq(p, 1, k)) \in Texts
    BY PrefixIs, NamesType
  <1>7. SubSeq(p, 1, n) = p
    BY NamesStep
  <1>8. CASE n <= 1
    <2>1. n = 1
      <3>1. \A i \in Nat \ {0} : i <= 1 => i = 1
        OBVIOUS
      <3> QED
        BY ONLY <1>1, <1>8, <3>1, Zenon
    <2>2. p = RootPath
      BY <1>1, <2>1, OneSlash
    <2> HIDE DEF slashes, top
    <2>3. PathUpOne(p) = p
      BY <1>4, <1>8
    <2>4. Last(p) = Slash
      BY <1>1, <1>5, <2>1
    <2>5. Len(PathUpOne(p)) <= Len(p)
      BY <1>1, <2>3
    <2> QED
      BY <2>2, <2>3, <2>4, <2>5, Zenon
  <1>9. CASE n > 1 /\ slashes = {}
    <2>1. PathUpOne(p) = RootPath
      BY <1>1, <1>4, <1>9
    <2>2. p[2] # Slash /\ n = 2
      <3>1. \A k \in 2..n : p[k] # Slash
        BY <1>9
      <3>2. 2 \in 2..n /\ (n # 2 => 2 \in 1..(n - 1) /\ 2 + 1 \in 2..n)
        <4>1. \A i \in Nat : i > 1 => 2 \in 2..i /\ (i # 2 => 2 \in 1..(i - 1) /\ 2 + 1 \in 2..i)
          OBVIOUS
        <4> QED
          BY ONLY <1>1, <1>9, <4>1, Zenon
      <3> QED
        BY <1>3, <3>1, <3>2
    <2> HIDE DEF slashes
    <2>3. Names(p) = Append(Names(SubSeq(p, 1, 1)), p[2])
      <3>1. 2 \in 1..n /\ 2 - 1 = 1
        BY <2>2
      <3> QED
        BY <1>7, <2>2, <3>1, NamesStep, Zenon
    <2>4. Names(SubSeq(p, 1, 1)) = <<>>
      <3>1. 1 \in 1..n /\ 1 - 1 = 0
        BY <2>2
      <3> QED
        BY <1>1, <3>1, NamesStep
    <2>5. Names(p) # <<>> /\ Front(Names(p)) = <<>>
      <3>1. <<>> \in Texts /\ p[2] \in Tokens
        BY <1>2, <2>2, NoEntries DEF Texts
      <3> QED
        BY <2>3, <2>4, <3>1, FrontAppend
    <2>6. Last(p) # Slash
      BY <1>5, <2>2
    <2> QED
      BY <2>1, <2>2, <2>5, <2>6, RootIs
  <1>10. CASE n > 1 /\ slashes # {}
    <2>1. slashes \in SUBSET (1..n)
      BY <1>1
    <2>2. \E k \in slashes : \A j \in slashes : j <= k
      BY <1>1, <1>10, <2>1, Greatest, Zenon
    <2>3. top \in slashes /\ \A j \in slashes : j <= top
      BY <2>2
    <2> HIDE DEF top
    <2>4. top \in 2..n /\ p[top] = Slash
      BY <2>3
    <2>5. \A j \in 2..n : j > top => p[j] # Slash
      BY <2>3, <2>4
    <2> HIDE DEF slashes
    <2> DEFINE m == top - 1
               q == SubSeq(p, 1, m)
    <2>6. m \in 1..n /\ m \in 0..n /\ m \in Nat /\ m \in 1..(n - 1) /\ m + 1 = top /\ top - 1 = m
      BY <1>1, <2>4
    <2> HIDE DEF m
    <2>7. PathUpOne(p) = q
      <3>1. \E i \in 0..n : Cut(p, m) = SubSeq(p, 1, i) /\ (m <= n => i = m)
        BY <2>6, CutIs
      <3>2. Cut(p, m) = SubSeq(p, 1, m)
        BY <1>1, <2>6, <3>1
      <3>3. ~ (n <= 1)
        BY <1>1, <1>10
      <3> QED
        BY <1>4, <1>10, <2>6, <3>2, <3>3
    <2>8. q \in Texts /\ Len(q) = m /\ IsPath(q) /\ \A k \in 1..m : q[k] = p[k]
      BY <2>6, PrefixIs, PrefixIsPath
    <2> HIDE DEF q
    <2>9. Last(q) = Slash => Doubled(p)
      <3>1. Last(q) = p[m]
        BY <2>6, <2>8 DEF Last
      <3> QED
        BY <2>4, <2>6, <3>1, Zenon DEF Doubled
    <2>10. Names(SubSeq(p, 1, top)) = Names(q)
      <3>1. top \in 1..n
        BY <1>1, <2>4
      <3> QED
        BY <2>4, <2>6, <3>1, NamesStep DEF q
    <2>11. CASE top = n
      <3>1. Last(p) = Slash /\ Names(q) = Names(p)
        BY <1>5, <1>7, <2>4, <2>10, <2>11, Zenon
      <3> QED
        BY <1>1, <2>6, <2>7, <2>8, <2>9, <3>1
    <2>12. CASE top # n
      <3>1. n = top + 1 /\ p[n] # Slash /\ n \in 1..n /\ n - 1 = top
        <4>1. top + 1 \in 2..n /\ top + 1 > top /\ top \in Nat
              /\ (n # top + 1 => /\ top + 1 \in 1..(n - 1)
                                 /\ (top + 1) + 1 \in 2..n /\ (top + 1) + 1 > top)
          BY <1>1, <2>4, <2>12
        <4>2. p[top + 1] # Slash
          BY <2>5, <4>1
        <4>3. n = top + 1
          BY <1>3, <2>5, <4>1, <4>2
        <4> QED
          BY <1>1, <4>1, <4>2, <4>3
      <3>2. Names(p) = Append(Names(SubSeq(p, 1, top)), p[n])
        BY <1>7, <3>1, NamesStep, Zenon
      <3>3. Names(SubSeq(p, 1, top)) \in Texts /\ p[n] \in Tokens
        <4>1. top \in 0..n
          BY <2>4
        <4> QED
          BY <1>2, <1>6, <3>1, <4>1
      <3>4. Names(p) # <<>> /\ Front(Names(p)) = Names(q)
        BY <2>10, <3>2, <3>3, FrontAppend
      <3>5. Last(p) # Slash
        BY <1>5, <3>1
      <3> QED
        BY <1>1, <2>6, <2>7, <2>8, <2>9, <3>4, <3>5
    <2> QED
      BY <2>11, <2>12
  <1> QED
    BY <1>1, <1>8, <1>9, <1>10

-----------------------------------------------------------------------------
\* The inductive invariant.

\* A handler works on a line that has been read, and on the state of the moment it
\* was read; raw input and a connection belong to nano and to nc.
LineInv ==
  /\ pc \in {"prompt", "run", "nano", "nc"}
  /\ pc = "prompt" => line_buf = NoLine
  /\ pc = "run" => line_buf \in Lines /\ Bounded(line_buf)
  /\ pc = "nano" => line_buf \in Lines /\ line_buf.cmd = "nano" /\ path_buf1 = Path(1)
  /\ pc = "nc" => line_buf.cmd = "nc"
  /\ raw => pc = "nano"
  /\ connected => pc = "nc"

\* The directories form a tree, no file has the name of one, and the working
\* directory is one of them.
TreeInv ==
  /\ \A d \in dirs : Front(d) \in dirs \cup {<<>>}
  /\ dirs \cap DOMAIN files = {}
  /\ IsDirectory(cwd_buf)

Inv == LineInv /\ PathInv /\ TreeInv

\* The arguments of a line.
LEMMA LineIs ==
  ASSUME NEW line \in Lines
  PROVE  /\ line.cmd \in {"rm", "mkdir", "touch", "nano"} =>
              \E a \in Args : line.args = <<a>>
         /\ line.cmd = "cd" => line.args = <<>> \/ \E a \in Args : line.args = <<a>>
         /\ line.cmd \in {"cp", "mv"} => \E a \in Args, b \in Args : line.args = <<a, b>>
         /\ line.cmd # "none"
  <1>1. CASE line \in [cmd : {"ls", "pwd", "ping", "cd", "exit", "reboot", "nc"}, args : {<<>>}]
    BY <1>1
  <1>2. CASE line \in [cmd : {"cd", "rm", "mkdir", "touch", "nano"},
                       args : {<<a>> : a \in Args \ {<<>>}}]
    BY <1>2
  <1>3. CASE line \in [cmd : {"cp", "mv"}, args : Args \X Args]
    BY <1>3
  <1> QED
    BY <1>1, <1>2, <1>3, Zenon DEF Lines

\* What the user types separates names with slashes.
LEMMA ArgIs ==
  ASSUME NEW a \in Args
  PROVE  a \in Texts /\ Separated(a)
  BY ShellAssumption DEF Texts, Separated

\* The word exit leaves behind.
LEMMA ItIs ==
  LET it == <<"it">>
  IN  it \in Texts /\ Separated(it) /\ it # <<>> /\ Head(it) # Slash /\ Len(it) = 1
  <1> DEFINE it == <<"it">>
  <1>1. "it" \in Tokens /\ "it" # Slash
    BY ShellAssumption DEF Slash
  <1>2. it \in Texts /\ it # <<>> /\ Head(it) = "it" /\ Len(it) = 1
    BY <1>1 DEF Texts
  <1>3. Separated(it)
    BY <1>2 DEF Separated
  <1> QED
    BY <1>1, <1>2, <1>3

\* The first state.
LEMMA InitInv ==
  ASSUME Init
  PROVE  Inv
  <1>1. LineInv
    BY DEF Init, LineInv
  <1>2. PathInv
    BY RootIs, ShellAssumption DEF Init, PathInv
  <1>3. TreeInv
    BY RootIs, Zenon DEF Init, TreeInv, IsDirectory
  <1> QED
    BY <1>1, <1>2, <1>3 DEF Inv

\* Where cd goes is a path; cd .. goes up.
LEMMA CdTargetIs ==
  ASSUME PathInv, line_buf \in Lines, line_buf.cmd = "cd"
  PROVE  /\ CdTarget \in Texts /\ IsPath(CdTarget) /\ Len(CdTarget) <= PathMax
         /\ line_buf.args = <<<<"..">>>> => CdTarget = PathUpOne(cwd_buf)
  <1>1. PathMax \in Nat /\ PathMax > 1 /\ Len(cwd_buf) \in Nat /\ Len(cwd_buf) <= PathMax
        /\ cwd_buf \in Texts /\ IsPath(cwd_buf)
    BY ShellAssumption DEF PathInv, Texts
  <1>2. PathUpOne(cwd_buf) \in Texts /\ IsPath(PathUpOne(cwd_buf))
        /\ Len(PathUpOne(cwd_buf)) <= PathMax
    <2>1. PathUpOne(cwd_buf) \in Texts /\ IsPath(PathUpOne(cwd_buf))
          /\ Len(PathUpOne(cwd_buf)) <= Len(cwd_buf)
      BY <1>1, PathUpOneIs, Zenon
    <2>2. Len(PathUpOne(cwd_buf)) \in Nat
      BY <2>1 DEF Texts
    <2> QED
      BY <1>1, <2>1, <2>2
  <1>3. line_buf.args # <<>> =>
          Path(1) \in Texts /\ IsPath(Path(1)) /\ Len(Path(1)) <= PathMax
    <2> SUFFICES ASSUME line_buf.args # <<>>
                 PROVE  Path(1) \in Texts /\ IsPath(Path(1)) /\ Len(Path(1)) <= PathMax
      OBVIOUS
    <2>1. PICK a \in Args : line_buf.args = <<a>>
      BY LineIs
    <2>2. Path(1) = MakeAbs(a)
      BY <2>1 DEF Path
    <2> QED
      BY <2>2, ArgIs, MakeAbsIs
  <1>4. RootPath \in Texts /\ IsPath(RootPath) /\ Len(RootPath) <= PathMax
    BY <1>1, RootIs
  <1>5. "." # ".."
    OBVIOUS
  <1>6. line_buf.args = <<<<"..">>>> =>
          line_buf.args # <<>> /\ line_buf.args # <<<<".">>>>
    BY <1>5
  <1>7. /\ line_buf.args = <<>> => CdTarget = RootPath
        /\ line_buf.args = <<<<".">>>> => CdTarget = cwd_buf
        /\ line_buf.args = <<<<"..">>>> => CdTarget = PathUpOne(cwd_buf)
        /\ line_buf.args \notin {<<>>, <<<<".">>>>, <<<<"..">>>>} => CdTarget = Path(1)
    BY <1>6 DEF CdTarget
  <1> QED
    BY <1>1, <1>2, <1>3, <1>4, <1>7

-----------------------------------------------------------------------------
\* The calls on files.

\* FAT32::DeleteFile takes one file away, if any, and leaves the others.
LEMMA DeletedIs ==
  ASSUME NEW fs, NEW p
  PROVE  /\ DOMAIN Deleted(fs, p) \subseteq DOMAIN fs
         /\ \A q \in DOMAIN fs : q # Names(p) \/ ~Resolvable(p) => q \in DOMAIN Deleted(fs, p)
         /\ \A q \in DOMAIN Deleted(fs, p) : Deleted(fs, p)[q] = fs[q]
  <1>1. CASE Resolvable(p)
    BY <1>1 DEF Deleted
  <1>2. CASE ~Resolvable(p)
    BY <1>2, Zenon DEF Deleted
  <1> QED
    BY <1>1, <1>2, Zenon

\* sys_cp changes the destination only, which is no directory.
LEMMA CopiedIs ==
  ASSUME NEW p, NEW q
  PROVE  /\ DOMAIN files \subseteq DOMAIN Copied(p, q)
         /\ \A x \in DOMAIN Copied(p, q) : x \in DOMAIN files \/ (x = Names(q) /\ Writable(q))
         /\ \A x \in DOMAIN files : x # Names(q) => Copied(p, q)[x] = files[x]
         /\ Readable(p) /\ Writable(q) =>
              Names(q) \in DOMAIN Copied(p, q) /\ Copied(p, q)[Names(q)] = files[Names(p)]
  <1>1. CASE Readable(p) /\ Writable(q)
    <2>1. Copied(p, q) = Written(files, q, files[Names(p)])
      BY <1>1 DEF Copied
    <2> DEFINE n == files[Names(p)]
               w == Written(files, q, n)
    <2>2. /\ DOMAIN w = DOMAIN files \cup {Names(q)} /\ w[Names(q)] = n
          /\ \A x \in DOMAIN files : x # Names(q) => w[x] = files[x]
      BY DEF Written
    <2> HIDE DEF w
    <2> QED
      BY <1>1, <2>1, <2>2 DEF w
  <1>2. CASE ~ (Readable(p) /\ Writable(q))
    BY <1>2, Zenon DEF Copied
  <1> QED
    BY <1>1, <1>2, Zenon

\* sys_mv: besides that, it takes the source away when its content is at the
\* destination.
LEMMA MovedIs ==
  ASSUME NEW p, NEW q
  PROVE  /\ \A x \in DOMAIN Moved(p, q) : x \in DOMAIN files \/ (x = Names(q) /\ Writable(q))
         /\ \A x \in DOMAIN files \cap DOMAIN Moved(p, q) :
              x # Names(q) => Moved(p, q)[x] = files[x]
         /\ \A x \in DOMAIN files \ DOMAIN Moved(p, q) :
              /\ x = Names(p)
              /\ \/ Names(q) = x
                 \/ Names(q) \in DOMAIN Moved(p, q) /\ Moved(p, q)[Names(q)] = files[x]
  <1>1. CASE Readable(p) /\ Writable(q)
    <2> DEFINE c == Copied(p, q)
    <2>1. Moved(p, q) = Deleted(c, p)
      BY <1>1 DEF Moved
    <2>2. /\ DOMAIN files \subseteq DOMAIN c
          /\ \A x \in DOMAIN c : x \in DOMAIN files \/ (x = Names(q) /\ Writable(q))
          /\ \A x \in DOMAIN files : x # Names(q) => c[x] = files[x]
          /\ Names(q) \in DOMAIN c /\ c[Names(q)] = files[Names(p)]
      BY <1>1, CopiedIs
    <2> HIDE DEF c
    <2>3. /\ DOMAIN Deleted(c, p) \subseteq DOMAIN c
          /\ \A x \in DOMAIN c : x # Names(p) => x \in DOMAIN Deleted(c, p)
          /\ \A x \in DOMAIN Deleted(c, p) : Deleted(c, p)[x] = c[x]
      BY DeletedIs
    <2> QED
      BY <2>1, <2>2, <2>3
  <1>2. CASE ~ (Readable(p) /\ Writable(q))
    BY <1>2 DEF Moved
  <1> QED
    BY <1>1, <1>2, Zenon

-----------------------------------------------------------------------------
\* Every step keeps the invariant.

LEMMA PathStep ==
  ASSUME Inv, Next
  PROVE  PathInv'
  <1>1. CASE Cd
    <2>1. line_buf \in Lines /\ line_buf.cmd = "cd"
      BY <1>1 DEF Inv, LineInv, Cd, Command
    <2>2. cwd_buf' = cwd_buf \/ cwd_buf' = CdTarget
      BY <1>1 DEF Cd
    <2> QED
      BY <2>1, <2>2, CdTargetIs DEF Inv, PathInv
  <1>2. CASE Reboot
    <2>1. cwd_buf' = RootPath /\ 1 <= PathMax
      BY <1>2, ShellAssumption DEF Reboot
    <2> QED
      BY <2>1, RootIs DEF PathInv
  <1>3. CASE ~Cd /\ ~Reboot
    <2>1. cwd_buf' = cwd_buf
      BY <1>3 DEF Next, ReadLine, Ls, Pwd, Ping, Shown, Rm, Exit, Mkdir, Touch, Cp, Mv,
         Nano, NanoAppend, NanoBackspace, NanoFail, NanoSave, NanoExit, Nc, NcSend
    <2> QED
      BY <2>1, Zenon DEF Inv, PathInv
  <1> QED
    BY <1>1, <1>2, <1>3

\* The steps that end a command.
Ends ==
  \/ Ls \/ Pwd \/ Ping \/ Cd \/ Rm \/ Exit \/ Mkdir \/ Touch \/ Cp \/ Mv \/ Reboot

LEMMA LineStep ==
  ASSUME Inv, Next
  PROVE  LineInv'
  <1>1. CASE ReadLine
    <2>1. UNCHANGED <<cwd_buf, dirs, files, raw, connected>> /\ pc = "prompt" /\ pc' = "run"
      BY <1>1 DEF ReadLine, disk, nano
    <2>2. line_buf' \in Lines /\ Bounded(line_buf')
      BY <1>1, Zenon DEF ReadLine
    <2>3. Bounded(line_buf)'
      BY <2>1, <2>2 DEF Bounded, MakeAbs, Writable, Resolvable
    <2>4. ~raw' /\ ~connected'
      BY <2>1 DEF Inv, LineInv
    <2> QED
      BY <2>1, <2>2, <2>3, <2>4 DEF LineInv, Lines
  <1>2. CASE Ends
    <2>1. pc = "run" /\ pc' = "prompt" /\ line_buf' = NoLine /\ UNCHANGED <<raw, connected>>
      BY <1>2, Zenon DEF Ends, Ls, Pwd, Ping, Cd, Rm, Exit, Mkdir, Touch, Cp, Mv, Reboot, Shown,
         Done, Command, nano
    <2> QED
      BY <2>1, Zenon DEF Inv, LineInv, NoLine
  <1>3. CASE Nano
    <2>1. /\ pc = "run" /\ pc' = "nano" /\ line_buf' = line_buf /\ line_buf.cmd = "nano"
          /\ path_buf1' = Path(1) /\ UNCHANGED <<cwd_buf, connected>>
      BY <1>3 DEF Nano, Command
    <2>2. Path(1)' = Path(1)
      BY <2>1 DEF Path, MakeAbs
    <2> QED
      BY <2>1, <2>2 DEF Inv, LineInv, Lines
  <1>4. CASE NanoAppend \/ NanoBackspace \/ NanoSave
    <2>1. /\ pc = "nano" /\ pc' = "nano"
          /\ UNCHANGED <<line_buf, cwd_buf, connected, path_buf1>>
      BY <1>4 DEF NanoAppend, NanoBackspace, NanoSave, nano
    <2>2. Path(1)' = Path(1)
      BY <2>1 DEF Path, MakeAbs
    <2> QED
      BY <2>1, <2>2 DEF Inv, LineInv, Lines
  <1>5. CASE NanoFail \/ NanoExit
    <2>1. pc = "nano" /\ pc' = "prompt" /\ line_buf' = NoLine /\ ~raw' /\ UNCHANGED connected
      BY <1>5 DEF NanoFail, NanoExit, LeaveNano, Done
    <2> QED
      BY <2>1 DEF Inv, LineInv, NoLine
  <1>6. CASE Nc \/ NcSend
    <2>1. /\ pc \in {"run", "nc"} /\ UNCHANGED raw
          /\ \/ /\ pc' = "prompt" /\ line_buf' = NoLine
                /\ (pc = "run" /\ UNCHANGED connected) \/ ~connected'
             \/ pc' = "nc" /\ line_buf'.cmd = "nc"
      BY <1>6 DEF Nc, NcSend, Done, Command, nano
    <2> QED
      BY <2>1 DEF Inv, LineInv, NoLine
  <1> QED
    BY <1>1, <1>2, <1>3, <1>4, <1>5, <1>6, Zenon DEF Next, Ends

LEMMA TreeStep ==
  ASSUME Inv, Next
  PROVE  TreeInv'
  <1>1. /\ \A d \in dirs : Front(d) \in dirs \cup {<<>>}
        /\ \A d \in dirs : d \notin DOMAIN files
        /\ Names(cwd_buf) \in dirs \cup {<<>>}
    BY DEF Inv, TreeInv, IsDirectory
  <1>2. SUFFICES /\ \A d \in dirs' : Front(d) \in dirs' \cup {<<>>}
                 /\ \A d \in dirs' : d \notin DOMAIN files'
                 /\ Names(cwd_buf') \in dirs' \cup {<<>>}
    BY DEF TreeInv, IsDirectory
  <1>3. CASE Cd
    <2>1. UNCHANGED <<dirs, files>> /\ (cwd_buf' = cwd_buf \/ IsDirectory(cwd_buf'))
      BY <1>3 DEF Cd, disk
    <2> QED
      BY <1>1, <2>1 DEF IsDirectory
  <1>4. CASE Reboot
    <2>1. UNCHANGED <<dirs, files>> /\ cwd_buf' = RootPath
      BY <1>4, Zenon DEF Reboot, disk
    <2> QED
      BY <1>1, <2>1, RootIs
  <1>5. CASE Mkdir
    <2>1. line_buf \in Lines /\ line_buf.cmd = "mkdir" /\ Bounded(line_buf)
          /\ UNCHANGED <<cwd_buf, files>>
      BY <1>5 DEF Inv, LineInv, Mkdir, Command
    <2>2. PICK a \in Args : line_buf.args = <<a>>
      BY <2>1, LineIs
    <2>3. Last(line_buf.args) = a /\ line_buf.args[1] = a
      BY <2>2 DEF Last
    <2> DEFINE p == MakeAbs(a)
    <2>4. dirs' = IF Resolvable(p) THEN dirs \cup {Names(p)} ELSE dirs
      BY <1>5, <2>3, Zenon DEF Mkdir, Path
    <2>5. Resolvable(p) => Names(p) \notin DOMAIN files
      BY <2>1, <2>3, Zenon DEF Bounded
    <2>6. Resolvable(p) => Front(Names(p)) \in dirs \cup {<<>>}
      BY DEF Resolvable
    <2> HIDE DEF p
    <2> QED
      BY <1>1, <2>1, <2>4, <2>5, <2>6
  <1>6. CASE ~Cd /\ ~Reboot /\ ~Mkdir
    <2>1. UNCHANGED <<cwd_buf, dirs>>
      BY <1>6 DEF Next, ReadLine, Ls, Pwd, Ping, Shown, Rm, Exit, Touch, Cp, Mv,
         Nano, NanoAppend, NanoBackspace, NanoFail, NanoSave, NanoExit, Nc, NcSend, disk
    <2>2. \A x \in DOMAIN files' : x \in DOMAIN files \/ x \notin dirs
      <3>1. CASE Rm
        BY <3>1, DeletedIs DEF Rm
      <3>2. CASE Exit
        BY <3>2, DeletedIs DEF Exit
      <3>3. CASE Touch
        BY <3>3, Zenon DEF Touch, Writable, Written
      <3>4. CASE Cp
        BY <3>4, CopiedIs DEF Cp, Writable
      <3>5. CASE Mv
        BY <3>5, MovedIs DEF Mv, Writable
      <3>6. CASE NanoSave
        BY <3>6 DEF NanoSave, Writable, Written
      <3>7. CASE ~Rm /\ ~Exit /\ ~Touch /\ ~Cp /\ ~Mv /\ ~NanoSave
        <4>1. files' = files
          BY <1>6, <3>7 DEF Next, ReadLine, Ls, Pwd, Ping, Shown,
             Nano, NanoAppend, NanoBackspace, NanoFail, NanoExit, Nc, NcSend, disk
        <4> QED
          BY <4>1, Zenon
      <3> QED
        BY <3>1, <3>2, <3>3, <3>4, <3>5, <3>6, <3>7
    <2> QED
      BY <1>1, <2>1, <2>2
  <1> QED
    BY <1>3, <1>4, <1>5, <1>6

\* The invariant holds from the start of the shell on.
THEOREM Invariance == Spec => []Inv
  <1>1. Init => Inv
    BY InitInv
  <1>2. Inv /\ [Next]_vars => Inv'
    <2> SUFFICES ASSUME Inv, [Next]_vars PROVE Inv'
      OBVIOUS
    <2>1. CASE Next
      BY <2>1, LineStep, PathStep, TreeStep DEF Inv
    <2>2. CASE UNCHANGED vars
      <3>1. LineInv' = LineInv
        BY <2>2 DEF vars, LineInv, Lines, Bounded, MakeAbs, Writable, Resolvable, Path, NoLine
      <3>2. PathInv' = PathInv
        BY <2>2, Zenon DEF vars, PathInv
      <3>3. TreeInv' = TreeInv
        BY <2>2 DEF vars, TreeInv, IsDirectory
      <3> QED
        BY <3>1, <3>2, <3>3 DEF Inv
    <2> QED
      BY <2>1, <2>2, Zenon
  <1> QED
    BY <1>1, <1>2, PTL DEF Spec

-----------------------------------------------------------------------------
\* What it shows.

\* Whatever way a command takes back to prompt_loop, raw input is off, no connection
\* is open, and the working directory is on the disk.
THEOREM AlwaysAtPrompt == Spec => []AtPrompt
  <1>1. Inv => AtPrompt
    BY Zenon DEF Inv, LineInv, TreeInv, AtPrompt
  <1> QED
    BY <1>1, Invariance, PTL

\* make_abs_path makes an absolute path of every argument, in every working
\* directory cd can lead to and for every length of the buffer; and when the
\* argument fits, the path names what the argument means.
THEOREM AlwaysPathsAbsolute == Spec => []PathsAbsolute
  <1>1. Inv => PathsAbsolute
    <2> SUFFICES ASSUME Inv, NEW a \in Args
                 PROVE  /\ IsPath(MakeAbs(a))
                        /\ MakeAbs(a) = RootPath \/ Last(MakeAbs(a)) # Slash
                        /\ Fits(a) => Names(MakeAbs(a)) = Meant(a)
      BY DEF PathsAbsolute
    <2> QED
      BY ArgIs, MakeAbsIs DEF Inv
  <1> QED
    BY <1>1, Invariance, PTL

\* cd .. leads to the directory above, from the root to the root (path_up_one, and
\* sys_isdir behind it: the directory above one on the disk is on the disk).
THEOREM AlwaysCdUp == Spec => CdUp
  <1> DEFINE line == [cmd |-> "cd", args |-> <<<<"..">>>>]
             Up == line_buf = line =>
                     /\ Names(cwd_buf') =
                          IF Last(cwd_buf) = Slash THEN Names(cwd_buf) ELSE Front(Names(cwd_buf))
                     /\ Last(cwd_buf') = Slash => cwd_buf' = RootPath \/ Doubled(cwd_buf)
  <1>1. Inv /\ Next => Up
    <2> SUFFICES ASSUME Inv, Next, line_buf = line
                 PROVE  /\ Names(cwd_buf') =
                             IF Last(cwd_buf) = Slash THEN Names(cwd_buf) ELSE Front(Names(cwd_buf))
                        /\ Last(cwd_buf') = Slash => cwd_buf' = RootPath \/ Doubled(cwd_buf)
      OBVIOUS
    <2>1. line_buf.cmd = "cd" /\ line_buf.args = <<<<"..">>>>
      OBVIOUS
    <2>2. pc = "run" /\ line_buf \in Lines
      BY <2>1, Zenon DEF Inv, LineInv, NoLine
    <2>3. Cd
      BY <2>1, <2>2 DEF Next, ReadLine, Ls, Pwd, Ping, Rm, Exit, Mkdir, Touch, Cp, Mv, Reboot,
         Nano, NanoAppend, NanoBackspace, NanoFail, NanoSave, NanoExit, Nc, NcSend, Command
    <2>4. CdTarget = PathUpOne(cwd_buf)
      BY <2>1, <2>2, CdTargetIs DEF Inv
    <2> DEFINE q == PathUpOne(cwd_buf)
    <2>5. cwd_buf \in Texts /\ IsPath(cwd_buf)
      BY DEF Inv, PathInv
    <2>6. /\ Names(q) = IF Last(cwd_buf) = Slash THEN Names(cwd_buf) ELSE Front(Names(cwd_buf))
          /\ Last(q) = Slash => q = RootPath \/ Doubled(cwd_buf)
          /\ Last(cwd_buf) = Slash \/ Names(cwd_buf) # <<>>
      BY <2>5, PathUpOneIs, Zenon
    <2>7. IsDirectory(q)
      BY <2>6, Zenon DEF Inv, TreeInv, IsDirectory
    <2>8. cwd_buf' = q
      BY <2>3, <2>4, <2>7 DEF Cd
    <2> QED
      BY <2>6, <2>8, Zenon
  <1>2. Inv /\ [Next]_vars => [Up]_vars
    BY <1>1
  <1>3. Spec => [][Up]_vars
    BY <1>2, Invariance, PTL DEF Spec
  <1> QED
    BY <1>3 DEF CdUp

\* A command changes or deletes the files it names, and no other; a file that goes
\* has been removed, moved, or is the one exit takes along.
THEOREM AlwaysOnlyNamed == Spec => OnlyNamed
  <1> DEFINE cmd == line_buf.cmd
             args == line_buf.args
             gone == DOMAIN files \ DOMAIN files'
             changed == {p \in DOMAIN files \cap DOMAIN files' : files'[p] # files[p]}
             Gone(p) == \/ cmd = "rm" /\ p = Meant(args[1])
                        \/ /\ cmd = "mv" /\ p = Meant(args[1])
                           /\ \/ Meant(args[2]) = p
                              \/ /\ Meant(args[2]) \in DOMAIN files'
                                 /\ files'[Meant(args[2])] = files[p]
                        \/ cmd = "exit" /\ p = Meant(<<"it">>)
             Changed(p) == \/ cmd = "touch" /\ p = Meant(args[1])
                           \/ cmd \in {"cp", "mv"} /\ p = Meant(args[2])
                           \/ cmd = "nano" /\ p = Meant(args[1])
  <1>1. ASSUME Inv, Next, \A k \in 1..Len(args) : Fits(args[k])
        PROVE  (\A p \in gone : Gone(p)) /\ (\A p \in changed : Changed(p))
    <2>1. PathInv
      BY <1>1 DEF Inv
    <2>2. ASSUME NEW a \in Args, Fits(a)
          PROVE  Names(MakeAbs(a)) = Meant(a)
      BY <2>1, <2>2, ArgIs, MakeAbsIs
    <2>3. ASSUME line_buf \in Lines, cmd \in {"rm", "touch", "nano"}
          PROVE  Names(Path(1)) = Meant(args[1])
      <3>1. PICK a \in Args : args = <<a>>
        BY <2>3, LineIs
      <3>2. Len(args) = 1 /\ args[1] = a
        BY <3>1
      <3> QED
        BY <1>1, <2>2, <3>2 DEF Path
    <2>4. ASSUME line_buf \in Lines, cmd \in {"cp", "mv"}
          PROVE  Names(Path(1)) = Meant(args[1]) /\ Names(Path(2)) = Meant(args[2])
      <3>1. PICK a \in Args, b \in Args : args = <<a, b>>
        BY <2>4, LineIs
      <3>2. Len(args) = 2 /\ args[1] = a /\ args[2] = b
        BY <3>1
      <3> QED
        BY <1>1, <2>2, <3>2 DEF Path
    <2>5. CASE Rm
      <3>1. line_buf \in Lines /\ cmd = "rm" /\ files' = Deleted(files, Path(1))
        BY <1>1, <2>5, Zenon DEF Inv, LineInv, Rm, Command
      <3>2. \A p \in gone : p = Names(Path(1))
        BY <3>1, DeletedIs, Zenon
      <3>3. changed = {}
        BY <3>1, DeletedIs, Zenon
      <3> QED
        BY <2>3, <3>1, <3>2, <3>3
    <2>6. CASE Exit
      <3> DEFINE it == <<"it">>
                 p == MakeAbs(it)
      <3>1. cmd = "exit" /\ files' = Deleted(files, p)
        BY <2>6, Zenon DEF Exit, Command
      <3>2. Names(p) \in {Meant(it), Names(cwd_buf)}
        <4> HIDE DEF it
        <4>1. it \in Texts /\ Separated(it) /\ it # <<>> /\ Head(it) # Slash /\ Len(it) = 1
          BY ItIs DEF it
        <4> QED
          BY <2>1, <4>1, MakeAbsIs
      <3>3. Resolvable(p) => Names(p) # <<>>
        BY DEF Resolvable
      <3>4. \A d \in dirs : d \notin DOMAIN files
        BY <1>1 DEF Inv, TreeInv
      <3>5. Names(cwd_buf) \in dirs \cup {<<>>}
        BY <1>1, Zenon DEF Inv, TreeInv, IsDirectory
      <3> HIDE DEF p, it
      <3>6. \A q \in gone : q = Names(p) /\ Resolvable(p)
        BY <3>1, DeletedIs
      <3>7. \A q \in gone : q = Meant(it)
        BY <3>2, <3>3, <3>4, <3>5, <3>6
      <3>8. changed = {}
        BY <3>1, DeletedIs
      <3> QED
        BY <3>1, <3>7, <3>8 DEF it
    <2>7. CASE Touch
      <3>1. line_buf \in Lines /\ cmd = "touch"
            /\ (files' = Written(files, Path(1), 0) \/ files' = files)
        BY <1>1, <2>7 DEF Inv, LineInv, Touch, Command
      <3>2. gone = {} /\ \A p \in changed : p = Names(Path(1))
        BY <3>1, Zenon DEF Written
      <3> QED
        BY <2>3, <3>1, <3>2
    <2>8. CASE Cp
      <3>1. line_buf \in Lines /\ cmd = "cp" /\ files' = Copied(Path(1), Path(2))
        BY <1>1, <2>8 DEF Inv, LineInv, Cp, Command
      <3>2. gone = {} /\ \A p \in changed : p = Names(Path(2))
        BY <3>1, CopiedIs
      <3> QED
        BY <2>4, <3>1, <3>2
    <2>9. CASE Mv
      <3>1. line_buf \in Lines /\ cmd = "mv" /\ files' = Moved(Path(1), Path(2))
        BY <1>1, <2>9 DEF Inv, LineInv, Mv, Command
      <3>2. \A p \in changed : p = Names(Path(2))
        BY <3>1, MovedIs
      <3>3. \A p \in gone : /\ p = Names(Path(1))
                            /\ \/ Names(Path(2)) = p
                               \/ /\ Names(Path(2)) \in DOMAIN files'
                                  /\ files'[Names(Path(2))] = files[p]
        BY <3>1, MovedIs
      <3>4. Names(Path(1)) = Meant(args[1]) /\ Names(Path(2)) = Meant(args[2])
        BY <2>4, <3>1
      <3> QED
        BY <3>1, <3>2, <3>3, <3>4
    <2>10. CASE NanoSave
      <3>1. line_buf \in Lines /\ cmd = "nano" /\ files' = Written(files, Path(1), nano_len)
        BY <1>1, <2>10 DEF Inv, LineInv, NanoSave
      <3>2. gone = {} /\ \A p \in changed : p = Names(Path(1))
        BY <3>1, Zenon DEF Written
      <3> QED
        BY <2>3, <3>1, <3>2
    <2>11. CASE ~Rm /\ ~Exit /\ ~Touch /\ ~Cp /\ ~Mv /\ ~NanoSave
      <3>1. files' = files
        BY <1>1, <2>11 DEF Next, ReadLine, Ls, Pwd, Ping, Shown, Cd, Mkdir, Reboot,
           Nano, NanoAppend, NanoBackspace, NanoFail, NanoExit, Nc, NcSend, disk
      <3>2. gone = {} /\ changed = {}
        BY <3>1, Zenon
      <3> QED
        BY <3>2, Zenon
    <2> QED
      BY <2>5, <2>6, <2>7, <2>8, <2>9, <2>10, <2>11, Zenon
  <1>2. Inv /\ [Next]_vars => [NamedStep]_vars
    BY <1>1 DEF NamedStep
  <1> QED
    BY <1>2, Invariance, PTL DEF Spec, OnlyNamed

=============================================================================
