-------------------------- MODULE NetConsoleProofs --------------------------
(***************************************************************************)
(* The ARP cache, the datagram slot and the transmit buffers, for every    *)
(* number of hosts, size of the cache and number of transmit descriptors.  *)
(* Then the terminal, for every size of the grid: the cursor recovers from *)
(* any interleaving of output and echo, only an echo in four places of the *)
(* output leaves the grid, and then by one row or one column at most.  The *)
(* console around it, with the ring, raw input and the reader, still       *)
(* behaves as module Terminal says; its ring is a first-in first-out queue *)
(* for every size, and a read returns one line at most.                    *)
(***************************************************************************)
EXTENDS Net, Console, WellFoundedInduction, TLAPS

-----------------------------------------------------------------------------
(***************************************************************************)
(* Sequences, as the kernel's lists and strings are modelled.              *)
(***************************************************************************)

\* An entry of a sequence.
LEMMA EntryOf ==
  ASSUME NEW S, NEW s \in Seq(S), NEW i \in 1..Len(s)
  PROVE  s[i] \in S
  OBVIOUS

\* The empty sequence, and the others.
LEMMA NoEntries ==
  ASSUME NEW S
  PROVE  /\ <<>> \in Seq(S) /\ Len(<<>>) = 0
         /\ \A s \in Seq(S) : s # <<>> => Len(s) \in Nat \ {0}
  OBVIOUS

\* Sequences with the same entries are the same.
LEMMA SameEntries ==
  ASSUME NEW S, NEW s \in Seq(S), NEW t \in Seq(S),
         Len(s) = Len(t), \A i \in 1..Len(s) : s[i] = t[i]
  PROVE  s = t
  OBVIOUS

\* One entry more, at the end.
LEMMA OneMore ==
  ASSUME NEW S, NEW s \in Seq(S), NEW a \in S
  PROVE  /\ Append(s, a) \in Seq(S) /\ Append(s, a) # <<>>
         /\ Len(Append(s, a)) = Len(s) + 1 /\ Append(s, a)[Len(s) + 1] = a
         /\ \A i \in 1..Len(s) : Append(s, a)[i] = s[i]
  OBVIOUS

\* One entry more is a sequence of one joined on.
LEMMA OneMoreJoined ==
  ASSUME NEW S, NEW s \in Seq(S), NEW a \in S
  PROVE  Append(s, a) = s \o <<a>>
  OBVIOUS

\* Two sequences joined.
LEMMA TwoJoined ==
  ASSUME NEW S, NEW s \in Seq(S), NEW t \in Seq(S)
  PROVE  /\ s \o t \in Seq(S) /\ Len(s \o t) = Len(s) + Len(t)
         /\ \A i \in 1..(Len(s) + Len(t)) :
              (s \o t)[i] = IF i <= Len(s) THEN s[i] ELSE t[i - Len(s)]
  OBVIOUS

\* Joining the empty sequence changes nothing.
LEMMA JoinedToNone ==
  ASSUME NEW S, NEW s \in Seq(S)
  PROVE  s \o <<>> = s /\ <<>> \o s = s
  OBVIOUS

\* The first entry and the rest.
LEMMA FirstAndRest ==
  ASSUME NEW S, NEW s \in Seq(S), s # <<>>
  PROVE  /\ Head(s) \in S /\ Tail(s) \in Seq(S) /\ Len(Tail(s)) = Len(s) - 1
         /\ \A i \in 1..Len(Tail(s)) : Tail(s)[i] = s[i + 1]
  OBVIOUS

\* A part of a sequence.
LEMMA PartOf ==
  ASSUME NEW S, NEW s, NEW m \in Int, NEW n \in Int, \A i \in m..n : s[i] \in S
  PROVE  /\ SubSeq(s, m, n) \in Seq(S)
         /\ Len(SubSeq(s, m, n)) = IF m <= n THEN n - m + 1 ELSE 0
         /\ \A i \in 1..(n - m + 1) : SubSeq(s, m, n)[i] = s[m + i - 1]
  OBVIOUS

-----------------------------------------------------------------------------
(***************************************************************************)
(* The ARP cache.  CacheGet returns the first entry of an address; that    *)
(* CacheSet never makes a second is what makes it the one updated.         *)
(***************************************************************************)

Entry == [ip : Hosts, mac : MACs]

Unique ==
  \A i, j \in DOMAIN arp_cache : arp_cache[i].ip = arp_cache[j].ip => i = j

ArpInv ==
  /\ arp_cache \in Seq(Entry)
  /\ heard \in [Hosts -> MACs \cup {None}]
  /\ Unique
  /\ CacheFollowsHosts

\* CacheSet on an address that has an entry.
LEMMA ArpUpdate ==
  ASSUME ArpInv, NEW ip \in Hosts, NEW mac \in MACs,
         ~Unknown(ip),
         arp_cache' = CacheSet(ip, mac), heard' = [heard EXCEPT ![ip] = mac]
  PROVE  ArpInv'
  <1>1. arp_cache' = [i \in DOMAIN arp_cache |->
           IF arp_cache[i].ip = ip THEN [ip |-> ip, mac |-> mac] ELSE arp_cache[i]]
    BY DEF CacheSet, Unknown
  <1>2. arp_cache \in Seq(Entry)
    BY DEF ArpInv
  <1>3. /\ arp_cache' \in Seq(Entry)
        /\ DOMAIN arp_cache' = DOMAIN arp_cache
        /\ Len(arp_cache') = Len(arp_cache)
    BY <1>1, <1>2 DEF Entry
  <1>4. \A i \in DOMAIN arp_cache :
           /\ arp_cache'[i].ip = arp_cache[i].ip
           /\ arp_cache[i].ip # ip => arp_cache'[i] = arp_cache[i]
           /\ arp_cache[i].ip = ip => arp_cache'[i] = [ip |-> ip, mac |-> mac]
    BY <1>1
  <1>5. Unique'
    BY <1>3, <1>4 DEF ArpInv, Unique
  <1>6. ASSUME NEW h \in Hosts, heard'[h] # None
        PROVE  IsCached(h, heard[h])' \/ (Unknown(h) /\ Len(arp_cache) = CacheSize)'
    <2>1. CASE h = ip
      <3>1. heard'[h] = mac
        BY <2>1 DEF ArpInv
      <3>2. PICK i \in DOMAIN arp_cache : arp_cache[i].ip = ip
        BY DEF Unknown
      <3>3. arp_cache'[i] = [ip |-> ip, mac |-> mac]
        BY <3>2, <1>4
      <3>4. \A j \in 1..(i - 1) : j \in DOMAIN arp_cache /\ j # i
        BY <1>2, <3>2
      <3>5. \A j \in 1..(i - 1) : arp_cache'[j].ip # ip
        BY <3>2, <3>4, <1>4 DEF ArpInv, Unique
      <3> QED
        BY <3>1, <3>3, <3>5, <1>3, <2>1 DEF IsCached
    <2>2. CASE h # ip
      <3>1. heard'[h] = heard[h]
        BY <2>2 DEF ArpInv
      <3>2. CASE IsCached(h, heard[h])
        <4>1. PICK i \in DOMAIN arp_cache :
                /\ arp_cache[i] = [ip |-> h, mac |-> heard[h]]
                /\ \A j \in 1..(i - 1) : arp_cache[j].ip # h
          BY <3>2 DEF IsCached
        <4>2. arp_cache'[i] = [ip |-> h, mac |-> heard[h]]
          BY <4>1, <1>4, <2>2
        <4>3. \A j \in 1..(i - 1) : arp_cache'[j].ip # h
          BY <4>1, <1>4, <1>2
        <4> QED
          BY <4>1, <4>2, <4>3, <1>3, <3>1 DEF IsCached
      <3>3. CASE Unknown(h) /\ Len(arp_cache) = CacheSize
        BY <3>3, <1>3, <1>4 DEF Unknown
      <3> QED
        BY <1>6, <3>1, <3>2, <3>3 DEF ArpInv, CacheFollowsHosts
    <2> QED
      BY <2>1, <2>2
  <1>7. heard' \in [Hosts -> MACs \cup {None}]
    BY DEF ArpInv
  <1>8. CacheFollowsHosts'
    BY <1>6 DEF CacheFollowsHosts
  <1> QED
    BY <1>3, <1>5, <1>7, <1>8 DEF ArpInv

\* CacheSet on an address that has none, with a place left.
LEMMA ArpInsert ==
  ASSUME ArpInv, NEW ip \in Hosts, NEW mac \in MACs,
         Unknown(ip), Len(arp_cache) < CacheSize,
         arp_cache' = CacheSet(ip, mac), heard' = [heard EXCEPT ![ip] = mac]
  PROVE  ArpInv'
  <1> DEFINE new == [ip |-> ip, mac |-> mac]
             n == Len(arp_cache) + 1
  <1>1. arp_cache' = Append(arp_cache, new)
    BY DEF CacheSet, Unknown
  <1>2. arp_cache \in Seq(Entry) /\ new \in Entry /\ Len(arp_cache) \in Nat
    BY DEF ArpInv, Entry
  <1>3. /\ arp_cache' \in Seq(Entry)
        /\ DOMAIN arp_cache = 1..Len(arp_cache)
        /\ DOMAIN arp_cache' = 1..n
        /\ arp_cache'[n] = new
        /\ \A i \in 1..Len(arp_cache) : arp_cache'[i] = arp_cache[i]
        /\ Len(arp_cache') <= CacheSize
    BY <1>1, <1>2, NetAssumption
  <1> HIDE DEF n, new
  <1>4. n \in 1..n /\ \A i \in 1..n : i = n \/ i \in 1..Len(arp_cache)
    BY <1>2 DEF n
  <1>5. new.ip = ip /\ \A i \in 1..Len(arp_cache) : arp_cache[i].ip # ip
    BY <1>3 DEF Unknown, new
  <1>6. Unique'
    BY <1>3, <1>4, <1>5 DEF ArpInv, Unique
  <1>7. ASSUME NEW h \in Hosts, heard'[h] # None
        PROVE  IsCached(h, heard[h])'
    <2>1. CASE h = ip
      <3>1. heard'[h] = mac
        BY <2>1 DEF ArpInv
      <3>2. \A j \in 1..(n - 1) : arp_cache'[j].ip # ip
        BY <1>2, <1>3, <1>5 DEF n
      <3> QED
        BY <3>1, <3>2, <1>3, <1>4, <2>1 DEF IsCached, new
    <2>2. CASE h # ip
      <3>1. heard'[h] = heard[h]
        BY <2>2 DEF ArpInv
      <3>2. IsCached(h, heard[h])
        BY <1>7, <3>1 DEF ArpInv, CacheFollowsHosts
      <3>3. PICK i \in DOMAIN arp_cache :
              /\ arp_cache[i] = [ip |-> h, mac |-> heard[h]]
              /\ \A j \in 1..(i - 1) : arp_cache[j].ip # h
        BY <3>2 DEF IsCached
      <3>4. i \in 1..n /\ \A j \in 1..(i - 1) : j \in 1..Len(arp_cache)
        BY <3>3, <1>2, <1>3 DEF n
      <3> QED
        BY <3>1, <3>3, <3>4, <1>3 DEF IsCached
    <2> QED
      BY <2>1, <2>2
  <1>8. heard' \in [Hosts -> MACs \cup {None}]
    BY DEF ArpInv
  <1>9. CacheFollowsHosts'
    BY <1>7 DEF CacheFollowsHosts
  <1> QED
    BY <1>3, <1>6, <1>8, <1>9 DEF ArpInv

\* CacheSet on an address that has none, with the cache full.
LEMMA ArpFull ==
  ASSUME ArpInv, NEW ip \in Hosts, NEW mac \in MACs,
         Unknown(ip), ~(Len(arp_cache) < CacheSize), Len(arp_cache) <= CacheSize,
         arp_cache' = CacheSet(ip, mac), heard' = [heard EXCEPT ![ip] = mac]
  PROVE  ArpInv'
  <1>1. arp_cache' = arp_cache
    BY DEF CacheSet, Unknown
  <1>2. Len(arp_cache) = CacheSize
    BY NetAssumption DEF ArpInv
  <1>3. heard' \in [Hosts -> MACs \cup {None}] /\ \A h \in Hosts : h # ip => heard'[h] = heard[h]
    BY DEF ArpInv
  <1>4. CacheFollowsHosts'
    BY <1>1, <1>2, <1>3 DEF ArpInv, CacheFollowsHosts, IsCached, Unknown
  <1> QED
    BY <1>1, <1>3, <1>4 DEF ArpInv, Unique

\* Where a host can be reached is what it last said, or the cache was full: for
\* every set of hosts and every size of arp_cache.
THEOREM CacheAlwaysFollows == NetSpec => []CacheFollowsHosts
  <1> DEFINE I == ArpInv /\ Len(arp_cache) <= CacheSize
  <1>1. NetInit => I
    BY NetAssumption DEF NetInit, ArpInv, Unique, CacheFollowsHosts, None
  <1>2. ASSUME I, [NetNext]_netvars
        PROVE  I'
    <2>1. CASE HandleArp
      <3>1. PICK ip \in Hosts, mac \in MACs :
              arp_cache' = CacheSet(ip, mac) /\ heard' = [heard EXCEPT ![ip] = mac]
        BY <2>1, Zenon DEF HandleArp
      <3>2. Len(arp_cache') <= CacheSize
        BY <1>2, <3>1, NetAssumption DEF CacheSet, ArpInv
      <3> QED
        BY <1>2, <3>1, <3>2, ArpUpdate, ArpInsert, ArpFull, Zenon
    <2>2. CASE UNCHANGED arp
      BY <1>2, <2>2 DEF arp, ArpInv, Unique, CacheFollowsHosts, IsCached, Unknown
    <2>3. HandleArp \/ UNCHANGED arp
      BY <1>2 DEF NetNext, netvars, HandleEcho, HandleUdp, Transmit, Program, SendUdp,
         SendBuf, SendCopy, SendTsad, SendTsd, SendNext, RecvUdp, RecvPoll, RecvTimeout,
         RecvWaited, RecvLen, RecvCopy, RecvReady, RecvClear, Use
    <2> QED
      BY <2>1, <2>2, <2>3
  <1>3. I => CacheFollowsHosts
    BY DEF ArpInv
  <1> QED
    BY <1>1, <1>2, <1>3, PTL DEF NetSpec
-----------------------------------------------------------------------------
(***************************************************************************)
(* The datagram slot.  As long as the last datagram did not come during a  *)
(* copy, the slot, or the part already copied, holds it.                   *)
(***************************************************************************)

Whole == <<newest, newest>>

Copied == {<<>>, <<newest>>, <<newest, newest>>}

SlotInv ==
  /\ udp_rx_ready /\ ~disturbed => udp_rx_buf = Whole
  /\ net_pc = "r_wait" /\ udp_rx_ready => ~disturbed
  /\ net_pc \in {"r_len", "r_copy"} /\ ~disturbed => udp_rx_ready
  /\ net_pc = "r_copy" /\ ~disturbed => local.copy = 2 /\ net_data \in Copied
  /\ net_pc = "r_clear" /\ ~disturbed => net_data = Whole /\ ~udp_rx_ready

LocalType ==
  /\ local \in [want : [to : MACs \cup {None}, packet : {None, "udp"}],
                buf : Nat, copy : Nat]
  /\ tx_current \in Nat
  /\ udp_rx_buf \in {<<>>} \cup {<<d, d>> : d \in Datagrams}

Receiving == {"r_wait", "r_len", "r_copy", "r_clear"}

\* The locals keep their types.
LEMMA LocalTypes == NetSpec => []LocalType
  <1>1. NetInit => LocalType
    <2>1. 1 % Descriptors \in Nat
      BY NetAssumption
    <2> QED
      BY <2>1 DEF NetInit, LocalType, NoLocal, Nothing, None
  <1>2. ASSUME LocalType, [NetNext]_netvars
        PROVE  LocalType'
    <2>1. NextDescriptor \in Nat
      BY <1>2, NetAssumption DEF LocalType, NextDescriptor
    <2>2. Len(udp_rx_buf) \in Nat
      BY <1>2 DEF LocalType
    <2>3. CASE HandleArp
      BY <1>2, <2>1, <2>3 DEF HandleArp, HandlerSend, LocalType, slot, call, transmit
    <2>4. CASE HandleEcho
      BY <1>2, <2>1, <2>4 DEF HandleEcho, HandlerSend, LocalType, slot, call
    <2>5. CASE HandleUdp
      BY <1>2, <2>5 DEF HandleUdp, OnReceive, LocalType, transmit, call
    <2>6. CASE Transmit
      BY <1>2, <2>6 DEF Transmit, LocalType, slot, call
    <2>7. CASE SendUdp
      BY <1>2, <2>7 DEF SendUdp, LocalType, slot
    <2>8. CASE SendBuf
      BY <1>2, <2>8 DEF SendBuf, LocalType, transmit, slot
    <2>9. CASE SendCopy \/ SendTsad \/ SendTsd
      BY <1>2, <2>9 DEF SendCopy, SendTsad, SendTsd, LocalType, slot
    <2>10. CASE SendNext
      BY <1>2, <2>1, <2>10 DEF SendNext, LocalType, slot, NoLocal, Nothing, None
    <2>11. CASE RecvUdp \/ RecvPoll \/ RecvTimeout \/ RecvWaited
      BY <1>2, <2>11 DEF RecvUdp, RecvPoll, RecvTimeout, RecvWaited, LocalType,
                         transmit, slot
    <2>12. CASE RecvLen
      BY <1>2, <2>2, <2>12 DEF RecvLen, LocalType, transmit, slot
    <2>13. CASE RecvCopy \/ RecvReady \/ Use
      BY <1>2, <2>13 DEF RecvCopy, RecvReady, Use, LocalType, transmit, slot
    <2>14. CASE RecvClear
      BY <1>2, <2>14 DEF RecvClear, LocalType, transmit, NoLocal, Nothing, None
    <2>15. CASE UNCHANGED netvars
      BY <1>2, <2>15 DEF netvars, LocalType, transmit, slot, call
    <2> QED
      BY <1>2, <2>3, <2>4, <2>5, <2>6, <2>7, <2>8, <2>9, <2>10, <2>11, <2>12, <2>13,
         <2>14, <2>15 DEF NetNext, Program
  <1> QED
    BY <1>1, <1>2, PTL DEF NetSpec

\* The second byte completes a datagram of two.
LEMMA TwoBytes == \A d : Append(<<d>>, d) = <<d, d>>
  <1> TAKE d
  <1> DEFINE s == Append(<<d>>, d)
             t == <<d, d>>
  <1>1. <<d>> \in Seq({d}) /\ d \in {d} /\ Len(<<d>>) = 1 /\ <<d>>[1] = d
    OBVIOUS
  <1>2. t \in Seq({d}) /\ Len(t) = 2 /\ t[1] = d /\ t[2] = d
    OBVIOUS
  <1>3. s \in Seq({d}) /\ Len(s) = 2
    BY <1>1, OneMore
  <1>4. s[1] = d /\ s[2] = d
    BY <1>1, OneMore
  <1> HIDE DEF s, t
  <1>5. \A i \in 1..Len(s) : s[i] = t[i]
    BY <1>2, <1>3, <1>4
  <1>6. s = t
    BY <1>2, <1>3, <1>5, SameEntries
  <1> QED
    BY <1>6 DEF s, t

\* What does not touch the slot and is not in a receive leaves SlotInv alone.
LEMMA SlotQuiet ==
  ASSUME SlotInv, UNCHANGED slot,
         net_pc' \notin Receiving \/ UNCHANGED <<net_pc, local, net_data>>
  PROVE  SlotInv'
  BY DEF SlotInv, slot, Receiving, Whole, Copied

\* A step of sys_net_recv_udp.
LEMMA SlotReceive ==
  ASSUME SlotInv, LocalType,
         \/ RecvUdp \/ RecvPoll \/ RecvTimeout \/ RecvWaited
         \/ RecvLen \/ RecvCopy \/ RecvReady \/ RecvClear
  PROVE  SlotInv'
  <1>1. CASE RecvUdp \/ RecvPoll \/ RecvTimeout
    BY <1>1 DEF RecvUdp, RecvPoll, RecvTimeout, SlotInv, slot, Whole
  <1>2. CASE RecvWaited
    BY <1>2 DEF RecvWaited, SlotInv
  <1>3. CASE RecvLen
    <2>1. local'.copy = Len(udp_rx_buf)
      BY <1>3 DEF RecvLen, LocalType
    <2>2. udp_rx_buf = Whole => Len(udp_rx_buf) = 2
      BY DEF Whole
    <2>3. net_pc = "r_len" /\ net_pc' = "r_copy" /\ net_data' = <<>> /\ UNCHANGED slot
      BY <1>3 DEF RecvLen
    <2>4. ~disturbed => local'.copy = 2 /\ net_data' \in Copied'
      BY <2>1, <2>2, <2>3 DEF SlotInv, Copied
    <2> QED
      BY <2>3, <2>4 DEF SlotInv, slot, Whole
  <1>4. CASE RecvCopy
    <2>1. /\ net_pc = "r_copy" /\ net_pc' = net_pc /\ local' = local
          /\ UNCHANGED <<udp_rx_buf, udp_rx_ready, newest, disturbed>>
          /\ Len(net_data) < local.copy
          /\ net_data' = Append(net_data, udp_rx_buf[Len(net_data) + 1])
      BY <1>4 DEF RecvCopy, slot
    <2>2. ~disturbed => net_data' \in Copied
      <3> SUFFICES ASSUME ~disturbed PROVE net_data' \in Copied
        OBVIOUS
      <3>1. udp_rx_buf = <<newest, newest>> /\ local.copy = 2 /\ net_data \in Copied
        BY <2>1 DEF SlotInv, Whole
      <3>2. CASE net_data = <<>>
        BY <2>1, <3>1, <3>2 DEF Copied
      <3>3. CASE net_data = <<newest>>
        <4>1. Len(net_data) + 1 = 2
          BY <3>3
        <4>2. udp_rx_buf[2] = newest
          BY <3>1
        <4>3. Append(<<newest>>, newest) = <<newest, newest>>
          BY TwoBytes
        <4> QED
          BY <2>1, <3>3, <4>1, <4>2, <4>3 DEF Copied
      <3>4. net_data # <<newest, newest>>
        BY <2>1, <3>1
      <3> QED
        BY <3>1, <3>2, <3>3, <3>4 DEF Copied
    <2> QED
      BY <2>1, <2>2 DEF SlotInv, Whole, Copied
  <1>5. CASE RecvReady
    <2>1. net_pc = "r_copy" /\ ~disturbed => net_data = Whole
      BY <1>5 DEF RecvReady, SlotInv, Copied, Whole
    <2> QED
      BY <1>5, <2>1 DEF RecvReady, SlotInv, Whole
  <1>6. CASE RecvClear
    BY <1>6 DEF RecvClear, SlotInv, Whole
  <1> QED
    BY <1>1, <1>2, <1>3, <1>4, <1>5, <1>6

\* SlotInv is inductive.
LEMMA SlotInvariant == NetSpec => []SlotInv
  <1>1. NetInit => SlotInv
    BY DEF NetInit, SlotInv
  <1>2. ASSUME SlotInv, LocalType, [NetNext]_netvars
        PROVE  SlotInv'
    <2>1. CASE HandleArp \/ HandleEcho \/ Transmit \/ UNCHANGED netvars
      <3>1. UNCHANGED <<slot, net_pc, local, net_data>>
        BY <2>1, Zenon DEF HandleArp, HandleEcho, Transmit, netvars, call
      <3> QED
        BY <1>2, <3>1, SlotQuiet
    <2>2. CASE HandleUdp
      <3>1. PICK d \in Datagrams :
              /\ udp_rx_buf' = <<d, d>> /\ udp_rx_ready' = TRUE /\ newest' = d
              /\ disturbed' = (net_pc \in Copying) /\ UNCHANGED <<net_pc, local, net_data>>
        BY <2>2 DEF HandleUdp, OnReceive, call
      <3> QED
        BY <3>1, Zenon DEF SlotInv, Whole, Copying
    <2>3. CASE SendUdp \/ SendBuf \/ SendCopy \/ SendTsad \/ SendTsd \/ SendNext \/ Use
      <3>1. UNCHANGED slot /\ net_pc' \notin Receiving
        BY <2>3 DEF SendUdp, SendBuf, SendCopy, SendTsad, SendTsd, SendNext, Use, Receiving
      <3> QED
        BY <1>2, <3>1, SlotQuiet
    <2>4. CASE \/ RecvUdp \/ RecvPoll \/ RecvTimeout \/ RecvWaited
               \/ RecvLen \/ RecvCopy \/ RecvReady \/ RecvClear
      BY <1>2, <2>4, SlotReceive
    <2> QED
      BY <1>2, <2>1, <2>2, <2>3, <2>4 DEF NetNext, Program
  <1> QED
    BY <1>1, <1>2, LocalTypes, PTL DEF NetSpec

\* sys_net_recv_udp returns the newest datagram, whole and once, unless one came in
\* the middle of a copy with interrupts on.
THEOREM AlwaysReturnsNewest == NetSpec => ReturnsNewest
  <1>1. ASSUME SlotInv, [NetNext]_netvars
        PROVE  [net_pc # "returned" /\ net_pc' = "returned"
                  => net_data' = Whole \/ (net_pc = "r_clear" /\ disturbed)]_netvars
    <2>1. CASE RecvWaited
      BY <1>1, <2>1 DEF RecvWaited, SlotInv, Whole
    <2>2. CASE RecvClear
      BY <1>1, <2>2 DEF RecvClear, SlotInv, Whole
    <2>3. CASE net_pc' # "returned" \/ net_pc' = net_pc
      BY <2>3
    <2>4. RecvWaited \/ RecvClear \/ net_pc' # "returned" \/ net_pc' = net_pc
      BY <1>1, Zenon DEF NetNext, netvars, call, HandleArp, HandleEcho, HandleUdp, Transmit, Program,
         SendUdp, SendBuf, SendCopy, SendTsad, SendTsd, SendNext, RecvUdp, RecvPoll,
         RecvTimeout, RecvLen, RecvCopy, RecvReady, Use
    <2> QED
      BY <2>1, <2>2, <2>3, <2>4
  <1> QED
    BY <1>1, SlotInvariant, PTL DEF NetSpec, ReturnsNewest, Whole

-----------------------------------------------------------------------------
(***************************************************************************)
(* The transmit descriptors.                                               *)
(***************************************************************************)

Frame == [to : MACs \cup {None}, packet : {None, "udp", "arp", "echo"}]
Slots == 0..(Descriptors - 1)

TransmitType ==
  /\ tx_current \in Slots
  /\ tx_buf \in {None, "udp", "echo"}
  /\ tx_buffers \in [Slots -> Frame]
  /\ tsad \in [Slots -> Nat]
  /\ queue \in Seq([desc : Slots, want : Frame])
  /\ raced \in BOOLEAN

\* The descriptor k before the next one to be used: a call has used tx_current
\* between its write of the status register and its increment.
Before(k) ==
  LET b == tx_current + (IF net_pc = "s_next" THEN 1 ELSE 0)
  IN  IF k <= b THEN b - k ELSE b - k + Descriptors

\* Frame i of the queue is in the descriptor and the buffer it should be in.
Placed(i) ==
  LET d == queue[i].desc
  IN  /\ d = Before(Len(queue) - i + 1)
      /\ tsad[d] = d
      /\ tx_buffers[d] = queue[i].want

\* The descriptors that the card has are the last ones used, each with its own buffer
\* and the frame that was meant; and where a call stands in the driver.
Meant ==
  /\ Len(queue) <= Descriptors
  /\ \A i \in 1..Len(queue) : Placed(i)
  /\ net_pc \in InIPv4 => local.want.packet = "udp"
  /\ net_pc \in {"s_buf", "s_copy"} => tx_buf = "udp"
  /\ net_pc \in {"s_copy", "s_tsad", "s_tsd"} => local.buf = tx_current
  /\ net_pc \in {"s_tsad", "s_tsd"} =>
       Len(queue) < Descriptors /\ tx_buffers[tx_current] = local.want
  /\ net_pc = "s_tsd" => tsad[tx_current] = tx_current

TransmitInv == TransmitType /\ (~raced => Meant)

\* The descriptor after the last is the first.
LEMMA NextIs ==
  ASSUME tx_current \in Slots
  PROVE  NextDescriptor = IF tx_current = Descriptors - 1 THEN 0 ELSE tx_current + 1
  <1>1. CASE tx_current = Descriptors - 1
    <2>1. NextDescriptor = Descriptors % Descriptors
      BY <1>1, NetAssumption DEF NextDescriptor
    <2> QED
      BY <1>1, <2>1, NetAssumption, Z3
  <1>2. CASE tx_current # Descriptors - 1
    BY <1>2, NetAssumption, Z3 DEF NextDescriptor, Slots
  <1> QED
    BY <1>1, <1>2

\* A frame to send has the type of a frame.
LEMMA WantTypes ==
  ASSUME LocalType
  PROVE  /\ local.want \in Frame /\ local.buf \in Nat
         /\ \A mac \in MACs, p \in {"udp", "arp", "echo"} : [to |-> mac, packet |-> p] \in Frame
         /\ \A p \in {None, "udp", "echo"} : [to |-> local.want.to, packet |-> p] \in Frame
         /\ Nothing \in Frame
  BY DEF LocalType, Frame, Nothing

\* The transmit state keeps its types, raced or not.
LEMMA TransmitTypes ==
  ASSUME TransmitType, LocalType, [NetNext]_netvars
  PROVE  TransmitType'
  <1>1. NextDescriptor \in Slots
    BY NextIs, NetAssumption DEF TransmitType, Slots
  <1>2. ASSUME NEW w \in Frame
        PROVE  /\ [tx_buffers EXCEPT ![tx_current] = w] \in [Slots -> Frame]
               /\ Append(queue, [desc |-> tx_current, want |-> w])
                    \in Seq([desc : Slots, want : Frame])
    BY DEF TransmitType
  <1>3. [tsad EXCEPT ![tx_current] = tx_current] \in [Slots -> Nat]
    BY NetAssumption DEF TransmitType, Slots
  <1>4. CASE HandleArp
    <2>1. CASE UNCHANGED transmit
      BY <2>1 DEF TransmitType, transmit
    <2>2. ASSUME NEW mac \in MACs, UNCHANGED tx_buf,
                 HandlerSend([to |-> mac, packet |-> "arp"], InDriver)
          PROVE  TransmitType'
      <3>1. [to |-> mac, packet |-> "arp"] \in Frame
        BY WantTypes, Zenon
      <3>2. raced' \in BOOLEAN
        BY <2>2, Zenon DEF HandlerSend
      <3> QED
        BY <2>2, <3>1, <3>2, <1>1, <1>2, <1>3 DEF TransmitType, HandlerSend
    <2> QED
      BY <1>4, <2>1, <2>2 DEF HandleArp
  <1>5. CASE HandleEcho
    <2>1. PICK mac \in MACs : HandlerSend([to |-> mac, packet |-> "echo"], InIPv4)
      BY <1>5 DEF HandleEcho
    <2>2. [to |-> mac, packet |-> "echo"] \in Frame
      BY WantTypes, Zenon
    <2>3. raced' \in BOOLEAN
      BY <2>1, Zenon DEF HandlerSend
    <2>4. tx_buf' \in {None, "udp", "echo"}
      BY <1>5 DEF HandleEcho
    <2> QED
      BY <2>1, <2>2, <2>3, <2>4, <1>1, <1>2, <1>3 DEF TransmitType, HandlerSend
  <1>6. CASE Transmit
    <2>1. raced' \in BOOLEAN
      BY <1>6, Zenon DEF Transmit
    <2>2. [tx_buffers EXCEPT ![tsad[Head(queue).desc]] = Nothing] \in [Slots -> Frame]
      BY WantTypes, Zenon DEF TransmitType
    <2>3. Tail(queue) \in Seq([desc : Slots, want : Frame])
      BY <1>6 DEF Transmit, TransmitType
    <2> QED
      BY <1>6, <2>1, <2>2, <2>3 DEF Transmit, TransmitType
  <1>7. CASE SendUdp
    BY <1>7 DEF SendUdp, TransmitType
  <1>8. CASE SendCopy
    <2>1. tx_buffers' \in [Slots -> Frame]
      BY <1>8, WantTypes, Zenon DEF SendCopy, TransmitType
    <2> QED
      BY <1>8, <2>1 DEF SendCopy, TransmitType
  <1>9. CASE SendTsad
    BY <1>9, WantTypes DEF SendTsad, TransmitType
  <1>10. CASE SendTsd
    BY <1>10, WantTypes, <1>2 DEF SendTsd, TransmitType
  <1>11. CASE SendNext
    <2>1. raced' \in BOOLEAN
      BY <1>11, Zenon DEF SendNext
    <2> QED
      BY <1>11, <2>1, <1>1 DEF SendNext, TransmitType
  <1>12. CASE SendBuf \/ HandleUdp \/ RecvUdp \/ RecvPoll \/ RecvTimeout \/ RecvWaited \/ RecvLen
              \/ RecvCopy \/ RecvReady \/ RecvClear \/ Use \/ UNCHANGED netvars
    <2>1. UNCHANGED transmit
      BY <1>12 DEF SendBuf, HandleUdp, RecvUdp, RecvPoll, RecvTimeout, RecvWaited, RecvLen,
                   RecvCopy, RecvReady, RecvClear, Use, netvars
    <2> QED
      BY <2>1 DEF transmit, TransmitType
  <1> QED
    BY <1>4, <1>5, <1>6, <1>7, <1>8, <1>9, <1>10, <1>11, <1>12 DEF NetNext, Program

\* No two frames of the queue have the same descriptor; and the next one to be used
\* is in none of them as long as the card keeps up.
LEMMA Apart ==
  ASSUME TransmitType, Meant
  PROVE  /\ \A i, j \in 1..Len(queue) : queue[i].desc = queue[j].desc => i = j
         /\ net_pc # "s_next" /\ Len(queue) < Descriptors =>
              \A i \in 1..Len(queue) : queue[i].desc # tx_current
  <1>1. /\ Len(queue) \in Nat /\ Len(queue) <= Descriptors /\ Descriptors \in Nat \ {0}
        /\ tx_current \in 0..(Descriptors - 1)
    BY NetAssumption DEF TransmitType, Slots, Meant
  <1>2. \A i \in 1..Len(queue) : queue[i].desc = Before(Len(queue) - i + 1)
    BY DEF Meant, Placed
  <1>3. \A i, j \in 1..Len(queue) :
          Before(Len(queue) - i + 1) = Before(Len(queue) - j + 1) => i = j
    BY ONLY <1>1 DEF Before
  <1>4. net_pc # "s_next" /\ Len(queue) < Descriptors =>
          \A i \in 1..Len(queue) : Before(Len(queue) - i + 1) # tx_current
    BY ONLY <1>1 DEF Before
  <1> QED
    BY ONLY <1>2, <1>3, <1>4

\* What the elements of the queue are.
LEMMA Queued ==
  ASSUME TransmitType
  PROVE  /\ Len(queue) \in Nat
         /\ \A i \in 1..Len(queue) : queue[i].desc \in Slots
  <1>1. queue \in Seq([desc : Slots, want : Frame])
    BY DEF TransmitType
  <1>2. Len(queue) \in Nat
    BY <1>1
  <1>3. \A i \in 1..Len(queue) : queue[i] \in [desc : Slots, want : Frame]
    BY <1>1, EntryOf, Zenon
  <1> QED
    BY <1>2, <1>3

\* RTL8139Driver::Send of a handler, with no call inside the driver.
LEMMA HandlerPlaces ==
  ASSUME TransmitType, Meant, NEW w, NEW points, HandlerSend(w, points),
         net_pc \notin InDriver, net_pc' = net_pc
  PROVE  Len(queue)' <= Descriptors /\ \A i \in 1..Len(queue') : Placed(i)'
  <1> DEFINE new == [desc |-> tx_current, want |-> w]
  <1>0. PICK n \in Nat : n = Len(queue)
    BY Queued
  <1>1. /\ n \in Nat /\ n < Descriptors /\ Descriptors \in Nat \ {0}
        /\ tx_current \in 0..(Descriptors - 1)
    BY <1>0, NetAssumption DEF TransmitType, Slots, HandlerSend, CardKeepsUp
  <1>2. net_pc # "s_next"
    BY DEF InDriver
  <1>3. /\ queue' = Append(queue, new) /\ Len(queue') = n + 1
        /\ queue'[n + 1] = new /\ \A i \in 1..n : queue'[i] = queue[i]
    BY <1>0 DEF HandlerSend, TransmitType
  <1>4. tx_current' = IF tx_current = Descriptors - 1 THEN 0 ELSE tx_current + 1
    BY NextIs DEF HandlerSend, TransmitType
  <1>5. /\ tsad'[tx_current] = tx_current /\ tx_buffers'[tx_current] = w
        /\ \A d \in Slots : d # tx_current => tsad'[d] = tsad[d] /\ tx_buffers'[d] = tx_buffers[d]
    BY DEF HandlerSend, TransmitType
  <1> HIDE DEF new
  <1>6. \A k \in 1..n : Before(k + 1)' = Before(k)
    BY ONLY <1>1, <1>2, <1>4, net_pc' = net_pc DEF Before
  <1>7. Before(1)' = tx_current
    BY ONLY <1>1, <1>2, <1>4, net_pc' = net_pc DEF Before
  <1>8. ASSUME NEW i \in 1..n
        PROVE  Placed(i)'
    <2>1. /\ queue[i].desc \in Slots /\ queue[i].desc # tx_current /\ queue'[i] = queue[i]
          /\ queue[i].desc = Before(n - i + 1)
      BY <1>0, <1>1, <1>2, <1>3, Queued, Apart DEF Meant, Placed
    <2>2. n - i + 1 \in 1..n /\ (n - i + 1) + 1 = (n + 1) - i + 1
      BY <1>1
    <2>3. Before((n + 1) - i + 1)' = Before(n - i + 1)
      BY ONLY <1>6, <2>2
    <2>4. tsad[queue[i].desc] = queue[i].desc /\ tx_buffers[queue[i].desc] = queue[i].want
      BY <1>0 DEF Meant, Placed
    <2>5. queue'[i].desc = Before(Len(queue) - i + 1)'
      BY ONLY <2>1, <2>3, <1>3
    <2> QED
      BY ONLY <2>1, <2>4, <2>5, <1>5 DEF Placed
  <1>9. Placed(n + 1)'
    <2>1. (n + 1) - (n + 1) + 1 = 1
      BY <1>1
    <2>2. queue'[n + 1].desc = tx_current /\ queue'[n + 1].want = w
      BY <1>3 DEF new
    <2> QED
      BY ONLY <2>1, <2>2, <1>3, <1>5, <1>7 DEF Placed
  <1>10. \A i \in 1..Len(queue') : i \in 1..n \/ i = n + 1
    BY <1>1, <1>3
  <1> QED
    BY <1>1, <1>3, <1>8, <1>9, <1>10

\* The card takes the oldest frame and touches the buffer of no other.
LEMMA TransmitMeans ==
  ASSUME TransmitType, Meant, Transmit
  PROVE  Meant'
  <1>0. PICK n \in Nat : n = Len(queue)
    BY Queued
  <1> DEFINE d == queue[1].desc
  <1>1. n > 0 /\ n <= Descriptors /\ Descriptors \in Nat \ {0}
    BY <1>0, NetAssumption DEF Transmit, TransmitType, Meant
  <1>2. /\ Len(queue') = n - 1
        /\ \A i \in 1..(n - 1) : queue'[i] = queue[i + 1]
        /\ Head(queue).desc = d
    BY <1>0, <1>1 DEF Transmit, TransmitType
  <1>3. d \in Slots /\ tsad[d] = d
    BY <1>0, <1>1, Queued DEF Meant, Placed
  <1>4. \A e \in Slots : e # d => tx_buffers'[e] = tx_buffers[e]
    BY <1>2, <1>3 DEF Transmit, TransmitType
  <1> HIDE DEF d
  <1>5. UNCHANGED <<net_pc, local, tsad, tx_current, tx_buf>>
    BY DEF Transmit, call
  <1>6. ASSUME NEW i \in 1..(n - 1)
        PROVE  Placed(i)'
    <2>1. i + 1 \in 1..n /\ 1 \in 1..n /\ i + 1 # 1 /\ n - (i + 1) + 1 = (n - 1) - i + 1
      BY <1>1
    <2>2. queue[i + 1].desc \in Slots /\ queue[i + 1].desc # d /\ Placed(i + 1)
      BY <2>1, <1>0, Queued, Apart DEF Meant, d
    <2>3. Before((n - 1) - i + 1)' = Before(n - (i + 1) + 1)
      BY <2>1, <1>5 DEF Before
    <2> QED
      BY <1>0, <1>2, <1>4, <1>5, <2>2, <2>3 DEF Placed
  <1>7. net_pc \in {"s_tsad", "s_tsd"} => tx_current # d
    BY <1>0, <1>1, Apart DEF Meant, d
  <1>8. net_pc \in {"s_tsad", "s_tsd"} => tx_buffers'[tx_current] = tx_buffers[tx_current]
    BY <1>4, <1>7 DEF TransmitType
  <1>9. Len(queue)' <= Descriptors /\ (Len(queue) < Descriptors => Len(queue') < Descriptors)
    BY <1>0, <1>1, <1>2
  <1> QED
    BY <1>2, <1>5, <1>6, <1>8, <1>9 DEF Meant

\* The call has copied its frame into the buffer of the next descriptor.
LEMMA CopyMeans ==
  ASSUME TransmitType, LocalType, Meant, SendCopy
  PROVE  Meant'
  <1>1. /\ net_pc = "s_copy" /\ net_pc' = "s_tsad" /\ local.buf = tx_current
        /\ local.want.packet = "udp" /\ tx_buf = "udp" /\ Len(queue) < Descriptors
        /\ UNCHANGED <<tsad, tx_current, queue, local>>
    BY DEF SendCopy, Meant, CardKeepsUp, InIPv4, InDriver
  <1>2. local.want = [to |-> local.want.to, packet |-> "udp"]
    BY <1>1, Zenon DEF LocalType
  <1>3. /\ tx_buffers'[tx_current] = local.want
        /\ \A d \in Slots : d # tx_current => tx_buffers'[d] = tx_buffers[d]
    BY <1>1, <1>2, Zenon DEF SendCopy, TransmitType
  <1>4. ASSUME NEW i \in 1..Len(queue)
        PROVE  Placed(i)'
    <2>1. queue[i].desc \in Slots /\ queue[i].desc # tx_current /\ Placed(i)
      BY <1>1, Queued, Apart, Zenon DEF Meant
    <2>2. Before(Len(queue) - i + 1)' = Before(Len(queue) - i + 1)
      BY <1>1 DEF Before
    <2> QED
      BY <2>1, <2>2, <1>1, <1>3, Zenon DEF Placed
  <1> QED
    BY <1>1, <1>3, <1>4 DEF Meant

\* The call writes the descriptor's address register, then its status register.
LEMMA RegistersMean ==
  ASSUME TransmitType, LocalType, Meant, SendTsad \/ SendTsd
  PROVE  Meant'
  <1>1. CASE SendTsad
    <2>1. /\ net_pc = "s_tsad" /\ net_pc' = "s_tsd" /\ local.buf = tx_current
          /\ UNCHANGED <<tx_buffers, tx_current, queue, local, tx_buf>>
      BY <1>1 DEF SendTsad, Meant
    <2>2. /\ tsad'[tx_current] = tx_current
          /\ \A d \in Slots : d # tx_current => tsad'[d] = tsad[d]
      BY <1>1, <2>1 DEF SendTsad, TransmitType
    <2>3. ASSUME NEW i \in 1..Len(queue)
          PROVE  Placed(i)'
      <3>1. queue[i].desc \in Slots /\ Placed(i)
        BY Queued DEF Meant
      <3>2. Before(Len(queue) - i + 1)' = Before(Len(queue) - i + 1)
        BY <2>1 DEF Before
      <3> QED
        BY <2>1, <2>2, <3>1, <3>2 DEF Placed
    <2> QED
      BY <2>1, <2>2, <2>3 DEF Meant, InIPv4, InDriver
  <1>2. CASE SendTsd
    <2>0. PICK n \in Nat : n = Len(queue)
      BY Queued
    <2>1. /\ net_pc = "s_tsd" /\ net_pc' = "s_next" /\ tsad[tx_current] = tx_current
          /\ tx_buffers[tx_current] = local.want /\ n < Descriptors
          /\ UNCHANGED <<tx_buffers, tsad, tx_current, local, tx_buf>>
          /\ tx_current \in Nat /\ Descriptors \in Nat /\ local.want.packet = "udp"
      BY <1>2, <2>0, NetAssumption, Zenon DEF SendTsd, Meant, TransmitType, Slots, InIPv4, InDriver
    <2>2. /\ Len(queue') = n + 1 /\ \A i \in 1..n : queue'[i] = queue[i]
          /\ queue'[n + 1] = [desc |-> tx_current, want |-> local.want]
      BY <1>2, <2>0 DEF SendTsd, TransmitType
    <2>3. \A k \in 1..n : Before(k + 1)' = Before(k)
      BY ONLY <2>0, <2>1 DEF Before
    <2>4. Before(1)' = tx_current
      BY ONLY <2>1 DEF Before
    <2>5. ASSUME NEW i \in 1..n
          PROVE  Placed(i)'
      <3>1. n - i + 1 \in 1..n /\ (n - i + 1) + 1 = (n + 1) - i + 1
        OBVIOUS
      <3>2. Before((n + 1) - i + 1)' = Before(n - i + 1)
        BY ONLY <3>1, <2>3
      <3>3. Placed(i)
        BY <2>0 DEF Meant
      <3> QED
        BY ONLY <3>2, <3>3, <2>0, <2>1, <2>2 DEF Placed
    <2>6. Placed(n + 1)'
      <3>1. (n + 1) - (n + 1) + 1 = 1
        OBVIOUS
      <3> QED
        BY ONLY <3>1, <2>1, <2>2, <2>4 DEF Placed
    <2>7. \A i \in 1..Len(queue') : i \in 1..n \/ i = n + 1
      BY <2>2
    <2>8. Len(queue') <= Descriptors
      BY <2>1, <2>2
    <2> QED
      BY <2>1, <2>5, <2>6, <2>7, <2>8 DEF Meant
  <1> QED
    BY <1>1, <1>2

\* The call moves on to the next descriptor.
LEMMA NextMeans ==
  ASSUME TransmitType, Meant, SendNext
  PROVE  Meant'
  <1>0. PICK n \in Nat : n = Len(queue)
    BY Queued
  <1>1. /\ net_pc = "s_next" /\ net_pc' = "user" /\ n <= Descriptors /\ Descriptors \in Nat \ {0}
        /\ tx_current \in 0..(Descriptors - 1)
        /\ UNCHANGED <<tx_buffers, tsad, queue>>
    BY <1>0, NetAssumption DEF SendNext, Meant, TransmitType, Slots
  <1>2. tx_current' = IF tx_current = Descriptors - 1 THEN 0 ELSE tx_current + 1
    BY NextIs DEF SendNext, TransmitType
  <1>3. \A k \in 1..n : Before(k)' = Before(k)
    BY ONLY <1>1, <1>2 DEF Before
  <1>4. ASSUME NEW i \in 1..n
        PROVE  Placed(i)'
    <2>1. n - i + 1 \in 1..n
      OBVIOUS
    <2>2. Before(n - i + 1)' = Before(n - i + 1)
      BY ONLY <2>1, <1>3
    <2>3. Placed(i)
      BY <1>0 DEF Meant
    <2> QED
      BY ONLY <2>2, <2>3, <1>0, <1>1 DEF Placed
  <1> QED
    BY <1>0, <1>1, <1>4 DEF Meant, InIPv4, InDriver

\* A step that leaves the descriptors alone.
LEMMA DescriptorsAlone ==
  ASSUME Meant, UNCHANGED <<tx_buffers, tsad, tx_current, queue>>,
         (net_pc = "s_next") = (net_pc' = "s_next")
  PROVE  Len(queue') <= Descriptors /\ \A i \in 1..Len(queue') : Placed(i)'
  <1>1. \A k : Before(k)' = Before(k)
    BY DEF Before
  <1> QED
    BY <1>1 DEF Meant, Placed

\* A handler that sends outside the points where it does harm.
LEMMA HandlerMeans ==
  ASSUME TransmitType, Meant, ~raced', net_pc' = net_pc, local' = local,
         NEW w, (HandlerSend(w, InDriver) /\ UNCHANGED tx_buf) \/ HandlerSend(w, InIPv4)
  PROVE  Meant'
  <1>1. net_pc \notin InDriver /\ (net_pc \notin InIPv4 \/ UNCHANGED tx_buf)
    BY Zenon DEF HandlerSend, InIPv4
  <1>2. Len(queue)' <= Descriptors /\ \A i \in 1..Len(queue') : Placed(i)'
    BY <1>1, HandlerPlaces
  <1> QED
    BY <1>1, <1>2 DEF Meant, InIPv4, InDriver

\* Before a race a frame was what was meant, and no step but a race can end that.
LEMMA MeantKept ==
  ASSUME TransmitType, LocalType, Meant, ~raced', [NetNext]_netvars
  PROVE  Meant'
  <1>1. CASE HandleArp
    <2>1. net_pc' = net_pc /\ local' = local
      BY <1>1 DEF HandleArp, call
    <2>2. CASE UNCHANGED transmit
      BY <2>1, <2>2, DescriptorsAlone DEF transmit, Meant
    <2>3. CASE UNCHANGED tx_buf /\ \E w : HandlerSend(w, InDriver)
      BY <2>1, <2>3, HandlerMeans
    <2> QED
      BY <1>1, <2>2, <2>3 DEF HandleArp
  <1>2. CASE HandleEcho
    <2>1. net_pc' = net_pc /\ local' = local /\ \E w : HandlerSend(w, InIPv4)
      BY <1>2 DEF HandleEcho, call
    <2> QED
      BY <2>1, HandlerMeans
  <1>3. CASE Transmit
    BY <1>3, TransmitMeans
  <1>4. CASE SendUdp
    <2>1. /\ UNCHANGED <<tx_buffers, tsad, tx_current, queue>> /\ tx_buf' = "udp"
          /\ net_pc = "user" /\ net_pc' = "s_buf" /\ local'.want.packet = "udp"
      BY <1>4 DEF SendUdp, LocalType
    <2> QED
      BY <2>1, DescriptorsAlone, Zenon DEF Meant
  <1>5. CASE SendBuf
    <2>1. /\ UNCHANGED <<tx_buffers, tsad, tx_current, queue, tx_buf>>
          /\ net_pc = "s_buf" /\ net_pc' = "s_copy" /\ local'.buf = tx_current
          /\ local'.want = local.want
      BY <1>5 DEF SendBuf, transmit, LocalType
    <2> QED
      BY <2>1, DescriptorsAlone, Zenon DEF Meant, InIPv4
  <1>6. CASE SendCopy
    BY <1>6, CopyMeans
  <1>7. CASE SendTsad \/ SendTsd
    BY <1>7, RegistersMean
  <1>8. CASE SendNext
    BY <1>8, NextMeans
  <1>9. CASE HandleUdp \/ UNCHANGED netvars
    <2>1. UNCHANGED <<tx_buffers, tsad, tx_current, queue, tx_buf, net_pc, local>>
      BY <1>9 DEF HandleUdp, netvars, transmit, call
    <2> QED
      BY <2>1, DescriptorsAlone DEF Meant
  <1>10. CASE RecvUdp \/ RecvPoll \/ RecvTimeout \/ RecvWaited \/ RecvLen
              \/ RecvCopy \/ RecvReady \/ RecvClear \/ Use
    <2>1. UNCHANGED <<tx_buffers, tsad, tx_current, queue>>
      BY <1>10 DEF RecvUdp, RecvPoll, RecvTimeout, RecvWaited, RecvLen,
                   RecvCopy, RecvReady, RecvClear, Use, transmit
    <2>2. net_pc \notin InIPv4 /\ net_pc' \notin InIPv4
      BY <1>10 DEF RecvUdp, RecvPoll, RecvTimeout, RecvWaited, RecvLen,
                   RecvCopy, RecvReady, RecvClear, Use, InIPv4, InDriver
    <2> QED
      BY <2>1, <2>2, DescriptorsAlone DEF Meant, InIPv4, InDriver
  <1> QED
    BY <1>1, <1>2, <1>3, <1>4, <1>5, <1>6, <1>7, <1>8, <1>9, <1>10 DEF NetNext, Program

\* A race is over when the card has sent everything: nothing is left to be wrong.
LEMMA RaceOver ==
  ASSUME TransmitType, raced, ~raced', [NetNext]_netvars
  PROVE  Meant'
  <1>1. Transmit \/ SendNext
    BY Zenon DEF NetNext, Program, netvars, transmit, HandleArp, HandleEcho, HandlerSend, HandleUdp, SendUdp,
           SendBuf, SendCopy, SendTsad, SendTsd, RecvUdp, RecvPoll, RecvTimeout, RecvWaited,
           RecvLen, RecvCopy, RecvReady, RecvClear, Use
  <1>2. Len(queue') = 0 /\ net_pc' \notin InIPv4
    <2>1. CASE Transmit
      <3>1. ~(Len(queue) > 1) /\ net_pc \notin InIPv4
        BY <2>1, Zenon DEF Transmit
      <3> QED
        <4>1. queue \in Seq([desc : Slots, want : Frame]) /\ queue # <<>>
          BY <2>1 DEF Transmit, TransmitType
        <4>2. Len(queue) \in Nat /\ Len(queue) # 0 /\ Len(Tail(queue)) = Len(queue) - 1
          BY <4>1, NoEntries, FirstAndRest
        <4> QED
          BY <2>1, <3>1, <4>2 DEF Transmit, call
    <2>2. CASE SendNext
      BY <2>2, Zenon DEF SendNext, InIPv4, InDriver
    <2> QED
      BY <1>1, <2>1, <2>2
  <1> QED
    BY <1>2, NetAssumption DEF Meant, InIPv4, InDriver

\* Every frame in a descriptor is still the one that was meant when the card comes to
\* send it, whatever a call and the handlers do, as long as no handler sends while a
\* call is inside the driver and the card is fewer than Descriptors frames behind
\* (rtl8139.cpp:62-80, ipv4.cpp:42-64).
THEOREM AlwaysTransmitsMeant == NetSpec => []TransmitsWhatWasMeant
  <1>1. NetInit => TransmitInv
    <2> SUFFICES ASSUME NetInit PROVE TransmitInv
      OBVIOUS
    <2>1. 1 % Descriptors \in Slots
      BY NetAssumption DEF Slots
    <2>2. Nothing \in Frame
      BY DEF Frame, Nothing
    <2>3. TransmitType
      BY <2>1, <2>2, NetAssumption DEF NetInit, TransmitType, Slots
    <2>4. Meant
      BY NetAssumption DEF NetInit, Meant, InIPv4, InDriver
    <2> QED
      BY <2>3, <2>4 DEF TransmitInv
  <1>2. TransmitInv /\ LocalType /\ [NetNext]_netvars => TransmitInv'
    BY TransmitTypes, MeantKept, RaceOver DEF TransmitInv
  <1>3. TransmitInv => TransmitsWhatWasMeant
    <2> SUFFICES ASSUME TransmitInv PROVE TransmitsWhatWasMeant
      OBVIOUS
    <2>1. DOMAIN queue = 1..Len(queue)
      BY DEF TransmitInv, TransmitType
    <2> QED
      BY <2>1 DEF TransmitInv, Meant, Placed, TransmitsWhatWasMeant
  <1> QED
    BY <1>1, <1>2, <1>3, LocalTypes, PTL DEF NetSpec

-----------------------------------------------------------------------------
(***************************************************************************)
(* The terminal.                                                           *)
(***************************************************************************)

\* The cursor is one column too far only between the increment and the return,
\* one row too far only between the feed and the scroll.
Inv ==
  /\ TypeOK
  /\ cursor_row <= ROWS
  /\ cursor_col <= COLS
  /\ cursor_col = COLS => pc \in {"wrap", "newline"}
  /\ cursor_row = ROWS => pc \in {"bottom", "scroll"}

\* The invariant of one step of the process, inside sys_write.
LEMMA ProcessInv ==
  ASSUME Inv, Process
  PROVE  Inv' /\ (stored' = stored \/ stored' = <<cursor_row, cursor_col>>)
<1> USE GridAssumption DEF Inv, TypeOK
<1>1. CASE Write
  BY <1>1 DEF Write
<1>2. CASE Store
  BY <1>2 DEF Store
<1>3. CASE Right
  BY <1>3 DEF Right
<1>4. CASE Wrap
  BY <1>4 DEF Wrap
<1>5. CASE Return
  BY <1>5 DEF Return
<1>6. CASE Feed
  BY <1>6 DEF Feed
<1>7. CASE Bottom
  BY <1>7 DEF Bottom
<1>8. CASE ScrollUp
  BY <1>8 DEF ScrollUp, Up
<1>9. CASE Back
  BY <1>9 DEF Back, Up
<1>10. CASE RowEnd
  BY <1>10 DEF RowEnd
<1>11. CASE Erase
  BY <1>11 DEF Erase
<1> QED
  BY <1>1, <1>2, <1>3, <1>4, <1>5, <1>6, <1>7, <1>8, <1>9, <1>10, <1>11
     DEF Process

\* The invariant of one keyboard interrupt, at any statement of sys_write.
LEMMA KeyboardInv ==
  ASSUME Inv, Keyboard
  PROVE  /\ Inv'
         /\ \/ stored' = stored
            \/ stored' = <<cursor_row, cursor_col>>
            \/ stored' = <<cursor_row', cursor_col'>>
<1> USE GridAssumption DEF Inv, TypeOK
<1>1. ASSUME NEW c \in Printable, KeyChar(c)
      PROVE  /\ Inv'
             /\ stored' = <<cursor_row, cursor_col>>
  BY <1>1 DEF KeyChar, NewLine
<1>2. CASE KeyNewLine
  BY <1>2 DEF KeyNewLine, NewLine
<1>3. CASE KeyBackspace
  BY <1>3 DEF KeyBackspace, Up
<1> QED
  BY <1>1, <1>2, <1>3 DEF Keyboard

\* The invariant holds of every behaviour of the terminal (terminal.cpp:22-65).
LEMMA Always == Spec => []Inv
<1>1. Init => Inv
  BY GridAssumption DEF Init, Inv, TypeOK
<1>2. Inv /\ [Next]_vars => Inv'
  <2> SUFFICES ASSUME Inv, [Next]_vars PROVE Inv'
    OBVIOUS
  <2>1. CASE UNCHANGED vars
    BY <2>1 DEF Inv, TypeOK, vars
  <2> QED
    BY <2>1, ProcessInv, KeyboardInv DEF Next
<1> QED
  BY <1>1, <1>2, PTL DEF Spec

\* Types, for every size of the grid.
THEOREM TypeCorrect == Spec => []TypeOK
<1>1. Inv => TypeOK
  BY DEF Inv
<1> QED
  BY <1>1, Always, PTL

\* The cursor is inside the grid whenever PutChar has finished, whatever keys
\* came in between.
THEOREM CursorAlwaysRecovers == Spec => []CursorRecovers
<1>1. Inv => CursorRecovers
  BY GridAssumption DEF Inv, TypeOK, CursorRecovers, Grid
<1> QED
  BY <1>1, Always, PTL

\* PutChar and Backspace write at most one row or one column too far.
THEOREM StrayAlwaysBounded == Spec => []StrayBounded
<1>1. Init => StrayBounded
  BY GridAssumption DEF Init, StrayBounded
<1>2. Inv /\ Inv' /\ StrayBounded /\ [Next]_vars => StrayBounded'
  <2> SUFFICES ASSUME Inv, Inv', StrayBounded, [Next]_vars
               PROVE  StrayBounded'
    OBVIOUS
  <2> DEFINE Near(c) == c \in (0..ROWS) \X (0..COLS)
  <2>1. Near(<<cursor_row, cursor_col>>) /\ Near(<<cursor_row', cursor_col'>>)
    BY GridAssumption DEF Inv, TypeOK
  <2>2. \/ stored' = stored
        \/ stored' = <<cursor_row, cursor_col>>
        \/ stored' = <<cursor_row', cursor_col'>>
    BY ProcessInv, KeyboardInv DEF Next, vars
  <2> QED
    BY <2>1, <2>2 DEF StrayBounded
<1> QED
  BY <1>1, <1>2, Always, PTL DEF Spec

\* Every store of PutChar and Backspace is inside the 40x23 grid, but for the echo
\* of a key that arrives while the cursor is on its way back into it.
THEOREM StoresStayInGrid == Spec => StoresInGrid
<1> DEFINE Goal == stored' # stored /\ stored' \notin Grid
                     => Keyboard /\ pc \in {"wrap", "newline", "bottom", "scroll"}
<1>1. Inv /\ Inv' /\ [Next]_vars => [Goal]_vars
  <2> SUFFICES ASSUME Inv, Inv', Next, stored' # stored, stored' \notin Grid
               PROVE  Keyboard /\ pc \in {"wrap", "newline", "bottom", "scroll"}
    OBVIOUS
  <2>1. ~Process
    <3> SUFFICES ASSUME Process PROVE FALSE
      OBVIOUS
    <3>1. pc \in {"store", "erase"}
      BY DEF Process, Write, Store, Right, Wrap, Return, Feed, Bottom,
             ScrollUp, Back, RowEnd, Erase
    <3>2. <<cursor_row, cursor_col>> \in Grid
      BY <3>1, GridAssumption DEF Inv, TypeOK, Grid
    <3> QED
      BY <3>2, ProcessInv
  <2>2. Keyboard /\ pc' = pc
    BY <2>1 DEF Next, Keyboard, KeyChar, KeyNewLine, KeyBackspace
  <2>3. pc \in {"wrap", "newline", "bottom", "scroll"}
    <3> SUFFICES ASSUME pc \notin {"wrap", "newline", "bottom", "scroll"}
                 PROVE  FALSE
      OBVIOUS
    <3>1. <<cursor_row, cursor_col>> \in Grid
      BY GridAssumption DEF Inv, TypeOK, Grid
    <3>2. <<cursor_row', cursor_col'>> \in Grid
      BY <2>2, GridAssumption DEF Inv, TypeOK, Grid
    <3> QED
      BY <2>2, <3>1, <3>2, KeyboardInv
  <2> QED
    BY <2>2, <2>3
<1> QED
  BY <1>1, Always, PTL DEF Spec, StoresInGrid

-----------------------------------------------------------------------------
(***************************************************************************)
(* The terminal inside the console.                                        *)
(***************************************************************************)

\* A key is a step of the keyboard for the terminal, or passes it by.
LEMMA PressIsKeyboard ==
  ASSUME NEW c \in Chars, Press(c)
  PROVE  Keyboard \/ UNCHANGED vars
  <1>1. CASE raw_input_mode
    BY <1>1 DEF Press
  <1>2. CASE ~raw_input_mode
    <2>1. Cooked(c)
      BY <1>2 DEF Press
    <2> QED
      BY <2>1 DEF Cooked, Keyboard
  <1> QED
    BY <1>1, <1>2

\* Terminal::OnKeyPress, sys_read and raw input: every step of the console is a
\* step of the terminal or leaves it alone.
THEOREM ConsoleImplementsTerminal == ConsoleSpec => Spec
  <1>1. ConsoleInit => Init
    BY DEF ConsoleInit
  <1>2. [ConsoleNext]_console => [Next]_vars
    <2> SUFFICES ASSUME [ConsoleNext]_console PROVE [Next]_vars
      OBVIOUS
    <2>1. ASSUME NEW c \in Chars, Press(c) PROVE [Next]_vars
      BY <2>1, PressIsKeyboard DEF Next
    <2>2. CASE Output
      BY <2>2 DEF Output, Next
    <2>3. ASSUME NEW on \in BOOLEAN, SetRawInputMode(on) PROVE UNCHANGED vars
      BY <2>3 DEF SetRawInputMode
    <2>4. CASE Begin \/ ReadWaiting \/ Fetch \/ Advance
      BY <2>4 DEF Begin, ReadWaiting, Fetch, Advance
    <2>5. CASE UNCHANGED console
      BY <2>5 DEF console
    <2> QED
      BY <2>1, <2>2, <2>3, <2>4, <2>5 DEF ConsoleNext
  <1> QED
    BY <1>1, <1>2, PTL DEF ConsoleSpec, Spec

\* In the console too the cursor is back in the grid when PutChar has finished.
THEOREM ConsoleCursorRecovers == ConsoleSpec => []CursorRecovers
  BY ConsoleImplementsTerminal, CursorAlwaysRecovers, PTL

\* In the console too only an echo in the middle of the cursor's way back is stored
\* outside the grid of PutChar.
THEOREM ConsoleStoresInGrid == ConsoleSpec => StoresInGrid
  BY ConsoleImplementsTerminal, StoresStayInGrid, PTL

-----------------------------------------------------------------------------
(***************************************************************************)
(* The ring as a queue.                                                    *)
(***************************************************************************)

Ring == [buffer : [Places -> Chars], head : Places, tail : Places]

\* Contents, of any ring.
ContentsOf(r) ==
  [i \in 1..((r.tail - r.head) % RingSize) |-> r.buffer[(r.head + i - 1) % RingSize]]

Size(r) == IF r.head <= r.tail THEN r.tail - r.head ELSE r.tail - r.head + RingSize

Longer(p, q) == Len(p) <= Len(q) /\ \A i \in 1..Len(p) : q[i] = p[i]

\* Once around the ring at most.
LEMMA Around ==
  ASSUME NEW a \in Int, -RingSize <= a, a < 2 * RingSize
  PROVE  a % RingSize = IF a < 0 THEN a + RingSize
                        ELSE IF a < RingSize THEN a ELSE a - RingSize
  BY ConsoleAssumption, Z3

\* The contents of a ring, without the remainders.
LEMMA ContentsAre ==
  ASSUME NEW r \in Ring
  PROVE  /\ Size(r) \in 0..(RingSize - 1)
         /\ \A i \in 1..Size(r) :
              /\ (r.head + i - 1) % RingSize \in Places
              /\ (r.head + i - 1) % RingSize =
                   IF r.head + i - 1 < RingSize THEN r.head + i - 1
                   ELSE r.head + i - 1 - RingSize
         /\ ContentsOf(r) = [i \in 1..Size(r) |-> r.buffer[(r.head + i - 1) % RingSize]]
         /\ ContentsOf(r) \in Seq(Chars)
         /\ Len(ContentsOf(r)) = Size(r)
         /\ (Size(r) = 0) = (r.head = r.tail)
         /\ r.head # r.tail => ContentsOf(r)[1] = r.buffer[r.head]
  <1>1. /\ RingSize \in Nat /\ RingSize > 1
        /\ r.head \in 0..(RingSize - 1) /\ r.tail \in 0..(RingSize - 1)
        /\ r.buffer \in [Places -> Chars]
    BY ConsoleAssumption DEF Ring, Places
  <1>2. Size(r) \in 0..(RingSize - 1) /\ ((Size(r) = 0) = (r.head = r.tail))
    BY <1>1 DEF Size
  <1>3. (r.tail - r.head) % RingSize = Size(r)
    BY <1>1, Around DEF Size
  <1>4. ASSUME NEW i \in 1..Size(r)
        PROVE  /\ (r.head + i - 1) % RingSize \in Places
               /\ (r.head + i - 1) % RingSize =
                    IF r.head + i - 1 < RingSize THEN r.head + i - 1
                    ELSE r.head + i - 1 - RingSize
    <2>1. r.head + i - 1 \in Int /\ 0 <= r.head + i - 1 /\ r.head + i - 1 < 2 * RingSize
          /\ -RingSize <= r.head + i - 1
      BY <1>1, <1>2
    <2>2. (r.head + i - 1) % RingSize =
                    IF r.head + i - 1 < RingSize THEN r.head + i - 1
                    ELSE r.head + i - 1 - RingSize
      BY <2>1, <1>1, Around
    <2> QED
      BY <2>1, <2>2, <1>1 DEF Places
  <1>5. ContentsOf(r) = [i \in 1..Size(r) |-> r.buffer[(r.head + i - 1) % RingSize]]
    BY <1>3 DEF ContentsOf
  <1>6. ContentsOf(r) \in [1..Size(r) -> Chars]
    BY <1>1, <1>4, <1>5
  <1>7. ContentsOf(r) \in Seq(Chars) /\ Len(ContentsOf(r)) = Size(r)
    BY <1>2, <1>6
  <1>8. ASSUME r.head # r.tail
        PROVE  ContentsOf(r)[1] = r.buffer[r.head]
    <2>1. 1 \in 1..Size(r) /\ r.head + 1 - 1 = r.head /\ r.head < RingSize
      BY <1>1, <1>2, <1>8
    <2> QED
      BY <2>1, <1>4, <1>5
  <1> QED
    BY <1>2, <1>4, <1>5, <1>7, <1>8

\* KeyboardBuffer::Enqueue adds at the end or drops, and never writes on what waits.
LEMMA EnqueueExtends ==
  ASSUME NEW r \in Ring, NEW c \in Chars
  PROVE  /\ Enqueue(r, c) \in Ring /\ Enqueue(r, c).head = r.head
         /\ Longer(ContentsOf(r), ContentsOf(Enqueue(r, c)))
  <1> DEFINE q == Enqueue(r, c)
             next == IF r.tail = RingSize - 1 THEN 0 ELSE r.tail + 1
  <1>1. /\ RingSize \in Nat /\ RingSize > 1
        /\ r.head \in 0..(RingSize - 1) /\ r.tail \in 0..(RingSize - 1)
        /\ r.buffer \in [Places -> Chars] /\ r.tail \in Places
    BY ConsoleAssumption DEF Ring, Places
  <1>2. Following(r.tail) = next /\ next \in Places
    <2>1. r.tail + 1 \in Int /\ -RingSize <= r.tail + 1 /\ r.tail + 1 < 2 * RingSize
      BY <1>1
    <2>2. Following(r.tail) = IF r.tail + 1 < RingSize THEN r.tail + 1 ELSE r.tail + 1 - RingSize
      BY <1>1, <2>1, Around DEF Following
    <2> QED
      BY <1>1, <2>2 DEF Places
  <1>3. CASE next = r.head
    <2>1. q = r
      BY <1>2, <1>3 DEF Enqueue
    <2>2. Len(ContentsOf(r)) <= Len(ContentsOf(r))
      BY ContentsAre
    <2> QED
      BY <2>1, <2>2 DEF Longer
  <1>4. CASE next # r.head
    <2>1. q = [r EXCEPT !.buffer[r.tail] = c, !.tail = next]
      BY <1>2, <1>4 DEF Enqueue
    <2>2. /\ q.head = r.head /\ q.tail = next
          /\ q.buffer = [r.buffer EXCEPT ![r.tail] = c]
      BY <2>1 DEF Ring
    <2>3. q \in Ring
      <3>1. [r.buffer EXCEPT ![r.tail] = c] \in [Places -> Chars]
        BY <1>1
      <3>2. q = [buffer |-> [r.buffer EXCEPT ![r.tail] = c], head |-> r.head, tail |-> next]
        BY <2>1, Zenon DEF Ring
      <3>3. r.head \in Places
        BY DEF Ring
      <3> HIDE DEF q, next
      <3> QED
        BY <1>2, <3>1, <3>2, <3>3 DEF Ring
    <2>4. \A p \in Places : p # r.tail => q.buffer[p] = r.buffer[p]
      BY <1>1, <2>2
    <2> HIDE DEF q
    <2>5. Size(q) = Size(r) + 1
      BY <1>1, <2>2, <1>4 DEF Size
    <2>6. ASSUME NEW i \in 1..Size(r)
          PROVE  ContentsOf(q)[i] = ContentsOf(r)[i]
      <3>1. i \in 1..Size(q)
        BY <2>5, ContentsAre
      <3>2. (r.head + i - 1) % RingSize # r.tail
        <4>1. (r.head + i - 1) % RingSize =
                   IF r.head + i - 1 < RingSize THEN r.head + i - 1
                   ELSE r.head + i - 1 - RingSize
          BY ContentsAre
        <4>2. i \in Nat /\ 1 <= i /\ i <= Size(r)
          BY ContentsAre
        <4>3. (IF r.head + i - 1 < RingSize THEN r.head + i - 1
                   ELSE r.head + i - 1 - RingSize) # r.tail
          BY ONLY <4>2, <1>1 DEF Size
        <4> QED
          BY ONLY <4>1, <4>3, Zenon
      <3>3. ContentsOf(r)[i] = r.buffer[(r.head + i - 1) % RingSize]
            /\ (r.head + i - 1) % RingSize \in Places
        BY ContentsAre
      <3>4. ContentsOf(q)[i] = q.buffer[(q.head + i - 1) % RingSize]
        BY ContentsAre, <2>3, <3>1, Zenon
      <3> QED
        BY <3>2, <3>3, <3>4, <2>2, <2>4
    <2>7. Len(ContentsOf(r)) = Size(r) /\ Len(ContentsOf(q)) = Size(r) + 1 /\ Size(r) \in Nat
      BY ContentsAre, <2>3, <2>5
    <2> QED
      BY <2>2, <2>3, <2>6, <2>7 DEF Longer, q
  <1> QED
    BY <1>3, <1>4

\* A set of naturals has a least element.
LEMMA Least ==
  ASSUME NEW T \in SUBSET Nat, T # {}
  PROVE  \E x \in T : \A y \in T : x <= y
  <1> DEFINE R == OpToRel(<, Nat)
  <1>1. IsWellFoundedOn(R, Nat)
    BY NatLessThanWellFounded, Zenon
  <1>2. \A x \in Nat, y \in Nat : y < x => <<y, x>> \in R
    BY DEF OpToRel
  <1> HIDE DEF R
  <1>3. PICK x \in T : \A y \in T : ~ (<<y, x>> \in R)
    BY <1>1, WFMin, Zenon
  <1>4. ASSUME NEW y \in T PROVE x <= y
    <2>1. x \in Nat /\ y \in Nat
      OBVIOUS
    <2>2. ~ (y < x)
      BY <1>2, <1>3, <2>1, Zenon
    <2> QED
      BY ONLY <2>1, <2>2
  <1> QED
    BY <1>4

\* The loop over the line has a result: one ring after each character.
LEMMA LoopRuns ==
  ASSUME NEW r \in Ring, NEW s \in Seq(Chars)
  PROVE  \E f : /\ f = [n \in 0..Len(s) |-> IF n = 0 THEN r ELSE Enqueue(f[n - 1], s[n])]
                /\ EnqueueAll(r, s) = f[Len(s)]
  <1> DEFINE Runs(f, m) == f = [n \in 0..m |-> IF n = 0 THEN r ELSE Enqueue(f[n - 1], s[n])]
             Stuck == {m \in Nat : ~ \E f : Runs(f, m)}
  <1>1. Len(s) \in Nat
    OBVIOUS
  <1>2. Stuck = {}
    <2> SUFFICES ASSUME Stuck # {} PROVE FALSE
      OBVIOUS
    <2>1. PICK m \in Stuck : \A k \in Stuck : m <= k
      BY Least, Zenon
    <2>2. m \in Nat /\ ~ \E f : Runs(f, m)
      OBVIOUS
    <2>3. m # 0
      <3> SUFFICES ASSUME m = 0 PROVE FALSE
        OBVIOUS
      <3> DEFINE g == [n \in 0..0 |-> r]
      <3>1. Runs(g, 0)
        OBVIOUS
      <3> QED
        BY <2>2, <3>1, Zenon
    <2>4. m - 1 \in Nat /\ ~ (m <= m - 1)
      BY <2>2, <2>3
    <2>5. PICK g : Runs(g, m - 1)
      BY <2>1, <2>4, Zenon
    <2> DEFINE h == [n \in 0..m |-> IF n = m THEN Enqueue(g[m - 1], s[m]) ELSE g[n]]
    <2>6. Runs(h, m)
      <3>1. \A n \in 0..m : n # m => h[n] = g[n] /\ n \in 0..(m - 1)
        BY <2>4
      <3>2. h[m] = Enqueue(g[m - 1], s[m]) /\ h[m - 1] = g[m - 1]
        BY <2>2, <2>4
      <3>3. ASSUME NEW n \in 0..m
            PROVE  h[n] = IF n = 0 THEN r ELSE Enqueue(h[n - 1], s[n])
        <4>1. CASE n = m
          BY <4>1, <3>2, <2>3, Zenon
        <4>2. CASE n # m
          <5>1. h[n] = g[n] /\ n \in 0..(m - 1)
            BY <4>2, <3>1
          <5>2. g[n] = IF n = 0 THEN r ELSE Enqueue(g[n - 1], s[n])
            BY <2>5, <5>1, Zenon
          <5>3. n # 0 => n - 1 \in 0..m /\ n - 1 # m
            BY <2>2, <5>1
          <5>4. n # 0 => h[n - 1] = g[n - 1]
            BY <3>1, <5>3
          <5> QED
            BY ONLY <5>1, <5>2, <5>4, Zenon
        <4> QED
          BY <4>1, <4>2, Zenon
      <3>4. h = [n \in 0..m |-> h[n]]
        OBVIOUS
      <3> HIDE DEF h
      <3> QED
        BY <3>3, <3>4, Zenon
    <2> QED
      BY <2>2, <2>6, Zenon
  <1>3. \E f : Runs(f, Len(s))
    BY <1>1, <1>2
  <1> DEFINE a == CHOOSE f : Runs(f, Len(s))
  <1>4. Runs(a, Len(s))
    BY <1>3
  <1>5. EnqueueAll(r, s) = a[Len(s)]
    BY DEF EnqueueAll
  <1> HIDE DEF a
  <1> QED
    BY <1>4, <1>5, Zenon

\* A longer queue of a longer one is longer.
LEMMA LongerStill ==
  ASSUME NEW p \in Seq(Chars), NEW q \in Seq(Chars), NEW t \in Seq(Chars),
         Longer(p, q), Longer(q, t)
  PROVE  Longer(p, t)
  BY DEF Longer

\* Every character of the line is added at the end or dropped (terminal.cpp:143-145).
LEMMA EnqueueAllExtends ==
  ASSUME NEW r \in Ring, NEW s \in Seq(Chars)
  PROVE  /\ EnqueueAll(r, s) \in Ring /\ EnqueueAll(r, s).head = r.head
         /\ Longer(ContentsOf(r), ContentsOf(EnqueueAll(r, s)))
  <1>1. PICK f : /\ f = [n \in 0..Len(s) |-> IF n = 0 THEN r ELSE Enqueue(f[n - 1], s[n])]
                 /\ EnqueueAll(r, s) = f[Len(s)]
    BY LoopRuns
  <1> DEFINE Good(n) == f[n] \in Ring /\ f[n].head = r.head
                          /\ Longer(ContentsOf(r), ContentsOf(f[n]))
             Bad == {n \in 0..Len(s) : ~Good(n)}
  <1>2. Len(s) \in Nat
    OBVIOUS
  <1>3. Bad = {}
    <2> SUFFICES ASSUME Bad # {} PROVE FALSE
      OBVIOUS
    <2>1. Bad \in SUBSET Nat
      BY <1>2
    <2>2. PICK n \in Bad : \A k \in Bad : n <= k
      BY <2>1, Least, Zenon
    <2>3. n \in 0..Len(s) /\ ~Good(n)
      OBVIOUS
    <2>4. f[0] = r
      BY <1>1, <1>2
    <2>5. n # 0
      <3>1. Len(ContentsOf(r)) <= Len(ContentsOf(r))
        BY ContentsAre
      <3>2. Good(0)
        BY <2>4, <3>1 DEF Longer
      <3> QED
        BY <2>3, <3>2, Zenon
    <2>6. n - 1 \in 0..Len(s) /\ ~ (n <= n - 1) /\ n \in 1..Len(s)
      BY <2>3, <2>5
    <2>7. Good(n - 1)
      BY <2>2, <2>6
    <2>8. f[n] = Enqueue(f[n - 1], s[n]) /\ s[n] \in Chars
      BY <1>1, <2>3, <2>5, <2>6, EntryOf
    <2> DEFINE p == f[n - 1]
               q == f[n]
    <2>9. p \in Ring /\ p.head = r.head /\ Longer(ContentsOf(r), ContentsOf(p))
      BY <2>7
    <2>10. q = Enqueue(p, s[n])
      BY <2>8
    <2> HIDE DEF p, q
    <2>11. q \in Ring /\ q.head = p.head /\ Longer(ContentsOf(p), ContentsOf(q))
      BY <2>8, <2>9, <2>10, EnqueueExtends, Zenon
    <2>12. ContentsOf(r) \in Seq(Chars) /\ ContentsOf(p) \in Seq(Chars) /\ ContentsOf(q) \in Seq(Chars)
      BY <2>9, <2>11, ContentsAre, Zenon
    <2>13. Longer(ContentsOf(r), ContentsOf(q))
      BY <2>9, <2>11, <2>12, LongerStill
    <2> QED
      BY <2>3, <2>9, <2>11, <2>13 DEF q
  <1>4. Len(s) \in 0..Len(s)
    BY <1>2
  <1>5. Good(Len(s))
    BY <1>3, <1>4
  <1> QED
    BY <1>1, <1>5

\* The reader: what it has fetched is still at the head of the ring, and as long as it
\* goes on there is room left and no newline among what it has stored.
ReadInv ==
  /\ ring \in Ring /\ fetched \in Chars /\ dst \in Seq(Chars)
  /\ reading = "wait" => dst = <<>>
  /\ reading \in {"fetch", "advance"} =>
       Len(dst) < Count /\ \A i \in 1..Len(dst) : dst[i] # NL
  /\ reading = "advance" => ~IsEmpty /\ fetched = ring.buffer[ring.head]
  /\ ReadOneLine

\* A key adds to the ring or leaves it alone.
LEMMA PressExtends ==
  ASSUME Inv, ring \in Ring, NEW c \in Chars, Press(c)
  PROVE  /\ ring' \in Ring /\ ring'.head = ring.head
         /\ Longer(ContentsOf(ring), ContentsOf(ring'))
  <1>1. Len(ContentsOf(ring)) <= Len(ContentsOf(ring))
    BY ContentsAre
  <1>2. CASE ring' = ring
    BY <1>1, <1>2 DEF Longer
  <1>3. CASE ring' = Enqueue(ring, c)
    BY <1>3, EnqueueExtends
  <1>4. CASE ring' = EnqueueAll(ring, Append(line, NL))
    <2>1. line \in Seq(Chars) /\ NL \in Chars
      BY DEF Inv, TypeOK, Chars
    <2>2. Append(line, NL) \in Seq(Chars)
      BY <2>1
    <2> QED
      BY <1>4, <2>2, EnqueueAllExtends, Zenon
  <1> QED
    BY <1>2, <1>3, <1>4, Zenon DEF Press, Cooked

\* What has become longer by keys is a Put of the queue.
LEMMA LongerIsPut ==
  ASSUME NEW p \in Seq(Chars), NEW q \in Seq(Chars), Longer(p, q), Len(q) <= RingSize - 1
  PROVE  \E n \in 0..(RingSize - 1) :
           /\ Len(p) + n <= RingSize - 1
           /\ \E s \in [1..n -> Chars] : q = p \o s
  <1> DEFINE n == Len(q) - Len(p)
             s == [i \in 1..n |-> q[Len(p) + i]]
  <1>1. /\ Len(p) \in Nat /\ Len(q) \in Nat /\ n \in 0..(RingSize - 1)
        /\ Len(p) + n = Len(q)
    BY ConsoleAssumption DEF Longer
  <1>2. s \in [1..n -> Chars] /\ s \in Seq(Chars) /\ Len(s) = n
    <2>1. \A i \in 1..n : Len(p) + i \in 1..Len(q)
      BY <1>1
    <2>2. \A i \in 1..n : q[Len(p) + i] \in Chars
      BY <2>1, EntryOf
    <2>3. s \in [1..n -> Chars]
      BY <2>2
    <2> HIDE DEF s, n
    <2> QED
      BY <2>3, <1>1
  <1>3. q = p \o s
    <2>1. /\ p \o s \in Seq(Chars) /\ Len(p \o s) = Len(q)
          /\ \A i \in 1..Len(p) : (p \o s)[i] = p[i]
          /\ \A i \in (Len(p) + 1)..Len(q) : (p \o s)[i] = s[i - Len(p)]
      <3> HIDE DEF s, n
      <3>1. Len(p \o s) = Len(p) + Len(s) /\ p \o s \in Seq(Chars)
        BY <1>2, TwoJoined, Zenon
      <3>2. \A i \in 1..(Len(p) + Len(s)) : (p \o s)[i] = IF i <= Len(p) THEN p[i] ELSE s[i - Len(p)]
        BY <1>2, TwoJoined
      <3> QED
        BY <1>1, <1>2, <3>1, <3>2
    <2>2. ASSUME NEW i \in 1..Len(q)
          PROVE  (p \o s)[i] = q[i]
      <3>1. CASE i <= Len(p)
        <4>1. i \in 1..Len(p)
          BY <3>1, <1>1
        <4> QED
          BY <4>1, <2>1 DEF Longer
      <3>2. CASE ~(i <= Len(p))
        <4>1. i \in (Len(p) + 1)..Len(q) /\ i - Len(p) \in 1..n /\ Len(p) + (i - Len(p)) = i
          BY <3>2, <1>1
        <4>2. s[i - Len(p)] = q[Len(p) + (i - Len(p))]
          BY <4>1
        <4> HIDE DEF s
        <4> QED
          BY <4>1, <4>2, <2>1
      <3> QED
        BY <3>1, <3>2, Zenon
    <2> HIDE DEF s, n
    <2> QED
      BY <2>1, <2>2, SameEntries, Zenon
  <1> HIDE DEF s, n
  <1>4. Len(p) + n <= RingSize - 1
    BY <1>1
  <1> QED
    BY <1>1, <1>2, <1>3, <1>4, Zenon

\* Moving the head on takes from the front.
LEMMA HeadMoves ==
  ASSUME NEW r \in Ring, NEW n \in 0..Size(r), NEW q, q = [r EXCEPT !.head = (r.head + n) % RingSize]
  PROVE  q \in Ring /\ ContentsOf(q) = SubSeq(ContentsOf(r), n + 1, Len(ContentsOf(r)))
  <1> DEFINE h == IF r.head + n < RingSize THEN r.head + n ELSE r.head + n - RingSize
             m == Size(r)
  <1>1. /\ RingSize \in Nat /\ RingSize > 1
        /\ r.head \in 0..(RingSize - 1) /\ r.tail \in 0..(RingSize - 1)
        /\ m \in 0..(RingSize - 1) /\ n \in Nat /\ n <= m
    BY ConsoleAssumption, ContentsAre DEF Ring, Places
  <1>2. (r.head + n) % RingSize = h /\ h \in 0..(RingSize - 1)
    <2> HIDE DEF m
    <2>1. r.head + n \in Int /\ -RingSize <= r.head + n /\ r.head + n < 2 * RingSize /\ 0 <= r.head + n
      BY <1>1
    <2> QED
      BY <1>1, <2>1, Around
  <1>3. q = [buffer |-> r.buffer, head |-> h, tail |-> r.tail]
    BY <1>2 DEF Ring
  <1>4. q \in Ring
    <2> HIDE DEF h
    <2> QED
      BY <1>2, <1>3 DEF Ring, Places
  <1>5. q.head = h /\ q.tail = r.tail /\ q.buffer = r.buffer
    BY <1>3
  <1>6. Size(q) = m - n
    <2>1. m = IF r.head <= r.tail THEN r.tail - r.head ELSE r.tail - r.head + RingSize
      BY DEF Size
    <2>2. Size(q) = IF h <= r.tail THEN r.tail - h ELSE r.tail - h + RingSize
      BY <1>5 DEF Size
    <2> HIDE DEF m
    <2> QED
      BY ONLY <1>1, <2>1, <2>2
  <1>7. ASSUME NEW i \in 1..(m - n)
        PROVE  ContentsOf(q)[i] = ContentsOf(r)[n + i]
    <2>1. i \in 1..Size(q) /\ n + i \in 1..Size(r)
      BY <1>1, <1>6
    <2>2. ContentsOf(q)[i] = q.buffer[(q.head + i - 1) % RingSize]
      BY <1>4, <2>1, ContentsAre, Zenon
    <2>3. ContentsOf(r)[n + i] = r.buffer[(r.head + (n + i) - 1) % RingSize]
      BY <2>1, ContentsAre
    <2>4. (q.head + i - 1) % RingSize =
            IF q.head + i - 1 < RingSize THEN q.head + i - 1 ELSE q.head + i - 1 - RingSize
      BY <1>4, <2>1, ContentsAre, Zenon
    <2>5. (r.head + (n + i) - 1) % RingSize =
            IF r.head + (n + i) - 1 < RingSize THEN r.head + (n + i) - 1
            ELSE r.head + (n + i) - 1 - RingSize
      BY <2>1, ContentsAre
    <2>6. (q.head + i - 1) % RingSize = (r.head + (n + i) - 1) % RingSize
      <3> HIDE DEF m
      <3>1. i \in Nat /\ 1 <= i /\ i <= m - n /\ q.head = h
        BY <1>1, <1>5
      <3>2. (IF q.head + i - 1 < RingSize THEN q.head + i - 1 ELSE q.head + i - 1 - RingSize)
            = (IF r.head + (n + i) - 1 < RingSize THEN r.head + (n + i) - 1
               ELSE r.head + (n + i) - 1 - RingSize)
        BY ONLY <3>1, <1>1
      <3> QED
        BY ONLY <2>4, <2>5, <3>2
    <2> QED
      BY <2>2, <2>3, <2>6, <1>5
  <1>8. /\ ContentsOf(q) \in Seq(Chars) /\ Len(ContentsOf(q)) = m - n
        /\ ContentsOf(r) \in Seq(Chars) /\ Len(ContentsOf(r)) = m
    BY <1>4, <1>6, ContentsAre
  <1> HIDE DEF m, h
  <1> DEFINE t == SubSeq(ContentsOf(r), n + 1, m)
  <1>9. t \in Seq(Chars) /\ Len(t) = m - n /\ \A i \in 1..(m - n) : t[i] = ContentsOf(r)[n + i]
    <2> DEFINE p == ContentsOf(r)
    <2>1. p \in Seq(Chars) /\ Len(p) = m
      BY <1>8
    <2> HIDE DEF p
    <2>2. \A i \in (n + 1)..m : p[i] \in Chars
      BY <1>1, <2>1, EntryOf
    <2>3. n + 1 \in Int /\ m \in Int
      BY <1>1
    <2>4. /\ SubSeq(p, n + 1, m) \in Seq(Chars)
          /\ Len(SubSeq(p, n + 1, m)) = IF n + 1 <= m THEN m - (n + 1) + 1 ELSE 0
          /\ \A i \in 1..(m - (n + 1) + 1) : SubSeq(p, n + 1, m)[i] = p[(n + 1) + i - 1]
      BY ONLY <2>2, <2>3, PartOf
    <2>5. /\ (IF n + 1 <= m THEN m - (n + 1) + 1 ELSE 0) = m - n /\ m - (n + 1) + 1 = m - n
          /\ \A i \in 1..(m - n) : (n + 1) + i - 1 = n + i
      BY <1>1
    <2>6. \A i \in 1..(m - n) : SubSeq(p, n + 1, m)[i] = p[n + i]
      BY ONLY <2>4, <2>5
    <2>7. Len(SubSeq(p, n + 1, m)) = m - n
      BY ONLY <2>4, <2>5
    <2> QED
      BY <2>4, <2>6, <2>7 DEF p
  <1> HIDE DEF t
  <1>10. ContentsOf(q) = t
    BY <1>7, <1>8, <1>9, SameEntries, Zenon
  <1> QED
    BY <1>4, <1>8, <1>10, Zenon DEF t

\* A key, at any point of a read.
LEMMA PressReads ==
  ASSUME Inv, ReadInv, NEW c \in Chars, Press(c)
  PROVE  ReadInv' /\ Queue!Put
  <1>1. UNCHANGED <<reading, fetched, dst>>
    BY Zenon DEF Press, reader
  <1>2. /\ ring \in Ring /\ ring' \in Ring /\ ring'.head = ring.head
        /\ Longer(ContentsOf(ring), ContentsOf(ring'))
    BY PressExtends, Zenon DEF ReadInv
  <1> DEFINE p == ContentsOf(ring)
             q == ContentsOf(ring')
  <1>3. /\ p \in Seq(Chars) /\ q \in Seq(Chars) /\ Len(q) <= RingSize - 1
        /\ Len(p) \in Nat /\ Len(q) \in Nat
        /\ (Len(p) = 0) = (ring.head = ring.tail) /\ (Len(q) = 0) = (ring'.head = ring'.tail)
        /\ ring.head # ring.tail => p[1] = ring.buffer[ring.head]
        /\ ring'.head # ring'.tail => q[1] = ring'.buffer[ring'.head]
    BY <1>2, ContentsAre
  <1> HIDE DEF p, q
  <1>4. Len(p) <= Len(q) /\ \A i \in 1..Len(p) : q[i] = p[i]
    BY <1>2 DEF Longer, p, q
  <1>5. ASSUME ring.head # ring.tail
        PROVE  ring'.head # ring'.tail /\ ring'.buffer[ring'.head] = ring.buffer[ring.head]
    <2>1. Len(p) # 0 /\ Len(q) # 0 /\ 1 \in 1..Len(p)
      BY <1>3, <1>4, <1>5
    <2> QED
      BY <1>3, <1>4, <1>5, <2>1
  <1>6. ReadInv'
    BY <1>1, <1>2, <1>5, Zenon DEF ReadInv, IsEmpty, ReadOneLine
  <1>7. Contents = p /\ Contents' = q
    BY DEF Contents, ContentsOf, p, q
  <1>8. \E n \in 0..(RingSize - 1) :
           /\ Len(p) + n <= RingSize - 1
           /\ \E s \in [1..n -> Chars] : q = p \o s
    BY <1>2, <1>3, LongerIsPut, Zenon DEF p, q
  <1> QED
    BY <1>1, <1>6, <1>7, <1>8 DEF Queue!Put

\* sys_read that had to wait, as a whole.
LEMMA WaitingReads ==
  ASSUME ReadInv, ReadWaiting
  PROVE  ReadInv' /\ Queue!Take
  <1> DEFINE p == ContentsOf(ring)
  <1>1. Contents = p
    BY DEF Contents, ContentsOf
  <1>2. PICK n \in 1..Len(p) :
          /\ Stops(p, n) /\ dst' = SubSeq(p, 1, n)
          /\ ring' = [ring EXCEPT !.head = (ring.head + n) % RingSize]
    BY <1>1, Zenon DEF ReadWaiting
  <1>3. ring \in Ring /\ p \in Seq(Chars) /\ Len(p) = Size(ring) /\ Len(p) \in Nat
    BY ContentsAre DEF ReadInv
  <1>4. n \in 0..Size(ring)
    BY <1>3
  <1>5. ring' \in Ring /\ ContentsOf(ring') = SubSeq(p, n + 1, Len(p))
    BY <1>2, <1>3, <1>4, HeadMoves, Zenon
  <1>6. Contents' = ContentsOf(ring')
    BY DEF Contents, ContentsOf
  <1> HIDE DEF p
  <1>7. reading = "wait" /\ reading' = "out" /\ fetched' = fetched /\ dst = <<>>
    BY DEF ReadWaiting, ReadInv
  <1>8. dst' \in Seq(Chars) /\ Len(dst') = n /\ \A i \in 1..n : dst'[i] = p[i]
    BY <1>2, <1>3
  <1>9. ReadOneLine'
    <2>1. n <= Count /\ \A i \in 1..(n - 1) : p[i] # NL
      BY <1>2 DEF Stops
    <2>2. \A i \in 1..(n - 1) : i \in 1..n
      BY <1>3
    <2> QED
      BY <1>8, <2>1, <2>2 DEF ReadOneLine
  <1>10. ReadInv'
    BY <1>5, <1>7, <1>8, <1>9, Zenon DEF ReadInv
  <1>11. <<>> \o SubSeq(p, 1, n) = SubSeq(p, 1, n)
    BY <1>2, <1>8, JoinedToNone
  <1>12. Queue!Take
    <2>1. n \in 0..Len(p)
      BY <1>3, <1>4
    <2> QED
      BY <2>1, <1>1, <1>2, <1>5, <1>6, <1>7, <1>11, Zenon DEF Queue!Take
  <1> QED
    BY <1>10, <1>12

\* The loop of sys_read with interrupts on: it stores the character that is at the
\* head of the ring, though keys may have come since it was fetched.
LEMMA AdvanceReads ==
  ASSUME ReadInv, Advance
  PROVE  ReadInv' /\ Queue!Take
  <1> DEFINE p == ContentsOf(ring)
  <1>1. /\ ring \in Ring /\ p \in Seq(Chars) /\ Len(p) = Size(ring) /\ Len(p) \in Nat /\ Len(p) # 0
        /\ p[1] = fetched /\ fetched \in Chars
    BY ContentsAre DEF ReadInv, Advance, IsEmpty
  <1>2. 1 \in 0..Size(ring)
    BY <1>1
  <1>3. ring' \in Ring /\ ContentsOf(ring') = SubSeq(p, 1 + 1, Len(p))
    <2>1. ring' = [ring EXCEPT !.head = (ring.head + 1) % RingSize]
      BY Zenon DEF Advance, Following
    <2> QED
      BY <1>1, <1>2, <2>1, HeadMoves, Zenon
  <1>4. Contents = p /\ Contents' = ContentsOf(ring')
    BY DEF Contents, ContentsOf
  <1> HIDE DEF p
  <1>5. /\ dst \in Seq(Chars) /\ Len(dst) \in Nat /\ Len(dst) < Count /\ Count \in Nat
        /\ \A i \in 1..Len(dst) : dst[i] # NL
    BY ConsoleAssumption DEF ReadInv, Advance
  <1>6. /\ dst' = Append(dst, fetched) /\ dst' \in Seq(Chars) /\ Len(dst') = Len(dst) + 1
        /\ \A i \in 1..Len(dst) : dst'[i] = dst[i]
        /\ dst'[Len(dst) + 1] = fetched
    BY <1>1, <1>5 DEF Advance
  <1>7. /\ reading' \in {"out", "fetch"} /\ fetched' \in Chars
        /\ reading' = "fetch" => fetched # NL /\ Len(dst') # Count
    BY DEF Advance, Chars
  <1>8. ReadOneLine'
    <2>1. (Len(dst) + 1) - 1 = Len(dst) /\ Len(dst) + 1 <= Count
      BY <1>5
    <2> QED
      BY <1>5, <1>6, <2>1 DEF ReadOneLine
  <1>9. reading' = "fetch" => Len(dst') < Count /\ \A i \in 1..Len(dst') : dst'[i] # NL
    <2>1. \A i \in 1..(Len(dst) + 1) : i \in 1..Len(dst) \/ i = Len(dst) + 1
      BY <1>5
    <2>2. Len(dst) + 1 # Count => Len(dst) + 1 < Count
      BY <1>5
    <2> QED
      BY <1>5, <1>6, <1>7, <2>1, <2>2
  <1>10. ReadInv'
    BY <1>3, <1>6, <1>7, <1>8, <1>9 DEF ReadInv
  <1>11. dst \o SubSeq(p, 1, 1) = Append(dst, fetched)
    <2>1. SubSeq(p, 1, 1) = <<p[1]>>
      <3> DEFINE u == SubSeq(p, 1, 1)
                 v == <<p[1]>>
      <3>1. \A i \in 1..1 : p[i] \in Chars
        BY <1>1
      <3>2. u \in Seq(Chars) /\ Len(u) = 1 /\ u[1] = p[1]
        BY <3>1, PartOf
      <3>3. v \in Seq(Chars) /\ Len(v) = 1 /\ v[1] = p[1]
        BY <3>1
      <3> HIDE DEF u, v
      <3>4. u = v
        BY <3>2, <3>3, SameEntries
      <3> QED
        BY <3>4 DEF u, v
    <2>2. dst \o <<fetched>> = Append(dst, fetched)
      BY <1>1, <1>5, OneMoreJoined
    <2> QED
      BY <1>1, <2>1, <2>2
  <1>12. Queue!Take
    <2>1. 1 \in 0..Len(p)
      BY <1>1
    <2> QED
      BY <2>1, <1>3, <1>4, <1>6, <1>11 DEF Queue!Take
  <1> QED
    BY <1>10, <1>12

\* Every step of the console, for the reader and for the queue.
LEMMA ReadStep ==
  ASSUME Inv, ReadInv, [ConsoleNext]_console
  PROVE  ReadInv' /\ [Queue!Next]_<<Contents, dst>>
  <1>1. ASSUME NEW c \in Chars, Press(c) PROVE ReadInv' /\ [Queue!Next]_<<Contents, dst>>
    BY <1>1, PressReads, Zenon DEF Queue!Next
  <1>2. CASE Output \/ (\E on \in BOOLEAN : SetRawInputMode(on)) \/ UNCHANGED console
    <2>1. UNCHANGED <<ring, reading, fetched, dst>>
      BY <1>2 DEF Output, SetRawInputMode, console, reader
    <2> QED
      BY <2>1 DEF ReadInv, ReadOneLine, IsEmpty, Contents
  <1>3. CASE Begin
    <2>1. ring' = ring /\ fetched' = fetched /\ dst' = <<>> /\ reading' \in {"wait", "fetch"}
      BY <1>3 DEF Begin
    <2>2. Contents' = Contents
      BY <2>1 DEF Contents
    <2>3. ReadInv'
      BY <2>1, ConsoleAssumption DEF ReadInv, ReadOneLine
    <2> QED
      BY <2>1, <2>2, <2>3 DEF Queue!Next, Queue!Restart
  <1>4. CASE ReadWaiting
    BY <1>4, WaitingReads, Zenon DEF Queue!Next
  <1>5. CASE Fetch
    <2>1. ring' = ring /\ dst' = dst /\ reading = "fetch"
      BY <1>5 DEF Fetch
    <2>2. \/ reading' = "out" /\ fetched' = fetched
          \/ reading' = "advance" /\ ~IsEmpty /\ fetched' = ring.buffer[ring.head]
      BY <1>5 DEF Fetch
    <2>3. fetched' \in Chars
      BY <2>2 DEF ReadInv, Ring
    <2> QED
      BY <2>1, <2>2, <2>3 DEF ReadInv, ReadOneLine, IsEmpty, Contents
  <1>6. CASE Advance
    BY <1>6, AdvanceReads DEF Queue!Next
  <1> QED
    BY <1>1, <1>2, <1>3, <1>4, <1>5, <1>6 DEF ConsoleNext

\* The console starts with an empty ring.
LEMMA ReadStart == ConsoleInit => ReadInv /\ Queue!Init
  <1> SUFFICES ASSUME ConsoleInit PROVE ReadInv /\ Queue!Init
    OBVIOUS
  <1>1. ring \in Ring /\ ring.head = ring.tail
    BY ConsoleAssumption DEF ConsoleInit, Ring, Places, Chars
  <1>2. dst = <<>> /\ reading = "out" /\ fetched \in Chars
    BY DEF ConsoleInit, Chars
  <1>3. ReadInv
    BY <1>1, <1>2, ConsoleAssumption DEF ReadInv, ReadOneLine
  <1>4. ContentsOf(ring) \in Seq(Chars) /\ Len(ContentsOf(ring)) = 0
    BY <1>1, ContentsAre
  <1>5. Contents = <<>>
    BY <1>4, NoEntries, Zenon DEF Contents, ContentsOf
  <1> QED
    BY <1>2, <1>3, <1>5 DEF Queue!Init

\* The invariants of the terminal and of the reader, in the console.
LEMMA AlwaysRead == ConsoleSpec => [](Inv /\ ReadInv)
  <1>1. ConsoleSpec => []Inv
    BY ConsoleImplementsTerminal, Always, PTL
  <1> QED
    BY <1>1, ReadStart, ReadStep, PTL DEF ConsoleSpec

\* sys_read returns at most one line and at most what was asked for, whatever keys
\* come while it reads (syscall.cpp:143-148).
THEOREM AlwaysOneLine == ConsoleSpec => []ReadOneLine
  <1>1. ReadInv => ReadOneLine
    BY DEF ReadInv
  <1> QED
    BY <1>1, AlwaysRead, PTL

\* The ring of KeyboardBuffer, filled by the interrupt between any two statements of
\* the read, implements a first-in first-out queue: no character is read twice, lost
\* once it is in, or overtaken (keyboard_buffer.cpp:14-26, syscall.cpp:141-148).
THEOREM RingImplementsFifo == ConsoleSpec => RingIsFifo
  BY AlwaysRead, ReadStart, ReadStep, PTL DEF ConsoleSpec, RingIsFifo, Queue!Spec
=============================================================================
