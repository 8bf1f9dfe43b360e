------------------------------ MODULE TcpProofs ------------------------------
(***************************************************************************)
(* The TCP socket, for every number of calls, bytes, segments in flight    *)
(* and faults of the network: it acknowledges only what was sent, connects *)
(* only with a server that answers, and passes bytes on in order, both     *)
(* ways, whatever the interrupt does to the call's segments.               *)
(***************************************************************************)
EXTENDS Tcp, TLAPS

-----------------------------------------------------------------------------
(***************************************************************************)
(* Sequences, as the kernel's lists and strings are modelled.              *)
(***************************************************************************)

\* The number after a number.
LEMMA NextNumber ==
  ASSUME NEW l \in Nat
  PROVE  l + 1 \in Nat /\ 0 < l + 1
  OBVIOUS

\* An entry of a sequence.
LEMMA EntryOf ==
  ASSUME NEW S, NEW s \in Seq(S), NEW i \in 1..Len(s)
  PROVE  s[i] \in S
  OBVIOUS

\* The empty sequence, and the others.
LEMMA NoEntries ==
  ASSUME NEW S
  PROVE  /\ <<>> \in Seq(S) /\ Len(<<>>) = 0
         /\ \A s \in Seq(S) : s # <<>> => Len(s) \in Nat \ {0}
  OBVIOUS

\* One entry more, at the end.
LEMMA OneMore ==
  ASSUME NEW S, NEW s \in Seq(S), NEW a \in S
  PROVE  /\ Append(s, a) \in Seq(S) /\ Append(s, a) # <<>>
         /\ Len(Append(s, a)) = Len(s) + 1 /\ Append(s, a)[Len(s) + 1] = a
         /\ \A i \in 1..Len(s) : Append(s, a)[i] = s[i]
  OBVIOUS

\* Two sequences joined.
LEMMA TwoJoined ==
  ASSUME NEW S, NEW s \in Seq(S), NEW t \in Seq(S)
  PROVE  /\ s \o t \in Seq(S) /\ Len(s \o t) = Len(s) + Len(t)
         /\ \A i \in 1..(Len(s) + Len(t)) :
              (s \o t)[i] = IF i <= Len(s) THEN s[i] ELSE t[i - Len(s)]
  OBVIOUS

\* Joining the empty sequence changes nothing.
LEMMA JoinedToNone ==
  ASSUME NEW S, NEW s \in Seq(S)
  PROVE  s \o <<>> = s /\ <<>> \o s = s
  OBVIOUS

\* The first entry and the rest.
LEMMA FirstAndRest ==
  ASSUME NEW S, NEW s \in Seq(S), s # <<>>
  PROVE  /\ Head(s) \in S /\ Tail(s) \in Seq(S) /\ Len(Tail(s)) = Len(s) - 1
         /\ \A i \in 1..Len(Tail(s)) : Tail(s)[i] = s[i + 1]
  OBVIOUS

Segments == [kind : Kinds, seq : Nat, ack : Nat, data : Nat]

Servers ==
  [st : {"listen", "syn_rcvd", "open"}, conn : Nat, rcv : Nat, snd : Nat, una : Nat,
   fin : BOOLEAN, eof : BOOLEAN, bytes : Seq(Nat)]

Types ==
  /\ seq \in Nat /\ ack \in Nat
  /\ rx \in Int /\ first \in Int /\ got \in Int \X Int
  /\ out \in [seg : Segments, then : {"out"}]
  /\ clobber \in Seq(Segments) /\ Len(clobber) <= 1
  /\ connects \in Nat /\ sends \in Nat /\ losses \in Nat /\ resends \in Nat
  /\ wire \in Seq(Segments) /\ back \in Seq(Segments)
  /\ srv \in Servers

-----------------------------------------------------------------------------
(***************************************************************************)
(* Segments and queues of segments.                                        *)
(***************************************************************************)

\* A segment made of numbers.
LEMMA SegmentTypes ==
  ASSUME NEW k \in Kinds, NEW s \in Nat, NEW a \in Nat, NEW d \in Nat
  PROVE  /\ Segment(k, s, a, d) \in Segments
         /\ Segment(k, s, a, d).kind = k /\ Segment(k, s, a, d).seq = s
         /\ Segment(k, s, a, d).ack = a /\ Segment(k, s, a, d).data = d
  BY DEF Segment, Segments

\* The elements of a queue of segments.
LEMMA Elements ==
  ASSUME NEW s \in Seq(Segments)
  PROVE  /\ Len(s) \in Nat /\ DOMAIN s = 1..Len(s)
         /\ \A k \in 1..Len(s) :
              /\ s[k] \in Segments /\ s[k].kind \in Kinds
              /\ s[k].seq \in Nat /\ s[k].ack \in Nat /\ s[k].data \in Nat
  <1>1. Len(s) \in Nat /\ DOMAIN s = 1..Len(s)
    OBVIOUS
  <1>2. \A k \in 1..Len(s) : s[k] \in Segments
    BY EntryOf
  <1> QED
    BY <1>1, <1>2 DEF Segments

\* A queue to which a segment is added.
LEMMA Added ==
  ASSUME NEW s \in Seq(Segments), NEW m \in Segments, NEW t, t = Append(s, m)
  PROVE  /\ t \in Seq(Segments) /\ Len(t) = Len(s) + 1 /\ t[Len(s) + 1] = m
         /\ \A k \in 1..Len(s) : t[k] = s[k]
         /\ \A k \in 1..Len(t) : k \in 1..Len(s) \/ k = Len(s) + 1
  <1>1. Len(s) \in Nat
    OBVIOUS
  <1>2. t \in Seq(Segments) /\ Len(t) = Len(s) + 1 /\ t[Len(s) + 1] = m
        /\ \A k \in 1..Len(s) : t[k] = s[k]
    BY OneMore
  <1> QED
    BY <1>1, <1>2

\* A queue to which segments are added.
LEMMA Joined ==
  ASSUME NEW s \in Seq(Segments), NEW u \in Seq(Segments), NEW t, t = s \o u
  PROVE  /\ t \in Seq(Segments) /\ Len(t) = Len(s) + Len(u)
         /\ \A k \in 1..Len(s) : t[k] = s[k]
         /\ \A k \in 1..Len(t) : k \in 1..Len(s) \/
               (k > Len(s) /\ k - Len(s) \in 1..Len(u) /\ t[k] = u[k - Len(s)])
  <1>1. Len(s) \in Nat /\ Len(u) \in Nat
    OBVIOUS
  <1>2. /\ t \in Seq(Segments) /\ Len(t) = Len(s) + Len(u)
        /\ \A k \in 1..(Len(s) + Len(u)) : t[k] = IF k <= Len(s) THEN s[k] ELSE u[k - Len(s)]
    BY TwoJoined
  <1>3. \A k \in 1..Len(t) : k \in 1..Len(s) \/ (k > Len(s) /\ k - Len(s) \in 1..Len(u))
    BY <1>1, <1>2
  <1> QED
    BY <1>1, <1>2, <1>3

\* A queue without its first segment.
LEMMA Taken ==
  ASSUME NEW s \in Seq(Segments), s # <<>>, NEW t, t = Tail(s)
  PROVE  /\ t \in Seq(Segments) /\ Len(s) \in Nat \ {0} /\ Len(t) = Len(s) - 1
         /\ \A k \in 1..Len(t) : t[k] = s[k + 1] /\ k + 1 \in 1..Len(s)
         /\ Head(s) = s[1] /\ s[1] \in Segments /\ 1 \in 1..Len(s)
  <1>1. Len(s) \in Nat \ {0}
    BY NoEntries
  <1>2. /\ Head(s) \in Segments /\ t \in Seq(Segments) /\ Len(t) = Len(s) - 1
        /\ \A k \in 1..Len(t) : t[k] = s[k + 1]
    BY FirstAndRest
  <1>3. Head(s) = s[1]
    OBVIOUS
  <1> QED
    BY <1>1, <1>2, <1>3

\* One segment, or two, as a queue.
LEMMA OneOrTwo ==
  ASSUME NEW m \in Segments, NEW n \in Segments
  PROVE  /\ <<m>> \in Seq(Segments) /\ Len(<<m>>) = 1 /\ <<m>>[1] = m
         /\ <<m, n>> \in Seq(Segments) /\ Len(<<m, n>>) = 2 /\ <<m, n>>[1] = m
         /\ <<m, n>>[2] = n
  OBVIOUS

-----------------------------------------------------------------------------
(***************************************************************************)
(* What the steps do to the segments.                                      *)
(***************************************************************************)

\* What a call's SendSegment puts on the wire: at most one segment, with the numbers of
\* the call's own or of the handler's, and the data of either.
LEMMA OutcomesAre ==
  ASSUME Types, NEW segs \in Outcomes
  PROVE  /\ segs \in Seq(Segments) /\ Len(segs) <= 1
         /\ Len(segs) = 1 =>
              \/ /\ segs[1].kind = out.seg.kind /\ segs[1].seq = out.seg.seq
                 /\ segs[1].data = out.seg.data /\ segs[1].ack \in {out.seg.ack, ack}
              \/ /\ Len(clobber) = 1
                 /\ segs[1].kind = clobber[1].kind /\ segs[1].seq = clobber[1].seq
                 /\ segs[1].ack = clobber[1].ack
                 /\ segs[1].data \in {clobber[1].data, out.seg.data}
  <1>1. out.seg \in Segments /\ ack \in Nat
    BY DEF Types
  <1> DEFINE a == [out.seg EXCEPT !.ack = ack]
             b == [clobber[1] EXCEPT !.data = out.seg.data]
  <1>2. \/ segs = <<out.seg>>
        \/ clobber # <<>> /\ (segs = <<a>> \/ segs = clobber \/ segs = <<>> \/ segs = <<b>>)
    BY DEF Outcomes
  <1>3. a \in Segments /\ a.kind = out.seg.kind /\ a.seq = out.seg.seq
        /\ a.data = out.seg.data /\ a.ack = ack
    BY <1>1 DEF Segments
  <1>4. clobber # <<>> => /\ Len(clobber) = 1 /\ clobber[1] \in Segments
    <2>1. clobber \in Seq(Segments) /\ Len(clobber) <= 1
      BY DEF Types
    <2>2. clobber # <<>> => Len(clobber) \in Nat \ {0}
      BY <2>1, NoEntries
    <2>3. \A n \in Nat \ {0} : n <= 1 => n = 1 /\ 1 \in 1..n
      OBVIOUS
    <2> QED
      BY <2>1, <2>2, <2>3, EntryOf, Zenon
  <1>5. clobber # <<>> => /\ b \in Segments /\ b.kind = clobber[1].kind
                          /\ b.seq = clobber[1].seq /\ b.ack = clobber[1].ack
                          /\ b.data = out.seg.data
    BY <1>1, <1>4 DEF Segments
  <1>6. clobber \in Seq(Segments)
    BY DEF Types
  <1> HIDE DEF a, b
  <1>7. CASE segs = <<out.seg>>
    BY <1>1, <1>7, OneOrTwo
  <1>8. CASE clobber # <<>> /\ segs = <<a>>
    BY <1>3, <1>8, OneOrTwo
  <1>9. CASE clobber # <<>> /\ segs = clobber
    <2>1. Len(clobber) = 1 /\ 1 <= 1 /\ segs = clobber
      BY <1>4, <1>9
    <2> QED
      BY <1>6, <2>1, Zenon
  <1>10. CASE segs = <<>>
    BY <1>10, NoEntries
  <1>11. CASE clobber # <<>> /\ segs = <<b>>
    BY <1>4, <1>5, <1>11, OneOrTwo
  <1> QED
    BY <1>2, <1>7, <1>8, <1>9, <1>10, <1>11

\* HandleIPv4Payload of a segment, without the queue it comes from.
Handled(m) ==
  \/ HandleSynAck(m) \/ HandleFin(m) \/ HandleData(m)
  \/ HandleClosing(m) \/ HandleLastFin(m) \/ Ignored(m)

\* A segment of the handler: an acknowledgement or a FIN without data.
Reply(n) ==
  /\ n.kind \in {"ACK", "FIN"} /\ n.data = 0 /\ n.ack = ack'
  /\ n.seq = IF state = "SYN_SENT" THEN seq' ELSE seq

\* A segment built from the numbers of the connection is one.
LEMMA ReplyIs ==
  ASSUME NEW k \in {"ACK", "FIN"}, NEW s \in Nat, NEW a \in Nat,
         a = ack', s = IF state = "SYN_SENT" THEN seq' ELSE seq
  PROVE  Segment(k, s, a, 0) \in Segments /\ Reply(Segment(k, s, a, 0))
  <1>1. k \in Kinds /\ 0 \in Nat
    BY DEF Kinds
  <1> DEFINE n == Segment(k, s, a, 0)
  <1>2. n \in Segments /\ n.kind = k /\ n.seq = s /\ n.ack = a /\ n.data = 0
    BY ONLY <1>1, s \in Nat, a \in Nat, SegmentTypes
  <1> HIDE DEF n
  <1>3. Reply(n)
    BY <1>2 DEF Reply
  <1> QED
    BY <1>2, <1>3 DEF n

\* What the handler sends and what it leaves in the buffers of a call.
Replies(segs) ==
  /\ segs \in Seq(Segments)
  /\ \A i \in 1..Len(segs) : Reply(segs[i])
  /\ wire' = wire \o segs
  /\ \/ clobber' = clobber
     \/ pc = "transmit" /\ \E n \in Segments : clobber' = <<n>> /\ Reply(n)

\* Emit of one segment or of two.
LEMMA EmitReplies ==
  ASSUME Types, NEW m \in Segments, NEW n \in Segments, Reply(m), Reply(n),
         Emit(<<m>>) \/ Emit(<<m, n>>)
  PROVE  \E segs : Replies(segs)
  <1>1. CASE Emit(<<m>>)
    <2>1. wire' = wire \o <<m>> /\ (clobber' = clobber \/ (pc = "transmit" /\ clobber' = <<m>>))
      BY <1>1, OneOrTwo DEF Emit
    <2>2. <<m>> \in Seq(Segments) /\ \A i \in 1..Len(<<m>>) : Reply(<<m>>[i])
      BY OneOrTwo
    <2> QED
      BY <2>1, <2>2, Zenon DEF Replies
  <1>2. CASE Emit(<<m, n>>)
    <2>1. /\ wire' = wire \o <<m, n>>
          /\ clobber' = clobber \/ (pc = "transmit" /\ clobber' = <<n>>)
      BY <1>2, OneOrTwo DEF Emit
    <2>2. <<m, n>> \in Seq(Segments) /\ \A i \in 1..Len(<<m, n>>) : Reply(<<m, n>>[i])
      BY OneOrTwo
    <2> QED
      BY <2>1, <2>2, Zenon DEF Replies
  <1> QED
    BY <1>1, <1>2

\* HandleIPv4Payload as a whole (tcp.cpp:84-150): it answers at most what it has been
\* sent, and only the answer to a SYN makes a connection.
LEMMA HandlerIs ==
  ASSUME Types, NEW m \in Segments, Handled(m)
  PROVE  /\ seq' \in Nat /\ ack' \in Nat /\ rx' \in Int
         /\ \E segs : Replies(segs)
         /\ ack' = ack \/ (m.kind \in {"SYNACK", "DATA", "FIN"} /\ ack' = m.seq + 1)
         /\ rx' = rx \/ (m.kind = "DATA" /\ rx' = m.data)
         /\ \/ state = "SYN_SENT" /\ m.kind = "SYNACK" /\ seq' = m.ack /\ state' = "ESTABLISHED"
            \/ state = "SYN_SENT" /\ state' = "SYN_SENT" /\ seq' = seq
            \/ /\ state # "SYN_SENT" /\ state' # "SYN_SENT"
               /\ seq' = seq \/ (state = "ESTABLISHED" /\ state' = "LAST_ACK" /\ seq' = seq + 1)
               /\ state' = "ESTABLISHED" => state = "ESTABLISHED"
               /\ state = "CLOSED" => state' = "CLOSED" /\ rx' = rx
  <1>1. m.kind \in Kinds /\ m.seq \in Nat /\ m.ack \in Nat /\ m.data \in Nat
    BY DEF Segments
  <1>2. seq \in Nat /\ ack \in Nat /\ rx \in Int /\ "ACK" \in Kinds /\ "FIN" \in Kinds /\ 0 \in Nat
        /\ wire \in Seq(Segments)
    BY DEF Types, Kinds
  <1>3. UNCHANGED <<wire, clobber, ack>> => \E segs : Replies(segs)
    <2>1. <<>> \in Seq(Segments) /\ Len(<<>>) = 0 /\ wire \o <<>> = wire
      BY <1>2, NoEntries, JoinedToNone
    <2>2. \A i \in 1..Len(<<>>) : Reply(<<>>[i])
      BY <2>1
    <2> QED
      BY <2>1, <2>2, Zenon DEF Replies
  <1>4. CASE HandleSynAck(m)
    <2>1. ack' \in Nat /\ seq' \in Nat
      BY <1>1, <1>4 DEF HandleSynAck
    <2>a. PICK s \in Nat, a \in Nat : s = seq' /\ a = ack'
      BY <2>1
    <2>b. state = "SYN_SENT"
      BY <1>4 DEF HandleSynAck
    <2> DEFINE n == Segment("ACK", s, a, 0)
    <2>2. n \in Segments /\ Reply(n)
      BY <2>a, <2>b, ReplyIs
    <2> HIDE DEF n
    <2>3. Emit(<<n>>)
      BY <1>4, <2>a DEF HandleSynAck, n
    <2>4. \E segs : Replies(segs)
      BY <2>2, <2>3, EmitReplies, Zenon
    <2> QED
      BY <1>2, <1>4, <2>1, <2>4 DEF HandleSynAck
  <1>5. CASE HandleFin(m)
    <2>1. ack' \in Nat /\ seq' \in Nat /\ state # "SYN_SENT"
      BY <1>1, <1>2, <1>5 DEF HandleFin
    <2>a. PICK s \in Nat, a \in Nat : s = seq /\ a = ack'
      BY <1>2, <2>1
    <2> DEFINE n == Segment("ACK", s, a, 0)
               o == Segment("FIN", s, a, 0)
    <2>2. n \in Segments /\ Reply(n)
      BY <2>1, <2>a, ReplyIs
    <2>3. o \in Segments /\ Reply(o)
      BY <2>1, <2>a, ReplyIs
    <2> HIDE DEF n, o
    <2>5. Emit(<<n, o>>)
      BY <1>5, <2>a DEF HandleFin, n, o
    <2>6. \E segs : Replies(segs)
      BY <2>2, <2>3, <2>5, EmitReplies, Zenon
    <2> QED
      BY <1>2, <1>5, <2>1, <2>6 DEF HandleFin
  <1>6. CASE HandleData(m) \/ HandleLastFin(m)
    <2>1. ack' \in Nat /\ seq' = seq
      BY <1>1, <1>6 DEF HandleData, HandleLastFin
    <2>a. PICK s \in Nat, a \in Nat : s = seq /\ a = ack'
      BY <1>2, <2>1
    <2>b. state # "SYN_SENT"
      BY <1>6 DEF HandleData, HandleLastFin
    <2> DEFINE n == Segment("ACK", s, a, 0)
    <2>2. n \in Segments /\ Reply(n)
      BY <2>a, <2>b, ReplyIs
    <2> HIDE DEF n
    <2>3. Emit(<<n>>)
      BY <1>6, <2>a DEF HandleData, HandleLastFin, n
    <2>4. \E segs : Replies(segs)
      BY <2>2, <2>3, EmitReplies, Zenon
    <2> QED
      BY <1>1, <1>2, <1>6, <2>1, <2>4 DEF HandleData, HandleLastFin
  <1>7. CASE HandleClosing(m) \/ Ignored(m)
    BY <1>2, <1>3, <1>7 DEF HandleClosing, Ignored, socket
  <1> QED
    BY <1>4, <1>5, <1>6, <1>7 DEF Handled

-----------------------------------------------------------------------------
(***************************************************************************)
(* Invariants.                                                             *)
(***************************************************************************)

\* The number of the server's SYN.
Isn == Base * srv.conn

\* The numbers of the server's connection.
ServerInv ==
  /\ srv.una <= srv.snd /\ srv.snd <= Isn + MaxData + 2
  /\ srv.st = "listen" => ~srv.fin
  /\ srv.st = "syn_rcvd" =>
       srv.snd = Isn + 1 /\ srv.una = Isn /\ ~srv.fin /\ ~srv.eof /\ srv.bytes = <<>>
  /\ srv.st = "open" => Isn < srv.una
  /\ srv.st # "listen" /\ ~srv.fin => srv.snd <= Isn + MaxData + 1
  /\ srv.st = "open" /\ srv.fin => Isn + 1 < srv.snd

\* Nothing on its way from the socket acknowledges more than b.
AcksUpTo(b) ==
  /\ ack <= b /\ out.seg.ack <= b
  /\ \A i \in 1..Len(clobber) : clobber[i].ack <= b
  /\ \A i \in 1..Len(wire) : wire[i].ack <= b

AckInv ==
  /\ AcksUpTo(srv.snd)
  /\ \A k \in 1..Len(back) : back[k].kind # "ACK" => back[k].seq < srv.snd

\* As long as an answer to a SYN is under way, nothing behind it has been acknowledged
\* and nothing before it in the queue will be.
SynAckInv ==
  \A k \in 1..Len(back) : back[k].kind = "SYNACK" =>
    /\ srv.st # "listen" /\ back[k].seq = Isn
    /\ AcksUpTo(Isn + 1) /\ srv.una <= Isn + 1
    /\ \A j \in 1..(k - 1) : back[j].kind # "ACK" => back[j].seq <= Isn

\* The bytes under way to the socket are numbered and in order.
BytesInOrder ==
  \A k \in 1..Len(back) : back[k].kind = "DATA" =>
    /\ back[k].data = back[k].seq /\ 0 < back[k].data
    /\ \A j \in 1..(k - 1) : back[j].kind = "DATA" => back[j].data < back[k].data

\* The byte x is older than all that is under way or will be sent.
Older(x) ==
  /\ x <= 0 \/ x < srv.snd
  /\ \A k \in 1..Len(back) : back[k].kind = "DATA" => x < back[k].data

\* What is under way to the reader is newer than all it has.
ReadInv ==
  resends = 0 =>
    /\ BytesInOrder /\ Older(got[2]) /\ Older(first) /\ Older(rx)
    /\ pc = "r_second" => got[2] < first /\ first <= rx
    /\ pc \notin {"r_second", "r_clear"} /\ 0 < rx => got[2] < rx

\* A call is sending a segment of this kind.
Building(kind) == pc \in {"build", "transmit", "advance", "store"} /\ out.seg.kind = kind

\* The last byte that has left the socket.
Left == IF pc \in {"build", "transmit"} /\ out.seg.kind = "DATA" THEN sends - 1 ELSE sends

\* A byte on the wire is newer than all the server has taken, and its number is at least
\* that of its place in the stream: no byte can have the number of a later one.
WireInv ==
  /\ \A i \in 1..Len(srv.bytes) : srv.bytes[i] = i
  /\ Len(srv.bytes) <= Left
  /\ srv.st # "listen" /\ ~srv.eof => srv.rcv = Len(srv.bytes) + 1
  /\ \A k \in 1..Len(wire) :
       /\ wire[k].kind = "SYN" => wire[k].seq = 0
       /\ wire[k].data # 0 =>
            /\ wire[k].data <= wire[k].seq /\ wire[k].data <= Left
            /\ Len(srv.bytes) < wire[k].data
            /\ \A j \in 1..(k - 1) : wire[j].data < wire[k].data

\* The socket's own number never falls behind the bytes it has sent.
SeqInv ==
  /\ pc \in {"build", "transmit", "advance", "store"} => out.seg.kind \in {"SYN", "DATA", "FIN"}
  /\ Building("DATA") => 0 < sends /\ sends <= seq /\ out.seg.data = sends
  /\ ~Building("DATA") => out.seg.data = 0 /\ (state = "ESTABLISHED" => sends < seq)
  /\ Building("DATA") /\ pc \in {"transmit", "store"} => sends <= out.seg.seq
  /\ \A i \in 1..Len(clobber) :
       /\ pc = "transmit" /\ clobber[i].kind # "SYN" /\ clobber[i].data = 0
       /\ out.seg.kind = "DATA" => sends <= clobber[i].seq
  /\ state = "SYN_SENT" => sends = 0 /\ ~Building("DATA")
  /\ Building("SYN") => sends = 0
  /\ Building("FIN") => state \notin {"SYN_SENT", "ESTABLISHED"}
  /\ pc = "transmit" /\ out.seg.kind = "SYN" => out.seg.seq = 0

\* Between Connect and the SYN on the wire.
Calling == pc \in {"c_ack", "c_state"} \/ (pc = "build" /\ out.seg.kind = "SYN")

\* Before its SYN is on the wire the socket has no peer.
CallInv ==
  /\ connects = 0 => pc = "out" /\ rx = 0 /\ state = "CLOSED" /\ sends = 0
  /\ Calling => seq = 0 /\ sends = 0 /\ state \in {"CLOSED", "SYN_SENT"}
  /\ Calling \/ connects = 0 =>
       srv.st = "listen" /\ \A k \in 1..Len(wire) : wire[k].kind # "SYN"
  /\ \A k \in 1..Len(back) : back[k].kind = "SYNACK" =>
       0 < back[k].ack /\ ~Calling /\ connects # 0

StreamInv == connects <= 1 => WireInv /\ SeqInv /\ CallInv

-----------------------------------------------------------------------------
(***************************************************************************)
(* The types, step by step, and what each step of the server does.         *)
(***************************************************************************)

\* The bases of the numbers are numbers, and the next connection's lies behind this one's.
LEMMA Bases ==
  ASSUME NEW n \in Nat
  PROVE  /\ MaxData \in Nat /\ Base \in Nat /\ Base * n \in Nat
         /\ Base * (n + 1) \in Nat /\ Base * (n + 1) = Base * n + MaxData + 3
  <1>1. MaxData \in Nat
    BY TcpAssumption
  <1>2. \A b \in Nat : b * n \in Nat /\ b * (n + 1) \in Nat /\ b * (n + 1) = b * n + b
    OBVIOUS
  <1> QED
    BY <1>1, <1>2 DEF Base

\* The fields of the socket's and the server's records.
LEMMA Fields ==
  ASSUME Types
  PROVE  /\ out.seg \in Segments /\ out.seg.kind \in Kinds /\ out.seg.seq \in Nat
         /\ out.seg.ack \in Nat /\ out.seg.data \in Nat /\ out.then = "out"
         /\ srv.st \in {"listen", "syn_rcvd", "open"} /\ srv.conn \in Nat /\ srv.rcv \in Nat
         /\ srv.snd \in Nat /\ srv.una \in Nat /\ srv.fin \in BOOLEAN /\ srv.eof \in BOOLEAN
         /\ srv.bytes \in Seq(Nat) /\ Len(srv.bytes) \in Nat /\ Isn \in Nat /\ MaxData \in Nat
  <1>1. out.seg \in Segments /\ out.then = "out"
    BY DEF Types
  <1>2. /\ srv.st \in {"listen", "syn_rcvd", "open"} /\ srv.conn \in Nat /\ srv.rcv \in Nat
        /\ srv.snd \in Nat /\ srv.una \in Nat /\ srv.fin \in BOOLEAN /\ srv.eof \in BOOLEAN
        /\ srv.bytes \in Seq(Nat)
    BY DEF Types, Servers
  <1>3. Isn \in Nat /\ MaxData \in Nat
    BY <1>2, Bases, Zenon DEF Isn
  <1> QED
    BY <1>1, <1>2, <1>3 DEF Segments

\* A server whose answer to the SYN is not acknowledged waits for that acknowledgement.
LEMMA Unacknowledged ==
  ASSUME Types, ServerInv, srv.st # "listen", srv.una = Isn
  PROVE  srv.st = "syn_rcvd"
  BY Fields DEF ServerInv

\* The segment a call builds.
LEMMA OutIs ==
  ASSUME Types
  PROVE  /\ NoOut \in [seg : Segments, then : {"out"}]
         /\ NoOut.seg.kind = "ACK" /\ NoOut.seg.ack = 0 /\ NoOut.seg.data = 0
         /\ Build =>
              /\ out' \in [seg : Segments, then : {"out"}]
              /\ out'.seg.kind = out.seg.kind /\ out'.seg.seq = seq
              /\ out'.seg.ack = ack /\ out'.seg.data = out.seg.data
         /\ Load =>
              /\ out' \in [seg : Segments, then : {"out"}]
              /\ out'.seg.kind = out.seg.kind /\ out'.seg.seq = seq
              /\ out'.seg.ack = out.seg.ack /\ out'.seg.data = out.seg.data
         /\ \A kind \in Kinds, d \in Nat : Begin(kind, d, "out") =>
              /\ out' \in [seg : Segments, then : {"out"}]
              /\ out'.seg.kind = kind /\ out'.seg.ack = 0 /\ out'.seg.data = d
              /\ pc' = "build"
  <1>1. seq \in Nat /\ ack \in Nat /\ "ACK" \in Kinds
        /\ out \in [seg : Segments, then : {"out"}]
    BY DEF Types, Kinds
  <1>2. /\ NoOut \in [seg : Segments, then : {"out"}]
        /\ NoOut.seg.kind = "ACK" /\ NoOut.seg.ack = 0 /\ NoOut.seg.data = 0
    BY <1>1, SegmentTypes DEF NoOut
  <1>3. Build =>
              /\ out' \in [seg : Segments, then : {"out"}]
              /\ out'.seg.kind = out.seg.kind /\ out'.seg.seq = seq
              /\ out'.seg.ack = ack /\ out'.seg.data = out.seg.data
    <2> SUFFICES ASSUME Build
                 PROVE  /\ out' \in [seg : Segments, then : {"out"}]
                        /\ out'.seg.kind = out.seg.kind /\ out'.seg.seq = seq
                        /\ out'.seg.ack = ack /\ out'.seg.data = out.seg.data
      OBVIOUS
    <2>1. out' = [out EXCEPT !.seg.seq = seq, !.seg.ack = ack]
      BY DEF Build
    <2>2. out' = [out EXCEPT !.seg = [[out.seg EXCEPT !.seq = seq] EXCEPT !.ack = ack]]
      BY <1>1, <2>1, Zenon DEF Segments
    <2> DEFINE g == [[out.seg EXCEPT !.seq = seq] EXCEPT !.ack = ack]
    <2>3. /\ g \in Segments /\ g.kind = out.seg.kind /\ g.seq = seq /\ g.ack = ack
          /\ g.data = out.seg.data
      BY <1>1, Zenon DEF Segments
    <2> HIDE DEF g
    <2>4. out' \in [seg : Segments, then : {"out"}] /\ out'.seg = g
      BY <1>1, <2>2, <2>3 DEF g
    <2> QED
      BY <2>3, <2>4
  <1>4. Load =>
              /\ out' \in [seg : Segments, then : {"out"}]
              /\ out'.seg.kind = out.seg.kind /\ out'.seg.seq = seq
              /\ out'.seg.ack = out.seg.ack /\ out'.seg.data = out.seg.data
    BY <1>1 DEF Load, Segments
  <1>5. ASSUME NEW kind \in Kinds, NEW d \in Nat, Begin(kind, d, "out")
        PROVE  /\ out' \in [seg : Segments, then : {"out"}]
               /\ out'.seg.kind = kind /\ out'.seg.ack = 0 /\ out'.seg.data = d
               /\ pc' = "build"
    BY <1>5, SegmentTypes DEF Begin
  <1> QED
    BY <1>2, <1>3, <1>4, <1>5

\* What a call puts on the wire, segment by segment.
LEMMA TransmitIs ==
  ASSUME Types, Transmit
  PROVE  /\ wire' \in Seq(Segments) /\ Len(wire) <= Len(wire') /\ Len(wire') <= Len(wire) + 1
         /\ \A k \in 1..Len(wire') :
              \/ k \in 1..Len(wire) /\ wire'[k] = wire[k]
              \/ k = Len(wire) + 1 /\
                 \/ /\ wire'[k].kind = out.seg.kind /\ wire'[k].seq = out.seg.seq
                    /\ wire'[k].data = out.seg.data /\ wire'[k].ack \in {out.seg.ack, ack}
                 \/ /\ Len(clobber) = 1
                    /\ wire'[k].kind = clobber[1].kind /\ wire'[k].seq = clobber[1].seq
                    /\ wire'[k].ack = clobber[1].ack
                    /\ wire'[k].data \in {clobber[1].data, out.seg.data}
  <1>1. PICK segs \in Outcomes : wire' = wire \o segs
    BY Zenon DEF Transmit
  <1>2. segs \in Seq(Segments) /\ Len(segs) <= 1 /\ wire \in Seq(Segments)
    BY OutcomesAre DEF Types
  <1>3. Len(segs) \in Nat /\ Len(wire) \in Nat
    BY <1>2
  <1>4. /\ wire' \in Seq(Segments) /\ Len(wire') = Len(wire) + Len(segs)
        /\ \A k \in 1..Len(wire) : wire'[k] = wire[k]
        /\ \A k \in 1..Len(wire') : k \in 1..Len(wire) \/
               (k > Len(wire) /\ k - Len(wire) \in 1..Len(segs) /\ wire'[k] = segs[k - Len(wire)])
    BY <1>1, <1>2, Joined
  <1>5. ASSUME NEW k \in 1..Len(wire'), k \notin 1..Len(wire)
        PROVE  k = Len(wire) + 1 /\ Len(segs) = 1 /\ wire'[k] = segs[1]
    <2>1. k \in Int /\ k > Len(wire) /\ k - Len(wire) \in 1..Len(segs) /\ wire'[k] = segs[k - Len(wire)]
      BY <1>3, <1>4, <1>5
    <2>2. \A a \in Int, l \in Nat, n \in Nat :
            a - l \in 1..n /\ n <= 1 => a - l = 1 /\ a = l + 1 /\ n = 1
      OBVIOUS
    <2>3. k - Len(wire) = 1 /\ k = Len(wire) + 1 /\ Len(segs) = 1
      BY <1>2, <1>3, <2>1, <2>2, Zenon
    <2> QED
      BY <2>1, <2>3
  <1> QED
    BY <1>2, <1>3, <1>4, <1>5, OutcomesAre

\* Every statement of a call keeps the types.
LEMMA ProgramTypes ==
  ASSUME Types, Program
  PROVE  Types'
  <1>1. CASE Connect \/ ConnectAck
    <2>1. seq' \in Nat /\ ack' \in Nat /\ connects' \in Nat
      BY <1>1 DEF Types, Connect, ConnectAck, InitialSeq
    <2>2. UNCHANGED <<rx, out, clobber, first, got, sends, wire, back, losses, srv, resends>>
      BY <1>1 DEF Connect, ConnectAck, reading, network, server
    <2> QED
      BY <2>1, <2>2 DEF Types
  <1>2. CASE ConnectState \/ Send \/ Close
    <2>1. sends \in Nat /\ sends + 1 \in Nat /\ 0 \in Nat /\ "SYN" \in Kinds /\ "DATA" \in Kinds
          /\ "FIN" \in Kinds
      BY DEF Types, Kinds
    <2>2. \E kind \in Kinds, d \in Nat : Begin(kind, d, "out")
      BY <1>2, <2>1 DEF ConnectState, Send, Close
    <2>3. out' \in [seg : Segments, then : {"out"}]
      BY <2>2, OutIs
    <2> QED
      BY <1>2, <2>1, <2>3, Zenon
      DEF Types, ConnectState, Send, Close, socket, reading, network, server
  <1>3. CASE Build \/ Load
    <2>1. out' \in [seg : Segments, then : {"out"}]
      BY <1>3, OutIs
    <2>2. clobber' \in Seq(Segments) /\ Len(clobber') <= 1
      <3>1. CASE Build
        BY <3>1 DEF Build
      <3>2. CASE Load
        BY <3>2 DEF Types, Load
      <3> QED
        BY <1>3, <3>1, <3>2
    <2> QED
      BY <1>3, <2>1, <2>2 DEF Types, Build, Load, socket, reading, network, server
  <1>4. CASE Transmit
    <2>1. clobber' \in Seq(Segments) /\ Len(clobber') <= 1
      BY <1>4 DEF Transmit
    <2> QED
      BY <1>4, <2>1, TransmitIs, Zenon DEF Types, Transmit, socket, reading, network, server
  <1>5. CASE Advance
    <2>1. seq' \in Nat
      BY <1>5, Fields DEF Advance
    <2> QED
      BY <1>5, <2>1, OutIs DEF Types, Advance, reading, network, server
  <1>6. CASE RecvStart \/ RecvEmpty \/ RecvSecond \/ RecvClear \/ RecvLen \/ RecvWaited
    <2>1. rx' \in Int /\ first' \in Int /\ got' \in Int \X Int
      <3>1. rx \in Int /\ first \in Int /\ got \in Int \X Int
        BY DEF Types
      <3>2. CASE RecvStart \/ RecvEmpty \/ RecvSecond
        BY <3>1, <3>2 DEF RecvStart, RecvEmpty, RecvSecond, NoBytes, reading
      <3>3. CASE RecvClear \/ RecvLen \/ RecvWaited
        BY <3>1, <3>3 DEF RecvClear, RecvLen, RecvWaited, NoBytes, reading
      <3> QED
        BY <1>6, <3>2, <3>3
    <2>2. UNCHANGED <<seq, ack, out, clobber, connects, sends, wire, back, losses, srv, resends>>
      BY <1>6 DEF RecvStart, RecvEmpty, RecvSecond, RecvClear, RecvLen, RecvWaited, socket,
         network, server
    <2> QED
      BY <2>1, <2>2 DEF Types
  <1> QED
    BY <1>1, <1>2, <1>3, <1>4, <1>5, <1>6 DEF Program

\* What the handler sends, segment by segment.
LEMMA HandlerSends ==
  ASSUME Types, HandleIPv4Payload
  PROVE  /\ wire' \in Seq(Segments) /\ Len(wire) <= Len(wire')
         /\ clobber' \in Seq(Segments) /\ Len(clobber') <= 1
         /\ \A k \in 1..Len(wire') :
              \/ k \in 1..Len(wire) /\ wire'[k] = wire[k]
              \/ k > Len(wire) /\ Reply(wire'[k])
         /\ \A i \in 1..Len(clobber') :
              \/ i \in 1..Len(clobber) /\ clobber'[i] = clobber[i]
              \/ pc = "transmit" /\ Reply(clobber'[i])
  <1>1. back # <<>> /\ Handled(Head(back)) /\ back \in Seq(Segments) /\ wire \in Seq(Segments)
    BY DEF HandleIPv4Payload, Handled, Types
  <1>2. Head(back) \in Segments
    BY <1>1, FirstAndRest
  <1>3. PICK segs : Replies(segs)
    BY <1>1, <1>2, HandlerIs
  <1>4. segs \in Seq(Segments) /\ wire' = wire \o segs /\ \A i \in 1..Len(segs) : Reply(segs[i])
    BY <1>3 DEF Replies
  <1>5. Len(segs) \in Nat /\ Len(wire) \in Nat
    BY <1>1, <1>4
  <1>6. /\ wire' \in Seq(Segments) /\ Len(wire') = Len(wire) + Len(segs)
        /\ \A k \in 1..Len(wire) : wire'[k] = wire[k]
        /\ \A k \in 1..Len(wire') : k \in 1..Len(wire) \/
               (k > Len(wire) /\ k - Len(wire) \in 1..Len(segs) /\ wire'[k] = segs[k - Len(wire)])
    BY <1>1, <1>4, Joined
  <1>7. \A k \in 1..Len(wire') :
              \/ k \in 1..Len(wire) /\ wire'[k] = wire[k]
              \/ k > Len(wire) /\ Reply(wire'[k])
    BY <1>4, <1>6
  <1>8. CASE clobber' = clobber
    BY <1>5, <1>6, <1>7, <1>8 DEF Types
  <1>9. CASE pc = "transmit" /\ \E n \in Segments : clobber' = <<n>> /\ Reply(n)
    <2>1. PICK n \in Segments : clobber' = <<n>> /\ Reply(n)
      BY <1>9
    <2>2. clobber' \in Seq(Segments) /\ Len(clobber') = 1 /\ clobber'[1] = n
      BY <2>1, OneOrTwo
    <2>3. \A i \in 1..1 : i = 1
      OBVIOUS
    <2> QED
      BY <1>5, <1>6, <1>7, <1>9, <2>1, <2>2, <2>3
  <1> QED
    BY <1>3, <1>8, <1>9 DEF Replies

\* The handler keeps the types.
LEMMA HandlerTypes ==
  ASSUME Types, HandleIPv4Payload
  PROVE  Types'
  <1>1. back # <<>> /\ back' = Tail(back) /\ Handled(Head(back)) /\ back \in Seq(Segments)
    BY DEF HandleIPv4Payload, Handled, Types
  <1>2. Head(back) \in Segments /\ back' \in Seq(Segments)
    BY <1>1, FirstAndRest
  <1>3. seq' \in Nat /\ ack' \in Nat /\ rx' \in Int
    BY <1>1, <1>2, HandlerIs
  <1>4. UNCHANGED <<pc, out, first, got, connects, sends, losses, srv, resends>>
    BY DEF HandleIPv4Payload, reading, server
  <1> QED
    BY <1>2, <1>3, <1>4, HandlerSends DEF Types

\* A server without a connection.
Idle(conn, snd) == [Closed EXCEPT !.conn = conn, !.snd = snd]

LEMMA IdleServer ==
  ASSUME NEW conn \in Nat, NEW snd \in Nat
  PROVE  LET c == Idle(conn, snd) IN
         /\ c \in Servers /\ c.conn = conn /\ c.snd = snd /\ c.st = "listen"
         /\ c.una = 0 /\ c.fin = FALSE /\ c.bytes = <<>>
  <1>0. PICK c : c = Idle(conn, snd)
    OBVIOUS
  <1>1. c = [st |-> "listen", conn |-> conn, rcv |-> 0, snd |-> snd, una |-> 0,
             fin |-> FALSE, eof |-> FALSE, bytes |-> <<>>]
    BY <1>0, Zenon DEF Closed, Idle
  <1>2. <<>> \in Seq(Nat) /\ 0 \in Nat
    OBVIOUS
  <1>3. c \in Servers
    BY ONLY <1>1, <1>2, conn \in Nat, snd \in Nat DEF Servers
  <1>4. /\ c.conn = conn /\ c.snd = snd /\ c.st = "listen"
        /\ c.una = 0 /\ c.fin = FALSE /\ c.bytes = <<>>
    BY ONLY <1>1
  <1> QED
    BY <1>0, <1>3, <1>4

\* A server that has sent a segment more.
LEMMA SentMore ==
  ASSUME NEW s \in Servers, NEW f \in BOOLEAN, NEW t,
         t = [s EXCEPT !.snd = @ + 1, !.fin = f]
  PROVE  /\ t \in Servers /\ t.st = s.st /\ t.conn = s.conn /\ t.rcv = s.rcv
         /\ t.snd = s.snd + 1 /\ t.una = s.una /\ t.eof = s.eof /\ t.bytes = s.bytes
         /\ t.fin = f
  <1>1. s.snd \in Nat /\ s.snd + 1 \in Nat
    BY DEF Servers
  <1>2. PICK n \in Nat : n = s.snd + 1
    BY <1>1
  <1>3. t = [s EXCEPT !.snd = n, !.fin = f]
    BY <1>2
  <1>4. /\ t \in Servers /\ t.st = s.st /\ t.conn = s.conn /\ t.rcv = s.rcv
        /\ t.snd = n /\ t.una = s.una /\ t.eof = s.eof /\ t.bytes = s.bytes /\ t.fin = f
    BY <1>3, Zenon DEF Servers
  <1> QED
    BY <1>2, <1>4

\* The server after a segment it accepts.
LEMMA ServedIs ==
  ASSUME Types, NEW m \in Segments, NEW r, r = Served(m)
  PROVE  /\ r \in Servers /\ r.conn = srv.conn /\ r.snd = srv.snd
         /\ \/ /\ r.st = "listen" /\ r.una = 0 /\ ~r.fin /\ r.bytes = <<>>
               /\ srv.fin /\ (m.ack = srv.snd \/ srv.una = srv.snd)
            \/ /\ r.st = "open" /\ r.fin = srv.fin
               /\ r.una = (IF m.ack > srv.una THEN m.ack ELSE srv.una)
               /\ \/ r.bytes = srv.bytes /\ (~r.eof => ~srv.eof /\ r.rcv = srv.rcv)
                  \/ /\ m.seq = srv.rcv /\ ~srv.eof /\ m.data # 0
                     /\ r.bytes = Append(srv.bytes, m.data)
                     /\ ~r.eof => r.rcv = srv.rcv + 1
  <1> DEFINE new == m.seq = srv.rcv /\ ~srv.eof
             data == new /\ m.data # 0
             fin == new /\ m.kind = "FIN"
             una == IF m.ack > srv.una THEN m.ack ELSE srv.una
             rcv == srv.rcv + (IF data THEN 1 ELSE 0) + (IF fin THEN 1 ELSE 0)
             eof == srv.eof \/ fin
             bytes == IF data THEN Append(srv.bytes, m.data) ELSE srv.bytes
             s == [srv EXCEPT !.st = "open", !.una = una, !.rcv = rcv, !.eof = eof,
                     !.bytes = bytes]
             c == Idle(srv.conn, srv.snd)
  <1>1. m.kind \in Kinds /\ m.seq \in Nat /\ m.ack \in Nat /\ m.data \in Nat
    BY DEF Segments
  <1>2. /\ una \in Nat /\ rcv \in Nat /\ eof \in BOOLEAN
        /\ ~eof => ~srv.eof /\ rcv = srv.rcv + (IF data THEN 1 ELSE 0)
    BY <1>1, Fields
  <1>3. bytes \in Seq(Nat)
    BY <1>1, Fields
  <1>4. r = IF s.fin /\ s.eof /\ s.una = s.snd
              THEN [Closed EXCEPT !.conn = s.conn, !.snd = s.snd] ELSE s
    BY DEF Served
  <1>5. srv \in Servers
    BY DEF Types
  <1>6. data => m.seq = srv.rcv /\ ~srv.eof /\ m.data # 0
    OBVIOUS
  <1>7. /\ data => bytes = Append(srv.bytes, m.data) /\ (~eof => rcv = srv.rcv + 1)
        /\ ~data => bytes = srv.bytes /\ (~eof => rcv = srv.rcv)
    BY <1>2, Fields
  <1>8. una \in {m.ack, srv.una} /\ una = IF m.ack > srv.una THEN m.ack ELSE srv.una
    OBVIOUS
  <1> HIDE DEF una, rcv, eof, bytes, data
  <1>9. /\ s \in Servers /\ s.conn = srv.conn /\ s.snd = srv.snd /\ s.st = "open"
        /\ s.fin = srv.fin /\ s.una = una /\ s.rcv = rcv /\ s.eof = eof /\ s.bytes = bytes
    BY <1>2, <1>3, <1>5, Zenon DEF Servers
  <1>10. /\ c \in Servers /\ c.conn = srv.conn /\ c.snd = srv.snd /\ c.st = "listen"
         /\ c.una = 0 /\ c.fin = FALSE /\ c.bytes = <<>>
    <2>1. srv.conn \in Nat /\ srv.snd \in Nat
      BY Fields
    <2> QED
      BY <2>1, IdleServer, Zenon
  <1>11. r = IF srv.fin /\ eof /\ una = srv.snd THEN c ELSE s
    BY <1>4, <1>9 DEF Idle
  <1> HIDE DEF s, c
  <1>12. CASE srv.fin /\ eof /\ una = srv.snd
    BY <1>8, <1>10, <1>11, <1>12, Zenon
  <1>13. CASE ~(srv.fin /\ eof /\ una = srv.snd)
    <2>1. r = s
      BY <1>11, <1>13
    <2>2. CASE data
      BY <1>6, <1>7, <1>8, <1>9, <2>1, <2>2
    <2>3. CASE ~data
      BY <1>2, <1>7, <1>8, <1>9, <2>1, <2>3
    <2> QED
      BY <2>2, <2>3
  <1> QED
    BY <1>12, <1>13

\* The server sends a segment.
Answers(kind, s, a, d) ==
  \E n \in Segments : /\ n.kind = kind /\ n.seq = s /\ n.ack = a /\ n.data = d
                      /\ back' = Append(back, n)

\* A segment made and added to the queue.
LEMMA Answered ==
  ASSUME NEW k \in Kinds, NEW s \in Nat, NEW a \in Nat, NEW d \in Nat,
         back' = Append(back, Segment(k, s, a, d))
  PROVE  Answers(k, s, a, d)
  <1>1. PICK n \in Segments : /\ n = Segment(k, s, a, d) /\ n.kind = k /\ n.seq = s
                              /\ n.ack = a /\ n.data = d
    BY SegmentTypes
  <1>2. back' = Append(back, n)
    BY <1>1, Zenon
  <1> QED
    BY <1>1, <1>2 DEF Answers

\* The server at a segment.
LEMMA ServerReceives ==
  ASSUME Types, ServerReceive, NEW m, m = Head(wire)
  PROVE  /\ wire # <<>> /\ wire' = Tail(wire) /\ m \in Segments /\ srv' \in Servers
         /\ \/ /\ m.kind = "SYN" /\ srv.st = "listen"
               /\ Isn' = Isn + MaxData + 3
               /\ srv'.st = "syn_rcvd" /\ srv'.rcv = m.seq + 1 /\ srv'.snd = Isn' + 1
               /\ srv'.una = Isn' /\ ~srv'.fin /\ ~srv'.eof /\ srv'.bytes = <<>>
               /\ Answers("SYNACK", Isn', m.seq + 1, 0)
            \/ /\ m.kind = "SYN" /\ srv.st = "syn_rcvd" /\ srv' = srv
               /\ Answers("SYNACK", srv.una, srv.rcv, 0)
            \/ /\ srv' = srv \/ (Accepted(m) /\ srv' = Served(m))
               /\ back' = back \/ \E s, a \in Nat : Answers("ACK", s, a, 0)
  <1>1. wire # <<>> /\ wire' = Tail(wire) /\ wire \in Seq(Segments) /\ (ServeSyn(m) \/ Serve(m))
    BY DEF ServerReceive, Types
  <1>2. m \in Segments
    BY <1>1, FirstAndRest
  <1>3. m.seq \in Nat /\ {"SYNACK", "ACK"} \subseteq Kinds /\ 0 \in Nat
    BY <1>2 DEF Segments, Kinds
  <1>4. CASE ServeSyn(m) /\ srv.st = "listen"
    <2> DEFINE isn == Base * (srv.conn + 1)
    <2>1. isn \in Nat /\ isn = Isn + MaxData + 3
      <3>1. PICK n \in Nat : n = srv.conn
        BY Fields
      <3>2. Base * (n + 1) \in Nat /\ Base * (n + 1) = Base * n + MaxData + 3
        BY Bases, Zenon
      <3> QED
        BY <3>1, <3>2 DEF Isn
    <2>2. /\ srv' = [Closed EXCEPT !.st = "syn_rcvd", !.conn = srv.conn + 1,
                         !.rcv = m.seq + 1, !.snd = isn + 1, !.una = isn]
          /\ back' = Append(back, Segment("SYNACK", isn, m.seq + 1, 0))
      BY <1>4 DEF ServeSyn
    <2>3. srv'.conn = srv.conn + 1
      BY <2>2 DEF Closed
    <2>4. Isn' = isn
      BY <2>3 DEF Isn, Base
    <2> HIDE DEF isn
    <2>5. /\ srv' \in Servers /\ srv'.st = "syn_rcvd" /\ srv'.rcv = m.seq + 1
          /\ srv'.snd = isn + 1 /\ srv'.una = isn /\ srv'.fin = FALSE /\ srv'.eof = FALSE
          /\ srv'.bytes = <<>>
      <3>1. srv' = [st |-> "syn_rcvd", conn |-> srv.conn + 1, rcv |-> m.seq + 1,
                    snd |-> isn + 1, una |-> isn, fin |-> FALSE, eof |-> FALSE, bytes |-> <<>>]
        BY <2>2, Zenon DEF Closed
      <3>2. /\ srv.conn + 1 \in Nat /\ m.seq + 1 \in Nat /\ isn + 1 \in Nat /\ isn \in Nat
            /\ <<>> \in Seq(Nat)
        <4>1. \A n \in Nat : n + 1 \in Nat
          OBVIOUS
        <4>2. <<>> \in Seq(Nat)
          OBVIOUS
        <4> QED
          BY <1>3, <2>1, <4>1, <4>2, Fields, Zenon
      <3> QED
        BY <3>1, <3>2 DEF Servers
    <2>6. Answers("SYNACK", isn, m.seq + 1, 0)
      <3>1. m.seq + 1 \in Nat
        BY <1>3
      <3> QED
        BY <1>3, <2>1, <2>2, <3>1, Answered, Zenon
    <2> QED
      BY <1>1, <1>2, <1>4, <2>1, <2>4, <2>5, <2>6 DEF ServeSyn
  <1>5. CASE ServeSyn(m) /\ srv.st # "listen"
    <2>1. /\ m.kind = "SYN" /\ srv' = srv
          /\ back' = Append(back, IF srv.st = "syn_rcvd" THEN Segment("SYNACK", srv.una, srv.rcv, 0)
                                  ELSE Segment("ACK", srv.snd, srv.rcv, 0))
      BY <1>5 DEF ServeSyn
    <2>2. srv \in Servers
      BY Zenon DEF Types
    <2>3. CASE srv.st = "syn_rcvd"
      <3>1. Answers("SYNACK", srv.una, srv.rcv, 0)
        BY <1>3, <2>1, <2>3, Fields, Answered, Zenon
      <3> QED
        BY <1>1, <1>2, <2>1, <2>2, <2>3, <3>1
    <2>4. CASE srv.st # "syn_rcvd"
      <3>1. Answers("ACK", srv.snd, srv.rcv, 0)
        BY <1>3, <2>1, <2>4, Fields, Answered, Zenon
      <3> QED
        BY <1>1, <1>2, <2>1, <2>2, <3>1, Fields, Zenon
    <2> QED
      BY <2>3, <2>4
  <1>6. CASE Serve(m)
    <2>1. srv' = srv \/ (Accepted(m) /\ srv' = Served(m))
      BY <1>6 DEF Serve
    <2>2. srv' \in Servers
      BY <1>2, <2>1, ServedIs DEF Types
    <2>3. srv'.snd \in Nat /\ srv'.rcv \in Nat
      BY <2>2 DEF Servers
    <2>4. back' = back \/ back' = Append(back, Segment("ACK", srv'.snd, srv'.rcv, 0))
      BY <1>6 DEF Serve
    <2>5. back' = back \/ Answers("ACK", srv'.snd, srv'.rcv, 0)
      BY <1>3, <2>3, <2>4, Answered
    <2> QED
      BY <1>1, <1>2, <2>1, <2>2, <2>3, <2>5
  <1> QED
    BY <1>1, <1>4, <1>5, <1>6

\* The server sends a byte or the end of its stream.
LEMMA ServerSends ==
  ASSUME Types, ServerSend
  PROVE  /\ srv.st = "open" /\ ~srv.fin /\ srv' \in Servers
         /\ srv'.st = "open" /\ srv'.conn = srv.conn /\ srv'.rcv = srv.rcv
         /\ srv'.snd = srv.snd + 1 /\ srv'.una = srv.una /\ srv'.eof = srv.eof
         /\ srv'.bytes = srv.bytes
         /\ \/ /\ srv.snd < Isn + MaxData + 1 /\ ~srv'.fin
               /\ Answers("DATA", srv.snd, srv.rcv, srv.snd)
            \/ srv'.fin /\ Answers("FIN", srv.snd, srv.rcv, 0)
  <1>1. srv \in Servers /\ srv.st = "open" /\ srv.fin = FALSE /\ srv.snd \in Nat /\ srv.rcv \in Nat
        /\ {"DATA", "FIN"} \subseteq Kinds /\ 0 \in Nat
    BY Fields DEF Types, ServerSend, Kinds
  <1>2. CASE /\ srv.snd < Base * srv.conn + 1 + MaxData
             /\ back' = Append(back, Segment("DATA", srv.snd, srv.rcv, srv.snd))
             /\ srv' = [srv EXCEPT !.snd = @ + 1]
    <2>1. /\ srv' \in Servers
          /\ srv'.st = srv.st /\ srv'.conn = srv.conn /\ srv'.rcv = srv.rcv
          /\ srv'.snd = srv.snd + 1 /\ srv'.una = srv.una /\ srv'.eof = srv.eof
          /\ srv'.bytes = srv.bytes /\ srv'.fin = FALSE
      <3>1. srv' = [srv EXCEPT !.snd = @ + 1, !.fin = FALSE]
        BY <1>1, <1>2, Zenon DEF Servers
      <3> QED
        BY <1>1, <3>1, SentMore, Zenon
    <2>2. Answers("DATA", srv.snd, srv.rcv, srv.snd)
      BY <1>1, <1>2, Answered
    <2>3. srv.snd < Isn + MaxData + 1
      BY <1>2, Fields DEF Isn
    <2> QED
      BY <1>1, <2>1, <2>2, <2>3
  <1>3. CASE /\ back' = Append(back, Segment("FIN", srv.snd, srv.rcv, 0))
             /\ srv' = [srv EXCEPT !.snd = @ + 1, !.fin = TRUE]
    <2>1. /\ srv' \in Servers
          /\ srv'.st = srv.st /\ srv'.conn = srv.conn /\ srv'.rcv = srv.rcv
          /\ srv'.snd = srv.snd + 1 /\ srv'.una = srv.una /\ srv'.eof = srv.eof
          /\ srv'.bytes = srv.bytes /\ srv'.fin = TRUE
      BY <1>1, <1>3, SentMore, Zenon
    <2>2. Answers("FIN", srv.snd, srv.rcv, 0)
      BY <1>1, <1>3, Answered
    <2> QED
      BY <1>1, <2>1, <2>2
  <1> QED
    BY <1>2, <1>3 DEF ServerSend

\* The server repeats a segment.
LEMMA ServerResends ==
  ASSUME Types, ServerResend
  PROVE  /\ srv.st # "listen" /\ srv.una < srv.snd /\ resends' = resends + 1
         /\ \/ srv.una = Isn /\ Answers("SYNACK", srv.una, srv.rcv, 0)
            \/ (srv.una = Isn => srv.fin) /\ Answers("FIN", srv.una, srv.rcv, 0)
            \/ srv.una # Isn /\ Answers("DATA", srv.una, srv.rcv, srv.una)
  <1>1. srv.una \in Nat /\ srv.rcv \in Nat /\ {"SYNACK", "DATA", "FIN"} \subseteq Kinds /\ 0 \in Nat
    BY Fields DEF Kinds
  <1>2. \/ srv.una = Isn /\ back' = Append(back, Segment("SYNACK", srv.una, srv.rcv, 0))
        \/ /\ srv.una = Isn => srv.fin
           /\ back' = Append(back, Segment("FIN", srv.una, srv.rcv, 0))
        \/ srv.una # Isn /\ back' = Append(back, Segment("DATA", srv.una, srv.rcv, srv.una))
    <2>1. back' = Append(back,
             CASE srv.una = Isn -> Segment("SYNACK", srv.una, srv.rcv, 0)
               [] srv.fin /\ srv.una = srv.snd - 1 -> Segment("FIN", srv.una, srv.rcv, 0)
               [] OTHER -> Segment("DATA", srv.una, srv.rcv, srv.una))
      BY DEF ServerResend, Isn
    <2>2. CASE srv.una = Isn /\ ~(srv.fin /\ srv.una = srv.snd - 1)
      BY <2>1, <2>2
    <2>3. CASE srv.fin /\ srv.una = srv.snd - 1
      BY <2>1, <2>3
    <2>4. CASE srv.una # Isn /\ ~(srv.fin /\ srv.una = srv.snd - 1)
      BY <2>1, <2>4
    <2> QED
      BY <2>2, <2>3, <2>4
  <1>3. \A k \in {"SYNACK", "DATA", "FIN"}, d \in Nat :
          back' = Append(back, Segment(k, srv.una, srv.rcv, d)) => Answers(k, srv.una, srv.rcv, d)
    BY <1>1, Answered
  <1> QED
    BY <1>1, <1>2, <1>3 DEF ServerResend

\* The queue back of what the server sends, one segment longer.
LEMMA AnswersIs ==
  ASSUME Types, NEW k, NEW s, NEW a, NEW d, Answers(k, s, a, d)
  PROVE  /\ back' \in Seq(Segments) /\ Len(back') = Len(back) + 1
         /\ back'[Len(back) + 1].kind = k /\ back'[Len(back) + 1].seq = s
         /\ back'[Len(back) + 1].ack = a /\ back'[Len(back) + 1].data = d
         /\ \A i \in 1..Len(back) : back'[i] = back[i]
         /\ \A i \in 1..Len(back') : i \in 1..Len(back) \/ i = Len(back) + 1
  <1>1. PICK n \in Segments : /\ n.kind = k /\ n.seq = s /\ n.ack = a /\ n.data = d
                              /\ back' = Append(back, n)
    BY DEF Answers
  <1>2. back \in Seq(Segments)
    BY DEF Types
  <1> QED
    BY <1>1, <1>2, Added

\* The network and the server keep the types.
LEMMA ServerTypes ==
  ASSUME Types, Lose \/ ServerReceive \/ ServerSend \/ ServerResend
  PROVE  Types'
  <1>1. wire \in Seq(Segments) /\ back \in Seq(Segments) /\ losses \in Nat /\ resends \in Nat
    BY DEF Types
  <1>2. UNCHANGED <<seq, ack, rx, out, clobber, first, got, connects, sends>>
    BY DEF Lose, ServerReceive, ServerSend, ServerResend, socket, reading
  <1>3. losses' \in Nat /\ resends' \in Nat
    BY <1>1 DEF Lose, ServerReceive, ServerSend, ServerResend, server
  <1>4. srv' \in Servers
    <2>1. CASE Lose \/ ServerResend
      BY <2>1 DEF Types, Lose, ServerResend, server
    <2> QED
      BY <2>1, ServerReceives, ServerSends
  <1>5. wire' \in Seq(Segments) /\ back' \in Seq(Segments)
    <2>1. CASE Lose
      BY <1>1, <2>1, FirstAndRest, Zenon DEF Lose
    <2>2. CASE ServerReceive
      <3>1. wire' \in Seq(Segments)
        BY <1>1, <2>2, ServerReceives, FirstAndRest, Zenon
      <3>2. back' = back \/ \E k, s, a, d : Answers(k, s, a, d)
        BY <2>2, ServerReceives
      <3> QED
        BY <1>1, <3>1, <3>2, AnswersIs
    <2>3. CASE ServerSend \/ ServerResend
      <3>1. \E k, s, a, d : Answers(k, s, a, d)
        BY <2>3, ServerSends, ServerResends
      <3> QED
        BY <1>1, <2>3, <3>1, AnswersIs DEF ServerSend, ServerResend
    <2> QED
      BY <2>1, <2>2, <2>3
  <1> QED
    BY <1>2, <1>3, <1>4, <1>5 DEF Types

-----------------------------------------------------------------------------
(***************************************************************************)
(* What the socket acknowledges.                                           *)
(***************************************************************************)

\* The numbers of a connection change with the connection only.
LEMMA IsnKept ==
  ASSUME srv'.conn = srv.conn
  PROVE  Isn' = Isn
  BY DEF Isn, Base

\* A bound may be raised.
LEMMA AcksMore ==
  ASSUME Types, NEW b \in Nat, NEW c \in Nat, b <= c, AcksUpTo(b)
  PROVE  AcksUpTo(c)
  <1>1. /\ \A i \in 1..Len(clobber) : clobber[i].ack \in Nat
        /\ \A i \in 1..Len(wire) : wire[i].ack \in Nat
    BY Elements DEF Types
  <1>2. ack \in Nat /\ out.seg.ack \in Nat
    BY Fields DEF Types
  <1> QED
    BY <1>1, <1>2 DEF AcksUpTo

\* A call acknowledges nothing new (tcp.cpp:33-54).
LEMMA ProgramAcks ==
  ASSUME Types, Program, NEW b \in Nat, AcksUpTo(b)
  PROVE  AcksUpTo(b)'
  <1>1. CASE Connect \/ ConnectAck
    BY <1>1 DEF AcksUpTo, Connect, ConnectAck, network
  <1>2. CASE ConnectState \/ Send \/ Close
    <2>1. sends + 1 \in Nat /\ 0 \in Nat /\ {"SYN", "DATA", "FIN"} \subseteq Kinds
      BY DEF Types, Kinds
    <2>2. \E kind \in Kinds, d \in Nat : Begin(kind, d, "out")
      BY <1>2, <2>1 DEF ConnectState, Send, Close
    <2>3. out'.seg.ack = 0
      BY <2>2, OutIs
    <2>4. UNCHANGED <<ack, clobber, wire>>
      BY <1>2 DEF ConnectState, Send, Close, socket, network
    <2> QED
      BY <2>3, <2>4 DEF AcksUpTo
  <1>3. CASE Build
    <2>1. out'.seg.ack = ack /\ clobber' = <<>> /\ UNCHANGED <<ack, wire>>
      BY <1>3, OutIs DEF Build, socket, network
    <2>2. Len(clobber') = 0
      BY <2>1
    <2> QED
      BY <2>1, <2>2 DEF AcksUpTo
  <1>4. CASE Load
    <2>1. out'.seg.ack = out.seg.ack /\ UNCHANGED <<ack, clobber, wire>>
      BY <1>4, OutIs DEF Load, socket, network
    <2> QED
      BY <2>1 DEF AcksUpTo
  <1>5. CASE Transmit
    <2>1. clobber' = <<>> /\ UNCHANGED <<ack, out>>
      BY <1>5 DEF Transmit, socket
    <2>2. Len(clobber') = 0
      BY <2>1
    <2>3. \A k \in 1..Len(wire') :
            \/ k \in 1..Len(wire) /\ wire'[k] = wire[k]
            \/ wire'[k].ack \in {out.seg.ack, ack}
            \/ Len(clobber) = 1 /\ wire'[k].ack = clobber[1].ack
      BY <1>5, TransmitIs
    <2>4. \A k \in 1..Len(wire') : wire'[k].ack <= b
      BY <2>3 DEF AcksUpTo
    <2> QED
      BY <2>1, <2>2, <2>4 DEF AcksUpTo
  <1>6. CASE Advance
    <2>1. out' = NoOut /\ UNCHANGED <<ack, clobber, wire>>
      BY <1>6 DEF Advance, network
    <2>2. out'.seg.ack = 0
      BY <2>1, OutIs
    <2> QED
      BY <2>1, <2>2 DEF AcksUpTo
  <1>7. CASE RecvStart \/ RecvEmpty \/ RecvSecond \/ RecvClear \/ RecvLen \/ RecvWaited
    <2>1. UNCHANGED <<ack, out, clobber, wire>>
      BY <1>7, Zenon DEF RecvStart, RecvEmpty, RecvSecond, RecvClear, RecvLen, RecvWaited, socket, network
    <2> QED
      BY <2>1 DEF AcksUpTo
  <1> QED
    BY <1>1, <1>2, <1>3, <1>4, <1>5, <1>6, <1>7, Zenon DEF Program

\* The handler acknowledges what it is given (tcp.cpp:96, 106, 111, 134).
LEMMA HandlerAcks ==
  ASSUME Types, HandleIPv4Payload, NEW b \in Nat, AcksUpTo(b),
         back[1].kind # "ACK" => back[1].seq < b
  PROVE  AcksUpTo(b)'
  <1>1. back # <<>> /\ Handled(Head(back)) /\ back \in Seq(Segments) /\ out' = out
    BY DEF HandleIPv4Payload, Handled, Types
  <1>2. Head(back) = back[1] /\ back[1] \in Segments
    BY <1>1, Taken
  <1>3. back[1].seq \in Nat
    BY <1>2 DEF Segments
  <1>4. ack' = ack \/ (back[1].kind \in {"SYNACK", "DATA", "FIN"} /\ ack' = back[1].seq + 1)
    BY <1>1, <1>2, HandlerIs
  <1>5. ack' <= b
    BY <1>3, <1>4 DEF AcksUpTo
  <1>6. /\ \A k \in 1..Len(wire') : (k \in 1..Len(wire) /\ wire'[k] = wire[k]) \/ wire'[k].ack = ack'
        /\ \A i \in 1..Len(clobber') :
             (i \in 1..Len(clobber) /\ clobber'[i] = clobber[i]) \/ clobber'[i].ack = ack'
    BY HandlerSends DEF Reply
  <1> QED
    BY <1>1, <1>5, <1>6, Zenon DEF AcksUpTo

\* Neither the network nor the server acknowledges anything for the socket.
LEMMA ServerAcks ==
  ASSUME Types, Lose \/ ServerReceive \/ ServerSend \/ ServerResend, NEW b \in Nat, AcksUpTo(b)
  PROVE  AcksUpTo(b)'
  <1>1. UNCHANGED <<ack, out, clobber>>
    BY DEF Lose, ServerReceive, ServerSend, ServerResend, socket
  <1>2. wire' = wire \/ (wire # <<>> /\ wire' = Tail(wire))
    BY DEF Lose, ServerReceive, ServerSend, ServerResend
  <1>3. wire \in Seq(Segments)
    BY DEF Types
  <1>4. \A k \in 1..Len(wire') : \E i \in 1..Len(wire) : wire'[k] = wire[i]
    BY <1>2, <1>3, Taken
  <1> QED
    BY <1>1, <1>4 DEF AcksUpTo

\* The server changes in its own steps only.
LEMMA ServerAlone ==
  ASSUME Next
  PROVE  srv' = srv \/ ServerSend \/ ServerReceive
  BY DEF Next, Program, Connect, ConnectAck, ConnectState, Send, Close, Build, Transmit, Load,
     Advance, RecvStart, RecvEmpty, RecvSecond, RecvClear, RecvLen, RecvWaited,
     HandleIPv4Payload, Lose, ServerResend, server

\* The numbers of the server's connection stay in their range.
LEMMA ServerNumbers ==
  ASSUME Types, ServerInv, Next
  PROVE  ServerInv'
  <1>1. CASE srv' = srv
    BY <1>1, IsnKept DEF ServerInv
  <1>2. CASE ServerSend
    <2>1. Isn' = Isn
      BY <1>2, ServerSends, IsnKept, Zenon
    <2> QED
      <3>1. /\ srv.st = "open" /\ ~srv.fin /\ srv'.st = "open"
            /\ srv'.snd = srv.snd + 1 /\ srv'.una = srv.una
            /\ ~srv'.fin => srv.snd < Isn + MaxData + 1
        BY <1>2, ServerSends
      <3>2. /\ srv.una <= srv.snd /\ srv.snd <= Isn + MaxData + 1 /\ Isn < srv.una
            /\ srv.una \in Nat /\ srv.snd \in Nat /\ Isn \in Nat /\ MaxData \in Nat
        BY <3>1, Fields DEF ServerInv
      <3>3. /\ srv'.una <= srv'.snd /\ srv'.snd <= Isn' + MaxData + 2 /\ Isn' < srv'.una
            /\ Isn' + 1 < srv'.snd
            /\ ~srv'.fin => srv'.snd <= Isn' + MaxData + 1
        BY <2>1, <3>1, <3>2
      <3> QED
        BY ONLY <3>1, <3>3 DEF ServerInv
  <1>3. CASE ServerReceive
    <2> DEFINE m == Head(wire)
    <2>1. m \in Segments
      BY <1>3, ServerReceives
    <2>2. m.ack \in Nat
      BY <2>1 DEF Segments
    <2> HIDE DEF m
    <2>3. CASE srv' = Served(m) /\ Accepted(m)
      <3>1. /\ srv'.conn = srv.conn /\ srv'.snd = srv.snd
            /\ \/ /\ srv'.st = "listen" /\ srv'.una = 0 /\ ~srv'.fin
               \/ /\ srv'.st = "open" /\ srv'.fin = srv.fin
                  /\ srv'.una = (IF m.ack > srv.una THEN m.ack ELSE srv.una)
        BY <2>1, <2>3, ServedIs
      <3>2. Isn' = Isn
        BY <3>1, IsnKept
      <3>3. srv.st # "listen" /\ m.ack <= srv.snd /\ (srv.st = "syn_rcvd" => m.ack > srv.una)
        BY <2>3, Zenon DEF Accepted
      <3>4. CASE srv'.st = "listen" /\ srv'.una = 0 /\ ~srv'.fin
        BY <3>1, <3>2, <3>4, Fields DEF ServerInv
      <3>5. CASE srv'.st = "open" /\ srv'.fin = srv.fin
                 /\ srv'.una = (IF m.ack > srv.una THEN m.ack ELSE srv.una)
        BY <2>2, <3>1, <3>2, <3>3, <3>5, Fields DEF ServerInv
      <3> QED
        BY <3>1, <3>4, <3>5
    <2>4. CASE /\ Isn' = Isn + MaxData + 3
               /\ srv'.st = "syn_rcvd" /\ srv'.snd = Isn' + 1
               /\ srv'.una = Isn' /\ ~srv'.fin /\ ~srv'.eof /\ srv'.bytes = <<>>
      <3>1. Isn' \in Nat /\ MaxData \in Nat
        BY <2>4, Fields
      <3>2. /\ srv'.una <= srv'.snd /\ srv'.snd <= Isn' + MaxData + 2
            /\ srv'.snd <= Isn' + MaxData + 1
        BY <2>4, <3>1
      <3> QED
        BY ONLY <2>4, <3>2 DEF ServerInv
    <2> QED
      BY <1>1, <1>3, <2>3, <2>4, ServerReceives DEF m
  <1> QED
    BY <1>1, <1>2, <1>3, ServerAlone

\* The segments under way to the socket: the handler takes the first, the network may
\* lose it, and the server is not concerned.
LEMMA BackIs ==
  ASSUME Types, Program \/ HandleIPv4Payload \/ Lose
  PROVE  /\ srv' = srv
         /\ HandleIPv4Payload =>
              /\ 1 \in 1..Len(back)
              /\ \A k \in 1..Len(back') : back'[k] = back[k + 1] /\ k + 1 \in 1..Len(back)
         /\ \/ back' = back
            \/ \A k \in 1..Len(back') : back'[k] = back[k + 1] /\ k + 1 \in 1..Len(back)
  <1>1. back \in Seq(Segments)
    BY DEF Types
  <1>2. CASE HandleIPv4Payload \/ (Lose /\ back' # back)
    <2>1. back # <<>> /\ back' = Tail(back)
      BY <1>2 DEF HandleIPv4Payload, Lose
    <2>2. \A k \in 1..Len(back') : back'[k] = back[k + 1] /\ k + 1 \in 1..Len(back)
      BY <1>1, <2>1, Taken
    <2>3. srv' = srv /\ 1 \in 1..Len(back)
      BY <1>1, <1>2, <2>1, Taken, Zenon DEF HandleIPv4Payload, Lose, server
    <2> QED
      BY <2>2, <2>3
  <1>3. Program => back' = back /\ srv' = srv
    BY DEF Program, Connect, ConnectAck, ConnectState, Send, Close, Build, Transmit, Load,
       Advance, RecvStart, RecvEmpty, RecvSecond, RecvClear, RecvLen, RecvWaited, network, server
  <1>4. HandleIPv4Payload \/ Lose => srv' = srv
    BY DEF HandleIPv4Payload, Lose, server
  <1>5. HandleIPv4Payload =>
          /\ 1 \in 1..Len(back)
          /\ \A k \in 1..Len(back') : back'[k] = back[k + 1] /\ k + 1 \in 1..Len(back)
    BY <1>1, Taken DEF HandleIPv4Payload
  <1> QED
    BY <1>2, <1>3, <1>4, <1>5

\* The server's next number only grows, and what it adds to the queue is behind it.
LEMMA ServerGrows ==
  ASSUME Types, ServerInv, ServerReceive \/ ServerSend \/ ServerResend
  PROVE  /\ srv'.snd \in Nat /\ srv.snd <= srv'.snd
         /\ \/ back' = back
            \/ \E k, s, a, d : Answers(k, s, a, d) /\ (k # "ACK" => s \in Nat /\ s < srv'.snd)
  <1>1. CASE ServerReceive
    <2> DEFINE m == Head(wire)
    <2>1. m \in Segments
      BY <1>1, ServerReceives
    <2> HIDE DEF m
    <2>2. CASE /\ Isn' = Isn + MaxData + 3 /\ srv'.snd = Isn' + 1
               /\ Answers("SYNACK", Isn', m.seq + 1, 0)
      <3>1. /\ Isn \in Nat /\ MaxData \in Nat /\ srv.snd \in Nat /\ srv.snd <= Isn + MaxData + 2
        BY Fields DEF ServerInv
      <3>2. Isn' \in Nat /\ srv'.snd \in Nat /\ Isn' < srv'.snd /\ srv.snd <= srv'.snd
        BY <2>2, <3>1
      <3> QED
        BY <2>2, <3>2
    <2>3. CASE srv.st = "syn_rcvd" /\ srv' = srv /\ Answers("SYNACK", srv.una, srv.rcv, 0)
      <3>1. srv.una \in Nat /\ srv.snd \in Nat /\ srv.una < srv.snd
        BY <2>3, Fields DEF ServerInv
      <3> QED
        BY <2>3, <3>1
    <2>4. CASE /\ srv' = srv \/ srv' = Served(m)
               /\ back' = back \/ \E s, a \in Nat : Answers("ACK", s, a, 0)
      <3>1. srv'.snd = srv.snd
        BY <2>1, <2>4, ServedIs, Zenon
      <3> QED
        BY <2>4, <3>1, Fields
    <2> QED
      BY <1>1, <2>2, <2>3, <2>4, ServerReceives, Zenon DEF m
  <1>2. CASE ServerSend
    <2>1. srv'.snd = srv.snd + 1 /\ \E k, a, d : Answers(k, srv.snd, a, d)
      BY <1>2, ServerSends
    <2> QED
      BY <2>1, Fields
  <1>3. CASE ServerResend
    <2>1. srv.una < srv.snd /\ \E k, a, d : Answers(k, srv.una, a, d)
      BY <1>3, ServerResends
    <2>2. srv' = srv
      BY <1>3 DEF ServerResend
    <2> QED
      BY <2>1, <2>2, Fields
  <1> QED
    BY <1>1, <1>2, <1>3

\* Nothing acknowledges what the server has not sent, whatever a step does.
LEMMA AcksKept ==
  ASSUME Types, ServerInv, AckInv, Next
  PROVE  AckInv'
  <1>1. PICK b \in Nat : b = srv.snd
    BY Fields
  <1>2. AcksUpTo(b) /\ back \in Seq(Segments)
    BY <1>1 DEF AckInv, Types
  <1>3. Types'
    BY ProgramTypes, HandlerTypes, ServerTypes DEF Next
  <1>4. CASE Program \/ HandleIPv4Payload \/ Lose
    <2>1. srv' = srv /\ (HandleIPv4Payload => 1 \in 1..Len(back))
      BY <1>4, BackIs
    <2>2. AcksUpTo(b)'
      BY <1>1, <1>2, <1>4, <2>1, ProgramAcks, HandlerAcks, ServerAcks DEF AckInv
    <2>3. \A k \in 1..Len(back') : \E i \in 1..Len(back) : back'[k] = back[i]
      BY <1>4, BackIs
    <2> QED
      BY <1>1, <2>1, <2>2, <2>3, Zenon DEF AckInv
  <1>5. CASE ServerReceive \/ ServerSend \/ ServerResend
    <2>1. PICK c \in Nat : c = srv'.snd
      BY <1>5, ServerGrows
    <2>2. AcksUpTo(b)'
      BY <1>2, <1>5, ServerAcks
    <2>3. b <= c
      BY <1>1, <1>5, <2>1, ServerGrows
    <2>4. AcksUpTo(c)'
      <3>1. /\ \A i \in 1..Len(clobber') : clobber'[i].ack \in Nat
            /\ \A i \in 1..Len(wire') : wire'[i].ack \in Nat
            /\ ack' \in Nat /\ out'.seg.ack \in Nat
        <4>1. clobber' \in Seq(Segments) /\ wire' \in Seq(Segments) /\ ack' \in Nat
              /\ out'.seg \in Segments
          BY <1>3 DEF Types
        <4> QED
          BY <4>1, Elements, Zenon DEF Segments
      <3> QED
        BY <2>2, <2>3, <3>1 DEF AcksUpTo
    <2>5. \A k \in 1..Len(back) : back[k].kind # "ACK" => back[k].seq < c
      <3>1. \A k \in 1..Len(back) : back[k].seq \in Nat
        BY <1>2, Elements
      <3> QED
        BY <1>1, <2>3, <3>1 DEF AckInv
    <2>6. CASE back' = back
      BY <2>1, <2>4, <2>5, <2>6 DEF AckInv
    <2>7. ASSUME NEW k, NEW s, NEW a, NEW d, Answers(k, s, a, d), k # "ACK" => s < c
          PROVE  AckInv'
      <3>1. /\ back'[Len(back) + 1].kind = k /\ back'[Len(back) + 1].seq = s
            /\ \A i \in 1..Len(back) : back'[i] = back[i]
            /\ \A i \in 1..Len(back') : i \in 1..Len(back) \/ i = Len(back) + 1
        BY <2>7, AnswersIs
      <3>2. \A i \in 1..Len(back') : back'[i].kind # "ACK" => back'[i].seq < c
        BY <2>5, <2>7, <3>1
      <3> QED
        BY <2>1, <2>4, <3>2 DEF AckInv
    <2> QED
      BY <1>5, <2>1, <2>6, <2>7, ServerGrows
  <1> QED
    BY <1>4, <1>5 DEF Next

\* While an answer to a SYN is under way the server keeps its connection.
LEMMA ConnectionKept ==
  ASSUME Types, ServerInv, SynAckInv, ServerReceive \/ ServerSend \/ ServerResend,
         NEW k \in 1..Len(back), back[k].kind = "SYNACK"
  PROVE  srv'.st # "listen" /\ Isn' = Isn /\ srv'.una <= Isn + 1
  <1>1. srv.st # "listen" /\ AcksUpTo(Isn + 1) /\ srv.una <= Isn + 1
    BY DEF SynAckInv
  <1>2. CASE ServerSend
    BY <1>1, <1>2, ServerSends, IsnKept
  <1>3. CASE srv' = srv
    BY <1>1, <1>3, IsnKept
  <1>4. CASE ServerReceive /\ srv' # srv
    <2> DEFINE m == Head(wire)
    <2>1. m \in Segments /\ Accepted(m) /\ srv' = Served(m) /\ wire # <<>>
      BY <1>1, <1>4, ServerReceives, Zenon
    <2>2. m = wire[1] /\ 1 \in 1..Len(wire)
      BY <2>1, Taken, Zenon DEF Types
    <2>3. m.ack \in Nat /\ m.ack <= Isn + 1
      BY <1>1, <2>1, <2>2, Zenon DEF Segments, AcksUpTo
    <2> HIDE DEF m
    <2>4. /\ srv'.conn = srv.conn
          /\ \/ srv'.st = "listen" /\ srv.fin /\ (m.ack = srv.snd \/ srv.una = srv.snd)
             \/ srv'.st = "open" /\ srv'.una = (IF m.ack > srv.una THEN m.ack ELSE srv.una)
      BY <2>1, ServedIs
    <2>5. srv.fin => srv.st = "open" /\ Isn + 1 < srv.snd
      BY <1>1, Fields, Zenon DEF ServerInv
    <2>6. ~(srv.fin /\ (m.ack = srv.snd \/ srv.una = srv.snd))
      BY <1>1, <2>3, <2>5, Fields
    <2>7. srv'.st = "open" /\ srv'.una <= Isn + 1
      BY <1>1, <2>3, <2>4, <2>6
    <2> QED
      BY <2>4, <2>7, IsnKept, Zenon
  <1> QED
    BY <1>2, <1>3, <1>4 DEF ServerResend

\* What the server adds to the queue: an answer to a SYN only on a connection on which
\* nothing else has been sent.
LEMMA SynAckAdded ==
  ASSUME Types, ServerInv, ServerReceive \/ ServerSend \/ ServerResend
  PROVE  \/ back' = back
         \/ \E k, s, a, d :
              /\ Answers(k, s, a, d)
              /\ k = "SYNACK" => /\ s = Isn' /\ Isn' \in Nat /\ srv'.st # "listen"
                                 /\ srv.snd <= Isn' + 1 /\ srv'.una <= Isn' + 1
  <1>1. CASE ServerReceive
    <2> DEFINE m == Head(wire)
    <2>1. CASE /\ Isn' = Isn + MaxData + 3 /\ srv'.st = "syn_rcvd" /\ srv'.una = Isn'
               /\ Answers("SYNACK", Isn', m.seq + 1, 0)
      <3>1. /\ Isn \in Nat /\ MaxData \in Nat /\ srv.snd \in Nat /\ srv.snd <= Isn + MaxData + 2
        BY Fields DEF ServerInv
      <3>2. Isn' \in Nat /\ srv.snd <= Isn' + 1 /\ Isn' <= Isn' + 1
        BY <2>1, <3>1
      <3> QED
        BY <2>1, <3>2
    <2>2. CASE srv.st = "syn_rcvd" /\ srv' = srv /\ Answers("SYNACK", srv.una, srv.rcv, 0)
      <3>1. srv.una = Isn /\ srv.snd = Isn + 1 /\ Isn \in Nat /\ Isn' = Isn
        BY <2>2, Fields, IsnKept DEF ServerInv
      <3>2. srv.snd <= Isn' + 1 /\ srv.una <= Isn' + 1
        BY <3>1
      <3> QED
        BY <2>2, <3>1, <3>2, Zenon
    <2>3. CASE back' = back \/ \E s, a \in Nat : Answers("ACK", s, a, 0)
      BY <2>3
    <2> QED
      BY <1>1, <2>1, <2>2, <2>3, ServerReceives
  <1>2. CASE ServerSend
    BY <1>2, ServerSends
  <1>3. CASE ServerResend
    <2>1. CASE srv.una = Isn /\ srv.st # "listen" /\ Answers("SYNACK", srv.una, srv.rcv, 0)
      <3>1. srv' = srv /\ srv.st = "syn_rcvd"
        BY <1>3, <2>1, Fields DEF ServerInv, ServerResend
      <3>2. srv.una = Isn /\ srv.snd = Isn + 1 /\ Isn \in Nat /\ Isn' = Isn
        BY <3>1, Fields, IsnKept DEF ServerInv
      <3>3. srv.snd <= Isn' + 1 /\ srv.una <= Isn' + 1
        BY <3>2
      <3> QED
        BY <2>1, <3>1, <3>2, <3>3, Zenon
    <2>2. CASE \E k, s, a, d : k \in {"FIN", "DATA"} /\ Answers(k, s, a, d)
      BY <2>2
    <2> QED
      BY <1>3, <2>1, <2>2, ServerResends
  <1> QED
    BY <1>1, <1>2, <1>3, Zenon

\* An answer to a SYN stays the first that counts on its connection.
LEMMA SynAcksKept ==
  ASSUME Types, ServerInv, AckInv, SynAckInv, Next
  PROVE  SynAckInv'
  <1> SUFFICES ASSUME NEW k \in 1..Len(back'), back'[k].kind = "SYNACK"
               PROVE  /\ srv'.st # "listen" /\ back'[k].seq = Isn'
                      /\ AcksUpTo(Isn + 1)' /\ srv'.una <= Isn' + 1
                      /\ \A j \in 1..(k - 1) : back'[j].kind # "ACK" => back'[j].seq <= Isn'
    BY DEF SynAckInv
  <1>1. PICK n \in Nat : n = Isn
    BY Fields
  <1>2. back \in Seq(Segments)
    BY DEF Types
  <1>3. Len(back) \in Nat /\ \A i \in 1..Len(back) : back[i].seq \in Nat
    BY <1>2, Elements
  <1>4. CASE Program \/ HandleIPv4Payload \/ Lose
    <2>1. srv' = srv /\ Isn' = n
      BY <1>1, <1>4, BackIs, IsnKept, Zenon
    <2>2. /\ back' = back \/ \A i \in 1..Len(back') : back'[i] = back[i + 1] /\ i + 1 \in 1..Len(back)
          /\ HandleIPv4Payload =>
               /\ 1 \in 1..Len(back)
               /\ \A i \in 1..Len(back') : back'[i] = back[i + 1] /\ i + 1 \in 1..Len(back)
      BY <1>4, BackIs
    <2>3. Len(back') \in Nat
      <3>1. back' \in Seq(Segments)
        BY <1>4, ProgramTypes, HandlerTypes, ServerTypes DEF Types
      <3> QED
        BY <3>1
    <2>4. PICK i \in 1..Len(back) :
            /\ back'[k] = back[i]
            /\ \A j \in 1..(k - 1) : \E l \in 1..(i - 1) : back'[j] = back[l]
            /\ HandleIPv4Payload => 1 \in 1..(i - 1)
      <3>1. CASE back' = back /\ ~HandleIPv4Payload
        BY <3>1
      <3>2. CASE \A i \in 1..Len(back') : back'[i] = back[i + 1] /\ i + 1 \in 1..Len(back)
        <4>1. back'[k] = back[k + 1] /\ k + 1 \in 1..Len(back)
          BY <3>2
        <4>2. \A j \in 1..(k - 1) : back'[j] = back[j + 1] /\ j + 1 \in 1..((k + 1) - 1)
          BY <2>3, <3>2
        <4>3. 1 \in 1..((k + 1) - 1)
          BY <2>3
        <4> QED
          BY <4>1, <4>2, <4>3
      <3> QED
        BY <2>2, <3>1, <3>2, Zenon
    <2>5. /\ srv.st # "listen" /\ back[i].seq = n /\ AcksUpTo(n + 1) /\ srv.una <= n + 1
          /\ \A j \in 1..(i - 1) : back[j].kind # "ACK" => back[j].seq <= n
      BY <1>1, <2>4, Zenon DEF SynAckInv
    <2>6. AcksUpTo(n + 1)'
      <3>1. HandleIPv4Payload => (back[1].kind # "ACK" => back[1].seq < n + 1)
        BY <1>3, <2>2, <2>4, <2>5
      <3>2. n + 1 \in Nat
        OBVIOUS
      <3> QED
        BY <1>4, <2>5, <3>1, <3>2, ProgramAcks, HandlerAcks, ServerAcks, Zenon
    <2>7. AcksUpTo(Isn + 1)'
      BY <2>1, <2>6, Zenon DEF AcksUpTo
    <2> QED
      BY <2>1, <2>4, <2>5, <2>7, Zenon
  <1>5. CASE ServerReceive \/ ServerSend \/ ServerResend
    <2>1. CASE k \in 1..Len(back) /\ \A i \in 1..k : back'[i] = back[i]
      <3>1. back[k].kind = "SYNACK" /\ \A j \in 1..(k - 1) : back'[j] = back[j]
        BY <1>3, <2>1
      <3>2. /\ back[k].seq = n /\ AcksUpTo(n + 1)
            /\ \A j \in 1..(k - 1) : back[j].kind # "ACK" => back[j].seq <= n
        BY <1>1, <2>1, <3>1 DEF SynAckInv
      <3>3. srv'.st # "listen" /\ Isn' = n /\ srv'.una <= n + 1
        BY <1>1, <1>5, <2>1, <3>1, ConnectionKept
      <3>4. AcksUpTo(n + 1)'
        <4>1. n + 1 \in Nat
          OBVIOUS
        <4> QED
          BY <1>5, <3>2, <4>1, ServerAcks
      <3>5. AcksUpTo(Isn + 1)'
        BY <3>3, <3>4 DEF AcksUpTo
      <3>6. back'[k].seq = n
        BY <1>3, <2>1, <3>2
      <3> QED
        BY <3>1, <3>2, <3>3, <3>5, <3>6
    <2>2. CASE back' = back
      BY <1>3, <2>1, <2>2
    <2>3. ASSUME NEW kk, NEW s, NEW a, NEW d, Answers(kk, s, a, d),
                 kk = "SYNACK" => /\ s = Isn' /\ Isn' \in Nat /\ srv'.st # "listen"
                                  /\ srv.snd <= Isn' + 1 /\ srv'.una <= Isn' + 1
          PROVE  /\ srv'.st # "listen" /\ back'[k].seq = Isn'
                 /\ AcksUpTo(Isn + 1)' /\ srv'.una <= Isn' + 1
                 /\ \A j \in 1..(k - 1) : back'[j].kind # "ACK" => back'[j].seq <= Isn'
      <3>1. /\ back'[Len(back) + 1].kind = kk /\ back'[Len(back) + 1].seq = s
            /\ \A i \in 1..Len(back) : back'[i] = back[i]
            /\ k \in 1..Len(back) \/ k = Len(back) + 1
        BY <2>3, AnswersIs, Zenon
      <3>2. CASE k \in 1..Len(back)
        <4>1. \A i \in 1..k : back'[i] = back[i]
          BY <1>3, <3>1, <3>2
        <4> QED
          BY <2>1, <3>2, <4>1
      <3>3. CASE k = Len(back) + 1
        <4>1. /\ back'[k].seq = Isn' /\ Isn' \in Nat /\ srv'.st # "listen"
              /\ srv.snd <= Isn' + 1 /\ srv'.una <= Isn' + 1
          BY <2>3, <3>1, <3>3
        <4>2. PICK b \in Nat : b = Isn' + 1
          BY <4>1
        <4>3. AcksUpTo(b)
          BY <4>1, <4>2, Fields, AcksMore DEF AckInv
        <4>4. AcksUpTo(b)'
          BY <1>5, <4>3, ServerAcks
        <4>5. AcksUpTo(Isn + 1)'
          BY <4>2, <4>4 DEF AcksUpTo
        <4>6. ASSUME NEW j \in 1..(k - 1), back'[j].kind # "ACK"
              PROVE  back'[j].seq <= Isn'
          <5>1. j \in 1..Len(back)
            BY <1>3, <3>3
          <5>2. back'[j] = back[j] /\ back[j].seq \in Nat
            BY <1>3, <3>1, <5>1
          <5>3. back[j].seq < srv.snd
            BY <4>6, <5>1, <5>2 DEF AckInv
          <5>4. \A x, y, z \in Nat : x < y /\ y <= z + 1 => x <= z
            OBVIOUS
          <5>5. back[j].seq <= Isn'
            BY <4>1, <5>2, <5>3, <5>4, Fields, Zenon
          <5> QED
            BY <5>2, <5>5
        <4> QED
          BY <4>1, <4>5, <4>6
      <3> QED
        BY <3>1, <3>2, <3>3, Zenon
    <2> QED
      BY <1>5, <2>2, <2>3, SynAckAdded
  <1> QED
    BY <1>4, <1>5 DEF Next

\* The inductive invariant of what is acknowledged and of who is connected.
NumbersInv == Types /\ ServerInv /\ AckInv /\ SynAckInv

\* It holds at first and every step keeps it.
LEMMA AlwaysNumbers == Spec => []NumbersInv
  <1>1. Init => NumbersInv
    <2> SUFFICES ASSUME Init
                 PROVE  NumbersInv
      OBVIOUS
    <2>1. Types
      BY DEF Init, Types, Closed, Servers, NoOut, Segment, Segments, Kinds
    <2>2. /\ srv.st = "listen" /\ srv.snd = 0 /\ srv.una = 0 /\ srv.fin = FALSE
          /\ ack = 0 /\ out.seg.ack = 0 /\ Len(clobber) = 0 /\ Len(wire) = 0 /\ Len(back) = 0
      BY DEF Init, Closed, NoOut, Segment
    <2>3. ServerInv
      BY <2>1, <2>2, Fields DEF ServerInv
    <2> QED
      BY <2>1, <2>2, <2>3 DEF NumbersInv, AckInv, SynAckInv, AcksUpTo
  <1>2. NumbersInv /\ [Next]_vars => NumbersInv'
    <2>1. ASSUME NumbersInv, Next
          PROVE  NumbersInv'
      BY <2>1, ProgramTypes, HandlerTypes, ServerTypes, ServerNumbers, AcksKept, SynAcksKept, Zenon
      DEF NumbersInv, Next
    <2>2. ASSUME NumbersInv, UNCHANGED vars
          PROVE  NumbersInv'
      <3>1. UNCHANGED <<seq, ack, rx, first, got, out, clobber, connects, sends, losses, resends,
                        wire, back, srv>>
        BY <2>2 DEF vars, socket, reading, network, server
      <3>2. Isn' = Isn
        BY <3>1, IsnKept
      <3> QED
        BY <2>2, <3>1, <3>2 DEF NumbersInv, Types, ServerInv, AckInv, SynAckInv, AcksUpTo
    <2> QED
      BY <2>1, <2>2
  <1> QED
    BY <1>1, <1>2, PTL DEF Spec

\* For every server, network and program: no segment of the kernel acknowledges what the
\* server has not sent, even one that the interrupt has overwritten in the transmit buffers
\* or that an old segment has caused (tcp.cpp:96, 106, 111, 134).
THEOREM AlwaysAcksSent == Spec => []AcksOnlySent
  <1>1. NumbersInv => AcksOnlySent
    <2> SUFFICES ASSUME NumbersInv, NEW i \in DOMAIN wire
                 PROVE  wire[i].ack <= srv.snd
      BY DEF AcksOnlySent
    <2>1. wire \in Seq(Segments)
      BY DEF NumbersInv, Types
    <2>2. i \in 1..Len(wire)
      BY <2>1
    <2> QED
      BY <2>2 DEF NumbersInv, AckInv, AcksUpTo
  <1> QED
    BY <1>1, AlwaysNumbers, PTL

\* For every server, network and program: the socket becomes ESTABLISHED only while the
\* server holds the connection, although the handler looks at no number of the answer and
\* answers of earlier attempts may still arrive (tcp.cpp:94-101).
THEOREM AlwaysPeerConnected == Spec => PeerConnected
  <1>1. NumbersInv /\ [Next]_vars
          => [state # "ESTABLISHED" /\ state' = "ESTABLISHED" => srv.st # "listen"]_vars
    <2> SUFFICES ASSUME NumbersInv, Next, state # "ESTABLISHED", state' = "ESTABLISHED"
                 PROVE  srv.st # "listen"
      OBVIOUS
    <2>1. CASE HandleIPv4Payload
      <3>1. back # <<>> /\ Handled(Head(back)) /\ back \in Seq(Segments) /\ Types
        BY <2>1 DEF HandleIPv4Payload, Handled, NumbersInv, Types
      <3>2. Head(back) = back[1] /\ back[1] \in Segments /\ 1 \in 1..Len(back)
        BY <3>1, Taken
      <3>3. back[1].kind = "SYNACK"
        BY <3>1, <3>2, HandlerIs, Zenon
      <3> QED
        BY <3>2, <3>3 DEF NumbersInv, SynAckInv
    <2>2. CASE ~HandleIPv4Payload
      BY <2>2, Zenon DEF Next, Program, Connect, ConnectAck, ConnectState, Send, Close, Build, Transmit,
         Load, Advance, RecvStart, RecvEmpty, RecvSecond, RecvClear, RecvLen, RecvWaited, Lose,
         ServerReceive, ServerSend, ServerResend, socket
    <2> QED
      BY <2>1, <2>2
  <1> QED
    BY <1>1, AlwaysNumbers, PTL DEF Spec, PeerConnected

-----------------------------------------------------------------------------
(***************************************************************************)
(* What recv returns.                                                      *)
(***************************************************************************)

\* What a step of a server that repeats nothing adds to the queue.
LEMMA ByteAdded ==
  ASSUME NumbersInv, ServerReceive \/ ServerSend
  PROVE  /\ srv'.snd \in Nat /\ srv.snd <= srv'.snd
         /\ \/ back' = back
            \/ \E k, s, a, d : Answers(k, s, a, d) /\ k # "DATA"
            \/ /\ srv'.snd = srv.snd + 1 /\ 0 < srv.snd
               /\ \E a : Answers("DATA", srv.snd, a, srv.snd)
  <1>1. Types /\ ServerInv
    BY DEF NumbersInv
  <1>2. srv'.snd \in Nat /\ srv.snd <= srv'.snd
    BY <1>1, ServerGrows
  <1>3. CASE ServerReceive
    <2>1. back' = back \/ \E k, s, a, d : k \in {"SYNACK", "ACK"} /\ Answers(k, s, a, d)
      BY <1>1, <1>3, ServerReceives
    <2> QED
      BY <1>2, <2>1, Zenon
  <1>4. CASE ServerSend
    <2>1. /\ srv.st = "open" /\ srv'.snd = srv.snd + 1
          /\ \/ Answers("DATA", srv.snd, srv.rcv, srv.snd)
             \/ Answers("FIN", srv.snd, srv.rcv, 0)
      BY <1>1, <1>4, ServerSends, Zenon
    <2>2. 0 < srv.snd
      BY <1>1, <2>1, Fields DEF ServerInv
    <2> QED
      BY <1>2, <2>1, <2>2
  <1> QED
    BY <1>3, <1>4

\* What is old stays old.
LEMMA OlderKept ==
  ASSUME NumbersInv, Program \/ HandleIPv4Payload \/ Lose \/ ServerReceive \/ ServerSend,
         NEW x \in Int, Older(x)
  PROVE  Older(x)'
  <1>1. Types /\ srv.snd \in Nat
    BY Fields DEF NumbersInv
  <1>2. CASE Program \/ HandleIPv4Payload \/ Lose
    <2>1. srv' = srv /\ \A k \in 1..Len(back') : \E i \in 1..Len(back) : back'[k] = back[i]
      BY <1>1, <1>2, BackIs
    <2> QED
      BY <2>1 DEF Older
  <1>3. CASE ServerReceive \/ ServerSend
    <2>1. x <= 0 \/ x < srv'.snd
      BY <1>1, <1>3, ByteAdded DEF Older
    <2>2. CASE back' = back
      BY <2>1, <2>2 DEF Older
    <2>3. ASSUME NEW k, NEW s, NEW a, NEW d, Answers(k, s, a, d), k = "DATA" => x < d
          PROVE  Older(x)'
      <3>1. /\ back'[Len(back) + 1].kind = k /\ back'[Len(back) + 1].data = d
            /\ \A i \in 1..Len(back) : back'[i] = back[i]
            /\ \A i \in 1..Len(back') : i \in 1..Len(back) \/ i = Len(back) + 1
        BY <1>1, <2>3, AnswersIs
      <3> QED
        BY <2>1, <2>3, <3>1, Zenon DEF Older
    <2>4. 0 < srv.snd => x < srv.snd
      BY <1>1 DEF Older
    <2> QED
      BY <1>3, <2>2, <2>3, <2>4, ByteAdded
  <1> QED
    BY <1>2, <1>3

\* The bytes under way stay in order.
LEMMA BytesKept ==
  ASSUME NumbersInv, BytesInOrder,
         Program \/ HandleIPv4Payload \/ Lose \/ ServerReceive \/ ServerSend
  PROVE  BytesInOrder'
  <1>1. Types /\ srv.snd \in Nat /\ back \in Seq(Segments)
    BY Fields DEF NumbersInv, Types
  <1>2. Len(back) \in Nat /\ \A i \in 1..Len(back) : back[i].data \in Nat
    BY <1>1, Elements, Zenon
  <1> SUFFICES ASSUME NEW k \in 1..Len(back'), back'[k].kind = "DATA"
               PROVE  /\ back'[k].data = back'[k].seq /\ 0 < back'[k].data
                      /\ \A j \in 1..(k - 1) :
                           back'[j].kind = "DATA" => back'[j].data < back'[k].data
    BY DEF BytesInOrder
  <1>3. CASE \A i \in 1..k : back'[i] = back[i] /\ i \in 1..Len(back)
    <2>1. Len(back') \in Int /\ k \in 1..k /\ \A j \in 1..(k - 1) : j \in 1..k
      BY <1>1, <1>2, ProgramTypes, HandlerTypes, ServerTypes DEF Types
    <2> QED
      BY <1>3, <2>1, Zenon DEF BytesInOrder
  <1>4. CASE \A i \in 1..Len(back') : back'[i] = back[i + 1] /\ i + 1 \in 1..Len(back)
    <2>1. back'[k] = back[k + 1] /\ k + 1 \in 1..Len(back)
      BY <1>4
    <2>2. \A j \in 1..(k - 1) : back'[j] = back[j + 1] /\ j + 1 \in 1..((k + 1) - 1)
      BY <1>2, <1>4, <2>1
    <2> QED
      BY <2>1, <2>2, Zenon DEF BytesInOrder
  <1>5. CASE Program \/ HandleIPv4Payload \/ Lose
    <2>1. back' = back => \A i \in 1..k : back'[i] = back[i] /\ i \in 1..Len(back)
      BY <1>2
    <2> QED
      BY <1>1, <1>3, <1>4, <1>5, <2>1, BackIs, Zenon
  <1>6. CASE ServerReceive \/ ServerSend
    <2>1. CASE back' = back
      BY <1>2, <1>3, <2>1
    <2>2. ASSUME NEW kk, NEW s, NEW a, NEW d, Answers(kk, s, a, d),
                 kk # "DATA" \/ (s = srv.snd /\ d = srv.snd /\ 0 < srv.snd)
          PROVE  /\ back'[k].data = back'[k].seq /\ 0 < back'[k].data
                 /\ \A j \in 1..(k - 1) :
                      back'[j].kind = "DATA" => back'[j].data < back'[k].data
      <3>1. /\ back'[Len(back) + 1].kind = kk /\ back'[Len(back) + 1].seq = s
            /\ back'[Len(back) + 1].data = d
            /\ \A i \in 1..Len(back) : back'[i] = back[i]
            /\ k \in 1..Len(back) \/ k = Len(back) + 1
        BY <1>1, <2>2, AnswersIs
      <3>2. CASE k \in 1..Len(back)
        <4>1. \A i \in 1..k : back'[i] = back[i] /\ i \in 1..Len(back)
          BY <1>2, <3>1, <3>2
        <4> QED
          BY <1>3, <4>1, Zenon
      <3>3. CASE k = Len(back) + 1
        <4>1. back'[k].data = srv.snd /\ back'[k].seq = srv.snd /\ 0 < srv.snd
          BY <2>2, <3>1, <3>3, Zenon
        <4>2. ASSUME NEW j \in 1..(k - 1), back'[j].kind = "DATA"
              PROVE  back'[j].data < srv.snd
          <5>1. j \in 1..Len(back) /\ back'[j] = back[j]
            BY <1>2, <3>1, <3>3
          <5>2. back[j].data = back[j].seq /\ back[j].seq < srv.snd
            BY <4>2, <5>1 DEF BytesInOrder, NumbersInv, AckInv
          <5> QED
            BY <5>1, <5>2
        <4> QED
          BY <4>1, <4>2, Zenon
      <3> QED
        BY <3>1, <3>2, <3>3, Zenon
    <2> QED
      BY <1>6, <2>1, <2>2, ByteAdded, Zenon
  <1> QED
    BY <1>5, <1>6, Zenon

\* A call changes what has been read in the order of the calls of recv (syscall.cpp:431-477).
LEMMA ProgramReads ==
  ASSUME NumbersInv, ReadInv, Program, resends = 0
  PROVE  ReadInv'
  <1>1. Types /\ Types'
    BY ProgramTypes DEF NumbersInv
  <1>2. BytesInOrder /\ Older(got[2]) /\ Older(first) /\ Older(rx)
    BY DEF ReadInv
  <1>3. got \in Int \X Int /\ got[2] \in Int /\ first \in Int /\ rx \in Int /\ back' \in Seq(Segments)
    BY <1>1 DEF Types
  <1>4. BytesInOrder'
    BY <1>2, BytesKept
  <1>5. \A x \in Int : Older(x) \/ x <= 0 => Older(x)'
    <2>1. ASSUME NEW x \in Int, Older(x)
          PROVE  Older(x)'
      BY <2>1, OlderKept
    <2>2. ASSUME NEW x \in Int, x <= 0
          PROVE  Older(x)'
      <3>1. \A k \in 1..Len(back') : back'[k].data \in Nat
        BY <1>3, Elements, Zenon
      <3> QED
        BY <1>4, <2>2, <3>1 DEF BytesInOrder, Older
    <2> QED
      BY <2>1, <2>2
  <1>6. ASSUME NEW g \in Int, NEW f \in Int, NEW r \in Int, got'[2] = g, first' = f, rx' = r,
               {g, f, r} \subseteq {got[2], first, rx, 0, NoBytes},
               pc' = "r_second" => g < f /\ f <= r,
               pc' \notin {"r_second", "r_clear"} /\ 0 < r => g < r
        PROVE  ReadInv'
    <2>1. Older(g)' /\ Older(f)' /\ Older(r)'
      <3>1. \A x \in {got[2], first, rx, 0, NoBytes} : Older(x) \/ x <= 0
        BY <1>2 DEF NoBytes
      <3> QED
        BY <1>5, <1>6, <3>1
    <2>2. Older(got[2])' /\ Older(first)' /\ Older(rx)'
      BY <1>6, <2>1, Zenon DEF Older
    <2> QED
      BY <1>4, <1>6, <2>2 DEF ReadInv
  <1>7. CASE RecvStart
    BY <1>3, <1>6, <1>7 DEF ReadInv, RecvStart
  <1>8. CASE RecvSecond
    BY <1>3, <1>6, <1>8 DEF ReadInv, RecvSecond
  <1>9. CASE RecvEmpty \/ RecvClear \/ RecvLen
    BY <1>3, <1>6, <1>9 DEF ReadInv, RecvEmpty, RecvClear, RecvLen, reading, NoBytes
  <1>10. CASE RecvWaited
    BY <1>3, <1>6, <1>10 DEF ReadInv, RecvWaited
  <1>11. CASE Connect \/ ConnectAck \/ ConnectState \/ Send \/ Close \/ Build \/ Transmit
              \/ Load \/ Advance
    <2>1. /\ UNCHANGED <<got, first, rx>>
          /\ {pc, pc'} \cap {"r_second", "r_clear"} = {}
      BY <1>1, <1>11, Fields DEF Connect, ConnectAck, ConnectState, Send, Close, Build, Transmit,
         Load, Advance, Begin, reading
    <2> QED
      BY <1>3, <1>6, <2>1, Zenon DEF ReadInv
  <1> QED
    BY <1>7, <1>8, <1>9, <1>10, <1>11 DEF Program

\* A byte that arrives is newer than what recv is copying (tcp.cpp:110-116).
LEMMA HandlerReads ==
  ASSUME NumbersInv, ReadInv, HandleIPv4Payload, resends = 0
  PROVE  ReadInv'
  <1>1. Types /\ back \in Seq(Segments) /\ got[2] \in Int /\ first \in Int /\ rx \in Int
    BY DEF NumbersInv, Types
  <1>2. BytesInOrder /\ Older(got[2]) /\ Older(first) /\ Older(rx)
    BY DEF ReadInv
  <1>3. back # <<>> /\ Handled(Head(back)) /\ UNCHANGED <<pc, first, got, srv>>
    BY DEF HandleIPv4Payload, Handled, reading, server
  <1>4. Head(back) = back[1] /\ back[1] \in Segments /\ 1 \in 1..Len(back)
    BY <1>1, <1>3, Taken
  <1>5. rx' = rx \/ (back[1].kind = "DATA" /\ rx' = back[1].data)
    BY <1>1, <1>3, <1>4, HandlerIs
  <1>6. BytesInOrder'
    BY <1>2, BytesKept, Zenon
  <1>7. Older(got[2])' /\ Older(first)'
    <2>1. PICK g \in Int, f \in Int : g = got[2] /\ f = first
      BY <1>1
    <2>2. Older(g)' /\ Older(f)'
      BY <1>2, <2>1, OlderKept
    <2> QED
      BY <1>3, <2>1, <2>2 DEF Older
  <1>8. CASE rx' = rx
    <2>1. PICK r \in Int : r = rx
      BY <1>1
    <2>2. Older(r)'
      BY <1>2, <2>1, OlderKept
    <2>3. Older(rx)'
      BY <1>8, <2>1, <2>2 DEF Older
    <2> QED
      BY <1>3, <1>6, <1>7, <1>8, <2>3 DEF ReadInv
  <1>9. CASE back[1].kind = "DATA" /\ rx' = back[1].data
    <2>1. PICK r \in Int : r = back[1].data
      BY <1>4 DEF Segments
    <2>2. got[2] < r /\ first < r
      BY <1>2, <1>4, <1>9, <2>1, Zenon DEF Older
    <2>3. r < srv.snd
      BY <1>2, <1>4, <1>9, <2>1, Zenon DEF BytesInOrder, NumbersInv, AckInv
    <2>4. ASSUME NEW k \in 1..Len(back'), back'[k].kind = "DATA"
          PROVE  r < back'[k].data
      <3>1. back'[k] = back[k + 1] /\ k + 1 \in 1..Len(back) /\ Len(back) \in Nat
        BY <1>1, BackIs
      <3>2. 1 \in 1..((k + 1) - 1)
        BY <3>1
      <3> QED
        BY <1>2, <1>9, <2>1, <2>4, <3>1, <3>2 DEF BytesInOrder
    <2>5. Older(rx)'
      BY <1>3, <1>9, <2>1, <2>3, <2>4 DEF Older
    <2>6. first <= rx' /\ got[2] < rx'
      BY <1>1, <1>9, <2>1, <2>2
    <2> QED
      BY <1>3, <1>6, <1>7, <2>5, <2>6 DEF ReadInv
  <1> QED
    BY <1>5, <1>8, <1>9

\* The network and the server leave the reader alone.
LEMMA ServerReads ==
  ASSUME NumbersInv, ReadInv, Lose \/ ServerReceive \/ ServerSend, resends = 0
  PROVE  ReadInv'
  <1>1. got[2] \in Int /\ first \in Int /\ rx \in Int
    BY DEF NumbersInv, Types
  <1>2. PICK g \in Int, f \in Int, r \in Int : g = got[2] /\ f = first /\ r = rx
    BY <1>1
  <1>3. BytesInOrder /\ Older(g) /\ Older(f) /\ Older(r)
    BY <1>2 DEF ReadInv
  <1>4. BytesInOrder' /\ Older(g)' /\ Older(f)' /\ Older(r)'
    BY <1>3, BytesKept, OlderKept
  <1>5. UNCHANGED <<pc, got, first, rx>>
    BY DEF Lose, ServerReceive, ServerSend, reading
  <1>6. Older(got[2])' /\ Older(first)' /\ Older(rx)'
    BY <1>2, <1>4, <1>5 DEF Older
  <1> QED
    BY <1>4, <1>5, <1>6 DEF ReadInv

\* For every server that repeats nothing and every network: what the calls of recv return
\* is in the order it was sent in and nothing is returned twice, although the handler may
\* replace the one receive buffer at any moment (syscall.cpp:431-477, tcp.cpp:110-116).
THEOREM AlwaysReadsInOrder == Spec => ReadsInOrder
  <1>1. Init => ReadInv
    BY DEF Init, ReadInv, BytesInOrder, Older
  <1>2. NumbersInv /\ ReadInv /\ [Next]_vars => ReadInv'
    <2>1. ASSUME NumbersInv, ReadInv, Next, resends' = 0
          PROVE  ReadInv'
      <3>1. resends \in Nat /\ (ServerResend => resends' = resends + 1)
        BY <2>1 DEF NumbersInv, Types, ServerResend
      <3>2. ~ServerResend
        BY <2>1, <3>1
      <3>3. resends = 0
        BY <2>1, <3>2, Zenon DEF Next, Program, Connect, ConnectAck, ConnectState, Send, Close, Build,
           Transmit, Load, Advance, RecvStart, RecvEmpty, RecvSecond, RecvClear, RecvLen,
           RecvWaited, HandleIPv4Payload, Lose, ServerReceive, ServerSend, server
      <3> QED
        BY <2>1, <3>2, <3>3, ProgramReads, HandlerReads, ServerReads, Zenon DEF Next
    <2>2. ASSUME ReadInv, UNCHANGED vars
          PROVE  ReadInv'
      <3>1. UNCHANGED <<pc, got, first, rx, back, srv, resends>>
        BY <2>2 DEF vars, reading, network, server
      <3> QED
        BY <2>2, <3>1 DEF ReadInv, BytesInOrder, Older
    <2>3. resends' # 0 => ReadInv'
      BY DEF ReadInv
    <2> QED
      BY <2>1, <2>2, <2>3
  <1>3. NumbersInv /\ ReadInv /\ [Next]_vars
          => [resends = 0 /\ (RecvSecond \/ RecvWaited)
                => got[2] < got'[1] /\ got'[1] <= got'[2]]_vars
    <2> SUFFICES ASSUME NumbersInv, ReadInv, resends = 0, RecvSecond \/ RecvWaited
                 PROVE  got[2] < got'[1] /\ got'[1] <= got'[2]
      OBVIOUS
    <2>1. rx \in Int /\ first \in Int
      BY DEF NumbersInv, Types
    <2> QED
      BY <2>1 DEF ReadInv, RecvSecond, RecvWaited
  <1> QED
    BY <1>1, <1>2, <1>3, AlwaysNumbers, PTL DEF Spec, ReadsInOrder

-----------------------------------------------------------------------------
(***************************************************************************)
(* What the server takes.                                                  *)
(***************************************************************************)

\* The wire in a step that puts nothing on it and lets no byte leave.
LEMMA WireAlone ==
  ASSUME WireInv, UNCHANGED <<wire, srv>>, Left' = Left
  PROVE  WireInv'
  BY DEF WireInv

\* TCPSocket::Connect, up to its SYN (tcp.cpp:66-70).
LEMMA ConnectStream ==
  ASSUME NumbersInv, WireInv, SeqInv, CallInv, connects' <= 1,
         Connect \/ ConnectAck \/ ConnectState
  PROVE  WireInv' /\ SeqInv' /\ CallInv'
  <1>1. Types /\ connects \in Nat /\ sends \in Nat
    BY DEF NumbersInv, Types
  <1>2. UNCHANGED <<sends, wire, back, srv, clobber, rx>>
    BY DEF Connect, ConnectAck, ConnectState, network, server
  <1>3. CASE Connect
    <2>1. /\ connects = 0 /\ connects' = 1 /\ pc = "out" /\ pc' = "c_ack" /\ seq' = 0
          /\ UNCHANGED <<state, out>>
      BY <1>1, <1>3 DEF Connect, InitialSeq
    <2>2. WireInv'
      BY <1>2, <2>1, WireAlone, Zenon DEF Left
    <2>3. SeqInv'
      BY <1>2, <2>1, Zenon DEF SeqInv, CallInv, Building
    <2>4. CallInv'
      BY <1>2, <2>1 DEF CallInv, Calling
    <2> QED
      BY <2>2, <2>3, <2>4
  <1>4. CASE ConnectAck
    <2>1. pc = "c_ack" /\ pc' = "c_state" /\ UNCHANGED <<state, seq, out, connects>>
      BY <1>4 DEF ConnectAck
    <2>2. WireInv'
      BY <1>2, <2>1, WireAlone, Zenon DEF Left
    <2>3. SeqInv'
      BY <1>2, <2>1, Zenon DEF SeqInv, Building
    <2>4. CallInv'
      BY <1>2, <2>1 DEF CallInv, Calling
    <2> QED
      BY <2>2, <2>3, <2>4
  <1>5. CASE ConnectState
    <2>1. /\ pc = "c_state" /\ state' = "SYN_SENT" /\ Begin("SYN", 0, "out")
          /\ UNCHANGED <<seq, connects>>
      BY <1>5, Zenon DEF ConnectState
    <2>2. pc' = "build" /\ out'.seg.kind = "SYN" /\ out'.seg.data = 0
      BY <1>1, <2>1, OutIs DEF Kinds
    <2>3. WireInv'
      BY <1>2, <2>1, <2>2, WireAlone, Zenon DEF Left
    <2>4. SeqInv'
      BY <1>2, <2>1, <2>2, Zenon DEF SeqInv, CallInv, Calling, Building
    <2>5. CallInv'
      BY <1>2, <2>1, <2>2 DEF CallInv, Calling
    <2> QED
      BY <2>3, <2>4, <2>5
  <1> QED
    BY <1>3, <1>4, <1>5

\* sys_net_tcp_send and sys_net_tcp_close, up to the segment.
LEMMA BeginStream ==
  ASSUME NumbersInv, WireInv, SeqInv, CallInv, Send \/ Close
  PROVE  WireInv' /\ SeqInv' /\ CallInv'
  <1>1. Types /\ connects \in Nat /\ sends \in Nat /\ seq \in Nat
    BY DEF NumbersInv, Types
  <1>2. /\ pc = "out" /\ state = "ESTABLISHED"
        /\ UNCHANGED <<seq, wire, back, srv, clobber, rx, connects>>
    BY DEF Send, Close, socket, network, server
  <1>3. CASE Send
    <2>1. sends' = sends + 1 /\ Begin("DATA", sends + 1, "out") /\ state' = state
      BY <1>3, Zenon DEF Send, socket
    <2>2. pc' = "build" /\ out'.seg.kind = "DATA" /\ out'.seg.data = sends + 1
      <3>1. sends + 1 \in Nat /\ "DATA" \in Kinds
        BY <1>1 DEF Kinds
      <3> QED
        BY <1>1, <2>1, <3>1, OutIs
    <2>3. Left' = Left
      BY <1>1, <1>2, <2>1, <2>2 DEF Left
    <2>4. WireInv'
      BY <1>2, <2>3, WireAlone, Zenon
    <2>5. SeqInv'
      BY <1>1, <1>2, <2>1, <2>2 DEF SeqInv, Building
    <2>6. CallInv'
      BY <1>2, <2>1, <2>2 DEF CallInv, Calling
    <2> QED
      BY <2>4, <2>5, <2>6
  <1>4. CASE Close
    <2>1. sends' = sends /\ Begin("FIN", 0, "out") /\ state' = "FIN_WAIT_1"
      BY <1>4, Zenon DEF Close
    <2>2. pc' = "build" /\ out'.seg.kind = "FIN" /\ out'.seg.data = 0
      BY <1>1, <2>1, OutIs DEF Kinds
    <2>3. WireInv'
      BY <1>2, <2>1, <2>2, WireAlone, Zenon DEF Left
    <2>4. SeqInv'
      BY <1>2, <2>1, <2>2, Zenon DEF SeqInv, Building
    <2>5. CallInv'
      BY <1>2, <2>1, <2>2 DEF CallInv, Calling
    <2> QED
      BY <2>3, <2>4, <2>5
  <1> QED
    BY <1>3, <1>4

\* SendSegment around the wire (tcp.cpp:33-54): the header takes the socket's number, and
\* the number moves on from what was loaded.
LEMMA BuildStream ==
  ASSUME NumbersInv, WireInv, SeqInv, CallInv, Build \/ Load \/ Advance
  PROVE  WireInv' /\ SeqInv' /\ CallInv'
  <1>1. Types /\ connects \in Nat /\ sends \in Nat /\ seq \in Nat
    BY DEF NumbersInv, Types
  <1>2. UNCHANGED <<state, sends, wire, back, srv, rx, connects>>
    BY DEF Build, Load, Advance, socket, network, server
  <1>3. CASE Build
    <2>1. pc = "build" /\ pc' = "transmit" /\ clobber' = <<>> /\ seq' = seq
      BY <1>3, Zenon DEF Build, socket
    <2>2. out'.seg.kind = out.seg.kind /\ out'.seg.seq = seq /\ out'.seg.data = out.seg.data
      BY <1>1, <1>3, OutIs
    <2>3. Len(clobber') = 0
      BY <2>1
    <2>4. WireInv'
      BY <1>2, <2>1, <2>2, WireAlone, Zenon DEF Left
    <2>5. SeqInv'
      <3>1. /\ out.seg.kind \in {"SYN", "DATA", "FIN"}
            /\ out.seg.kind = "DATA" => 0 < sends /\ sends <= seq /\ out.seg.data = sends
            /\ out.seg.kind # "DATA" =>
                 out.seg.data = 0 /\ (state = "ESTABLISHED" => sends < seq)
            /\ state = "SYN_SENT" => sends = 0 /\ out.seg.kind # "DATA"
            /\ out.seg.kind = "SYN" => sends = 0
            /\ out.seg.kind = "FIN" => state \notin {"SYN_SENT", "ESTABLISHED"}
        BY <2>1, Zenon DEF SeqInv, Building
      <3>2. out.seg.kind = "SYN" => seq = 0
        BY <2>1 DEF CallInv, Calling
      <3>3. \A i \in 1..Len(clobber') : FALSE
        BY <2>3
      <3>4. \A kind : Building(kind)' <=> out.seg.kind = kind
        BY <2>1, <2>2, Zenon DEF Building
      <3> QED
        BY <1>2, <2>1, <2>2, <3>1, <3>2, <3>3, <3>4, Zenon DEF SeqInv
    <2>6. CallInv'
      BY <1>2, <2>1, <2>2, Zenon DEF CallInv, Calling
    <2> QED
      BY <2>4, <2>5, <2>6
  <1>4. CASE Load
    <2>1. pc = "advance" /\ pc' = "store" /\ clobber' = clobber /\ seq' = seq
      BY <1>4, Zenon DEF Load, socket
    <2>2. out'.seg.kind = out.seg.kind /\ out'.seg.seq = seq /\ out'.seg.data = out.seg.data
      BY <1>1, <1>4, OutIs
    <2>3. WireInv'
      BY <1>2, <2>1, <2>2, WireAlone, Zenon DEF Left
    <2>4. SeqInv'
      BY <1>2, <2>1, <2>2, Zenon DEF SeqInv, Building
    <2>5. CallInv'
      BY <1>2, <2>1, <2>2, Zenon DEF CallInv, Calling
    <2> QED
      BY <2>3, <2>4, <2>5
  <1>5. CASE Advance
    <2>1. /\ pc = "store" /\ pc' = "out" /\ clobber' = clobber /\ seq' = out.seg.seq + 1
          /\ out.seg.seq \in Nat
      BY <1>1, <1>5, Fields, Zenon DEF Advance
    <2>2. out'.seg.data = 0
      BY <1>1, <1>5, OutIs, Zenon DEF Advance
    <2>3. WireInv'
      BY <1>2, <2>1, <2>2, WireAlone, Zenon DEF Left
    <2>4. SeqInv'
      BY <1>1, <1>2, <2>1, <2>2 DEF SeqInv, Building
    <2>5. CallInv'
      BY <1>2, <2>1, <2>2 DEF CallInv, Calling
    <2> QED
      BY <2>3, <2>4, <2>5
  <1> QED
    BY <1>3, <1>4, <1>5

\* The calls of recv.
LEMMA RecvStream ==
  ASSUME NumbersInv, WireInv, SeqInv, CallInv,
         RecvStart \/ RecvEmpty \/ RecvSecond \/ RecvClear \/ RecvLen \/ RecvWaited
  PROVE  WireInv' /\ SeqInv' /\ CallInv'
  <1>1. /\ UNCHANGED <<state, seq, out, clobber, sends, wire, back, srv, connects>>
        /\ {pc, pc'} \subseteq {"out", "r_second", "r_clear", "r_len"}
    BY DEF RecvStart, RecvEmpty, RecvSecond, RecvClear, RecvLen, RecvWaited, socket, network, server
  <1>2. pc # "out" \/ rx # 0
    BY DEF NumbersInv, Types, RecvStart, RecvEmpty, RecvSecond, RecvClear, RecvLen, RecvWaited,
       NoBytes
  <1>3. WireInv'
    BY <1>1, WireAlone, Zenon DEF Left
  <1>4. SeqInv'
    BY <1>1, Zenon DEF SeqInv, Building
  <1>5. CallInv'
    BY <1>1, <1>2 DEF CallInv, Calling
  <1> QED
    BY <1>3, <1>4, <1>5, Zenon

\* A segment reaches the wire, alone, twice or mixed with another one (tcp.cpp:33-54).
LEMMA TransmitStream ==
  ASSUME NumbersInv, WireInv, SeqInv, CallInv, Transmit
  PROVE  WireInv' /\ SeqInv' /\ CallInv'
  <1>1. Types /\ sends \in Nat /\ wire \in Seq(Segments)
    BY DEF NumbersInv, Types
  <1>2. /\ pc = "transmit" /\ pc' = "advance" /\ clobber' = <<>>
        /\ UNCHANGED <<state, seq, out, sends, back, srv, connects, rx>>
    BY DEF Transmit, socket, server
  <1>3. Len(clobber') = 0
    BY <1>2, Zenon
  <1>4. SeqInv'
    BY <1>2, <1>3 DEF SeqInv, Building
  <1>5. CallInv'
    BY <1>2 DEF CallInv, Calling
  <1>6. /\ Len(wire) \in Nat /\ Len(srv.bytes) \in Nat
        /\ \A k \in 1..Len(wire) : wire[k].data \in Nat
    BY <1>1, Elements, Fields, Zenon
  <1>7. Left \in Int /\ Left <= sends /\ Left' = sends /\ (out.seg.kind = "DATA" => Left < sends)
        /\ Len(srv.bytes) <= Left
    BY <1>1, <1>2 DEF Left, WireInv
  <1>8. \A k \in 1..Len(wire) : wire[k].data <= Left
    BY <1>6, <1>7 DEF WireInv
  <1>9. ASSUME NEW k \in 1..Len(wire')
        PROVE  /\ wire'[k].kind = "SYN" => wire'[k].seq = 0
               /\ wire'[k].data # 0 =>
                    /\ wire'[k].data <= wire'[k].seq /\ wire'[k].data <= sends
                    /\ Len(srv.bytes) < wire'[k].data
                    /\ \A j \in 1..(k - 1) : wire'[j].data < wire'[k].data
    <2>1. \A j \in 1..(k - 1) : j \in 1..Len(wire) /\ wire'[j] = wire[j]
      BY <1>1, <1>6, TransmitIs
    <2>2. CASE k \in 1..Len(wire) /\ wire'[k] = wire[k]
      <3>1. wire'[k].kind = "SYN" => wire'[k].seq = 0
        BY <2>2, Zenon DEF WireInv
      <3>2. wire'[k].data # 0 =>
              /\ wire'[k].data <= wire'[k].seq
              /\ Len(srv.bytes) < wire'[k].data
              /\ \A j \in 1..(k - 1) : wire[j].data < wire'[k].data
        BY <2>2 DEF WireInv
      <3>3. wire'[k].data <= sends
        BY <1>1, <1>6, <1>7, <1>8, <2>2
      <3> QED
        BY <2>1, <3>1, <3>2, <3>3, Zenon
    <2>3. CASE /\ wire'[k].kind = out.seg.kind /\ wire'[k].seq = out.seg.seq
               /\ wire'[k].data = out.seg.data
      <3>1. wire'[k].kind = "SYN" => wire'[k].seq = 0
        BY <1>2, <2>3, Zenon DEF SeqInv
      <3>2. wire'[k].data # 0 => /\ out.seg.kind = "DATA" /\ wire'[k].data = sends
                                 /\ sends <= wire'[k].seq
        BY <1>2, <2>3, Zenon DEF SeqInv, Building
      <3> QED
        BY <1>1, <1>6, <1>7, <1>8, <2>1, <3>1, <3>2
    <2>4. CASE /\ Len(clobber) = 1
               /\ wire'[k].kind = clobber[1].kind /\ wire'[k].seq = clobber[1].seq
               /\ wire'[k].data \in {clobber[1].data, out.seg.data}
      <3>1. 1 \in 1..Len(clobber)
        BY <2>4
      <3>2. wire'[k].kind # "SYN"
        BY <2>4, <3>1, Zenon DEF SeqInv
      <3>3. wire'[k].data # 0 => /\ out.seg.kind = "DATA" /\ wire'[k].data = sends
                                 /\ sends <= wire'[k].seq
        BY <1>2, <2>4, <3>1, Zenon DEF SeqInv, Building
      <3> QED
        BY <1>1, <1>6, <1>7, <1>8, <2>1, <3>2, <3>3
    <2> QED
      BY <1>1, <2>2, <2>3, <2>4, TransmitIs, Zenon
  <1>10. WireInv'
    <2>1. Len(srv.bytes) <= sends
      BY <1>1, <1>6, <1>7
    <2> QED
      BY <1>2, <1>7, <1>9, <2>1 DEF WireInv
  <1> QED
    BY <1>4, <1>5, <1>10

\* The handler's segments carry no data, and it numbers the one that may end up in front of
\* a call's data no lower than the call does (tcp.cpp:94-150).
LEMMA HandlerStream ==
  ASSUME NumbersInv, WireInv, SeqInv, CallInv, HandleIPv4Payload
  PROVE  WireInv' /\ SeqInv' /\ CallInv'
  <1>1. Types /\ sends \in Nat /\ seq \in Nat /\ wire \in Seq(Segments) /\ back \in Seq(Segments)
    BY DEF NumbersInv, Types
  <1>2. back # <<>> /\ Handled(Head(back)) /\ UNCHANGED <<pc, out, sends, srv, connects>>
    BY DEF HandleIPv4Payload, Handled, server
  <1>3. Head(back) = back[1] /\ back[1] \in Segments /\ 1 \in 1..Len(back)
    BY <1>1, <1>2, Taken
  <1>4. back[1].ack \in Nat
    BY <1>3 DEF Segments
  <1>5. \/ /\ state = "SYN_SENT" /\ back[1].kind = "SYNACK" /\ seq' = back[1].ack
           /\ state' = "ESTABLISHED"
        \/ state = "SYN_SENT" /\ state' = "SYN_SENT" /\ seq' = seq
        \/ /\ state # "SYN_SENT" /\ state' # "SYN_SENT"
           /\ seq' = seq \/ (state = "ESTABLISHED" /\ state' = "LAST_ACK" /\ seq' = seq + 1)
           /\ state' = "ESTABLISHED" => state = "ESTABLISHED"
           /\ state = "CLOSED" => state' = "CLOSED" /\ rx' = rx
    BY <1>1, <1>2, <1>3, HandlerIs, Zenon
  <1>6. /\ \A k \in 1..Len(wire') :
             \/ k \in 1..Len(wire) /\ wire'[k] = wire[k]
             \/ k > Len(wire) /\ wire'[k].kind \in {"ACK", "FIN"} /\ wire'[k].data = 0
        /\ Len(wire) \in Nat /\ Len(wire') \in Nat
    BY <1>1, HandlerSends DEF Reply
  <1>7. \A i \in 1..Len(clobber') :
          \/ i \in 1..Len(clobber) /\ clobber'[i] = clobber[i]
          \/ /\ pc = "transmit" /\ clobber'[i].kind \in {"ACK", "FIN"} /\ clobber'[i].data = 0
             /\ clobber'[i].seq = IF state = "SYN_SENT" THEN seq' ELSE seq
    BY <1>1, HandlerSends DEF Reply
  <1>8. back[1].kind = "SYNACK" => 0 < back[1].ack /\ ~Calling /\ connects # 0
    BY <1>3, Zenon DEF CallInv
  <1>9. WireInv'
    <2>1. Left' = Left /\ srv' = srv
      BY <1>2, Zenon DEF Left
    <2>2. ASSUME NEW k \in 1..Len(wire')
          PROVE  /\ wire'[k].kind = "SYN" => wire'[k].seq = 0
                 /\ wire'[k].data # 0 =>
                      /\ wire'[k].data <= wire'[k].seq /\ wire'[k].data <= Left
                      /\ Len(srv.bytes) < wire'[k].data
                      /\ \A j \in 1..(k - 1) : wire'[j].data < wire'[k].data
      <3>1. CASE k \in 1..Len(wire) /\ wire'[k] = wire[k]
        <4>1. \A j \in 1..(k - 1) : j \in 1..Len(wire) /\ wire'[j] = wire[j]
          BY <1>6, <3>1
        <4> QED
          BY <3>1, <4>1 DEF WireInv
      <3>2. CASE wire'[k].kind \in {"ACK", "FIN"} /\ wire'[k].data = 0
        BY <3>2, Zenon
      <3> QED
        BY <1>6, <3>1, <3>2, Zenon
    <2> QED
      BY <2>1, <2>2 DEF WireInv
  <1>10. SeqInv'
    <2>1. Building("DATA") => /\ state # "SYN_SENT" /\ sends <= seq /\ sends <= seq'
      BY <1>1, <1>5 DEF SeqInv
    <2>2. state' = "ESTABLISHED" /\ ~Building("DATA") => sends < seq'
      BY <1>5, <1>8, Zenon DEF SeqInv
    <2>3. \A i \in 1..Len(clobber') :
            /\ pc = "transmit" /\ clobber'[i].kind # "SYN" /\ clobber'[i].data = 0
            /\ out.seg.kind = "DATA" => sends <= clobber'[i].seq
      BY <1>7, <2>1 DEF SeqInv, Building
    <2>4. state' = "SYN_SENT" => state = "SYN_SENT"
      BY <1>5
    <2>5. state \notin {"SYN_SENT", "ESTABLISHED"} => state' \notin {"SYN_SENT", "ESTABLISHED"}
      BY <1>5, Zenon
    <2> QED
      BY <1>2, <2>1, <2>2, <2>3, <2>4, <2>5, Zenon DEF SeqInv, Building
  <1>11. CallInv'
    <2>1. Calling' = Calling
      BY <1>2 DEF Calling
    <2>2. connects = 0 => pc = "out" /\ rx' = 0 /\ state' = "CLOSED" /\ sends = 0
      BY <1>5 DEF CallInv
    <2>3. Calling => seq' = 0 /\ sends = 0 /\ state' \in {"CLOSED", "SYN_SENT"}
      BY <1>5, <1>8 DEF CallInv
    <2>4. ASSUME Calling \/ connects = 0
          PROVE  srv.st = "listen" /\ \A k \in 1..Len(wire') : wire'[k].kind # "SYN"
      BY <1>6, <2>4 DEF CallInv
    <2>5. \A k \in 1..Len(back') : back'[k] = back[k + 1] /\ k + 1 \in 1..Len(back)
      BY <1>1, BackIs
    <2>6. \A k \in 1..Len(back') : back'[k].kind = "SYNACK" =>
            0 < back'[k].ack /\ ~Calling /\ connects # 0
      BY <2>5, Zenon DEF CallInv
    <2> QED
      BY <1>2, <2>1, <2>2, <2>3, <2>4, <2>6, Zenon DEF CallInv
  <1> QED
    BY <1>9, <1>10, <1>11

\* The segments to the server, without the first.
LEMMA FirstTaken ==
  ASSUME Types, WireInv, wire # <<>>, wire' = Tail(wire)
  PROVE  /\ Len(wire) \in Nat /\ Len(wire') \in Nat
         /\ \A k \in 1..Len(wire') :
              /\ wire'[k] = wire[k + 1] /\ k + 1 \in 1..Len(wire)
              /\ wire'[k].kind = "SYN" => wire'[k].seq = 0
              /\ wire'[k].data \in Nat
              /\ wire'[k].data # 0 =>
                   /\ wire'[k].data <= wire'[k].seq /\ wire'[k].data <= Left
                   /\ Len(srv.bytes) < wire'[k].data /\ wire[1].data < wire'[k].data
                   /\ \A j \in 1..(k - 1) : wire'[j].data < wire'[k].data
  <1>1. wire \in Seq(Segments)
    BY DEF Types
  <1>2. /\ wire' \in Seq(Segments) /\ Len(wire) \in Nat
        /\ \A k \in 1..Len(wire') : wire'[k] = wire[k + 1] /\ k + 1 \in 1..Len(wire)
    BY <1>1, Taken
  <1>3. Len(wire') \in Nat /\ \A k \in 1..Len(wire') : wire'[k].data \in Nat
    BY <1>2, Elements, Zenon
  <1>4. ASSUME NEW k \in 1..Len(wire')
        PROVE  /\ wire'[k].kind = "SYN" => wire'[k].seq = 0
               /\ wire'[k].data # 0 =>
                    /\ wire'[k].data <= wire'[k].seq /\ wire'[k].data <= Left
                    /\ Len(srv.bytes) < wire'[k].data /\ wire[1].data < wire'[k].data
                    /\ \A j \in 1..(k - 1) : wire'[j].data < wire'[k].data
    <2>1. wire'[k] = wire[k + 1] /\ k + 1 \in 1..Len(wire)
      BY <1>2
    <2>2. \A j \in 1..(k - 1) : wire'[j] = wire[j + 1] /\ j + 1 \in 1..((k + 1) - 1)
      BY <1>2, <1>3
    <2>3. 1 \in 1..((k + 1) - 1)
      BY <1>3
    <2> QED
      BY <2>1, <2>2, <2>3 DEF WireInv
  <1> QED
    BY <1>2, <1>3, <1>4, Zenon

\* Neither the network nor the server touches the socket.
LEMMA SocketAlone ==
  ASSUME SeqInv, Lose \/ ServerReceive \/ ServerSend \/ ServerResend
  PROVE  /\ SeqInv' /\ Left' = Left /\ Calling' = Calling
         /\ UNCHANGED <<state, seq, rx, pc, out, connects, sends>>
  <1>1. UNCHANGED <<state, seq, rx, pc, out, connects, sends, clobber>>
    BY DEF Lose, ServerReceive, ServerSend, ServerResend, socket
  <1> QED
    BY <1>1, Zenon DEF SeqInv, Building, Left, Calling

\* What the server takes is the next byte of the stream: the number it expects belongs to
\* no other.
LEMMA TakenStream ==
  ASSUME NumbersInv, WireInv, SeqInv, CallInv, ServerReceive
  PROVE  WireInv'
  <1>1. Types /\ ServerInv /\ wire \in Seq(Segments)
    BY DEF NumbersInv, Types
  <1> DEFINE m == Head(wire)
  <1>2. wire # <<>> /\ wire' = Tail(wire) /\ m \in Segments
    BY <1>1, ServerReceives, Zenon
  <1>3. m = wire[1] /\ 1 \in 1..Len(wire)
    BY <1>1, <1>2, Taken
  <1>4. m.seq \in Nat /\ m.data \in Nat
    BY <1>2, Zenon DEF Segments
  <1>5. /\ m.kind = "SYN" => m.seq = 0
        /\ m.data # 0 => /\ m.data <= m.seq /\ m.data <= Left /\ Len(srv.bytes) < m.data
    BY <1>3 DEF WireInv
  <1>6. Left' = Left
    BY SocketAlone, Zenon
  <1>7. /\ Len(srv.bytes) <= Left /\ Left \in Int /\ Len(srv.bytes) \in Nat /\ srv.bytes \in Seq(Nat)
        /\ srv.rcv \in Nat
    BY <1>1, Fields DEF WireInv, Left, Types
  <1> HIDE DEF m
  <1>8. ASSUME NEW n \in Nat, n = Len(srv'.bytes), n <= Left,
               n <= Len(srv.bytes) \/ n = m.data,
               \A i \in 1..n : srv'.bytes[i] = i,
               srv'.st # "listen" /\ ~srv'.eof => srv'.rcv = n + 1
        PROVE  WireInv'
    <2>1. ASSUME NEW k \in 1..Len(wire')
          PROVE  /\ wire'[k].kind = "SYN" => wire'[k].seq = 0
                 /\ wire'[k].data # 0 =>
                      /\ wire'[k].data <= wire'[k].seq /\ wire'[k].data <= Left
                      /\ n < wire'[k].data
                      /\ \A j \in 1..(k - 1) : wire'[j].data < wire'[k].data
      <3>1. /\ wire'[k].kind = "SYN" => wire'[k].seq = 0
            /\ wire'[k].data \in Nat
            /\ wire'[k].data # 0 =>
                 /\ wire'[k].data <= wire'[k].seq /\ wire'[k].data <= Left
                 /\ Len(srv.bytes) < wire'[k].data /\ m.data < wire'[k].data
                 /\ \A j \in 1..(k - 1) : wire'[j].data < wire'[k].data
        BY <1>1, <1>2, <1>3, FirstTaken, Zenon
      <3> QED
        BY <1>4, <1>7, <1>8, <3>1
    <2> QED
      BY <1>6, <1>8, <2>1, Zenon DEF WireInv
  <1>9. CASE srv' = srv
    <2>1. PICK n \in Nat : n = Len(srv.bytes)
      BY <1>7
    <2> QED
      BY <1>7, <1>8, <1>9, <2>1 DEF WireInv
  <1>10. CASE srv'.bytes = <<>> /\ (srv'.st = "listen" \/ srv'.rcv = 1)
    <2>1. 0 = Len(srv'.bytes) /\ 0 \in Nat /\ 0 <= Left /\ 0 <= Len(srv.bytes)
      BY <1>7, <1>10
    <2> QED
      BY <1>8, <1>10, <2>1
  <1>11. CASE /\ srv.st # "listen" /\ srv'.bytes = srv.bytes
              /\ ~srv'.eof => ~srv.eof /\ srv'.rcv = srv.rcv
    <2>1. PICK n \in Nat : n = Len(srv.bytes)
      BY <1>7
    <2> QED
      BY <1>7, <1>8, <1>11, <2>1 DEF WireInv
  <1>12. CASE /\ srv.st # "listen" /\ m.seq = srv.rcv /\ ~srv.eof /\ m.data # 0
              /\ srv'.bytes = Append(srv.bytes, m.data)
              /\ ~srv'.eof => srv'.rcv = srv.rcv + 1
    <2>1. PICK l \in Nat : l = Len(srv.bytes)
      BY <1>7
    <2>2. srv.rcv = l + 1
      BY <1>12, <2>1 DEF WireInv
    <2>3. m.data = l + 1
      BY <1>4, <1>5, <1>12, <2>1, <2>2
    <2>4. /\ Len(srv'.bytes) = l + 1 /\ srv'.bytes[l + 1] = m.data
          /\ \A i \in 1..l : srv'.bytes[i] = srv.bytes[i]
      BY <1>4, <1>7, <1>12, <2>1, OneMore
    <2>5. \A i \in 1..(l + 1) : i \in 1..l \/ i = l + 1
      OBVIOUS
    <2>6. \A i \in 1..l : srv.bytes[i] = i
      BY <2>1 DEF WireInv
    <2>7. \A i \in 1..(l + 1) : srv'.bytes[i] = i
      BY <2>3, <2>4, <2>5, <2>6
    <2>8. PICK n \in Nat : n = l + 1
      BY NextNumber, Zenon
    <2> QED
      BY <1>5, <1>8, <1>12, <2>2, <2>3, <2>4, <2>7, <2>8, Zenon
  <1>13. CASE srv' = Served(m) /\ Accepted(m)
    <2>1. srv.st # "listen"
      BY <1>13 DEF Accepted
    <2> QED
      BY <1>1, <1>2, <1>10, <1>11, <1>12, <1>13, <2>1, ServedIs
  <1>14. CASE m.kind = "SYN" /\ srv'.rcv = m.seq + 1 /\ srv'.bytes = <<>>
    BY <1>5, <1>10, <1>14
  <1> QED
    BY <1>1, <1>9, <1>13, <1>14, ServerReceives, Zenon DEF m

\* The network and the server keep what makes the stream.
LEMMA ServerStream ==
  ASSUME NumbersInv, WireInv, SeqInv, CallInv,
         Lose \/ ServerReceive \/ ServerSend \/ ServerResend
  PROVE  WireInv' /\ SeqInv' /\ CallInv'
  <1>1. Types /\ ServerInv /\ wire \in Seq(Segments) /\ back \in Seq(Segments)
    BY DEF NumbersInv, Types
  <1>2. SeqInv'
    BY SocketAlone
  <1>3. WireInv'
    <2>1. CASE wire' = wire /\ srv'.bytes = srv.bytes /\ srv'.rcv = srv.rcv
               /\ srv'.st = srv.st /\ srv'.eof = srv.eof
      BY <2>1, SocketAlone, Zenon DEF WireInv
    <2>2. CASE ServerSend \/ ServerResend
      <3>1. ServerSend => srv.st = "open"
        BY DEF ServerSend
      <3> QED
        BY <1>1, <2>1, <2>2, <3>1, ServerSends DEF ServerSend, ServerResend
    <2>3. CASE Lose
      <3>1. srv' = srv /\ (wire' = wire \/ (wire # <<>> /\ wire' = Tail(wire)))
        BY <2>3, Zenon DEF Lose, server
      <3>2. CASE wire # <<>> /\ wire' = Tail(wire)
        BY <1>1, <3>1, <3>2, FirstTaken, SocketAlone, Zenon DEF WireInv
      <3> QED
        BY <2>1, <3>1, <3>2
    <2> QED
      BY <2>2, <2>3, TakenStream, Zenon
  <1>4. \A k \in 1..Len(wire') : \E i \in 1..Len(wire) : wire'[k] = wire[i]
    <2>1. wire' = wire \/ (wire # <<>> /\ wire' = Tail(wire))
      BY DEF Lose, ServerReceive, ServerSend, ServerResend
    <2> QED
      BY <1>1, <2>1, Taken
  <1>5. srv.st = "listen" /\ ~(\E k \in 1..Len(wire) : wire[k].kind = "SYN") => srv'.st = "listen"
    <2>1. CASE ServerReceive
      <3>1. wire # <<>>
        BY <2>1 DEF ServerReceive
      <3>2. Head(wire) = wire[1] /\ 1 \in 1..Len(wire)
        BY <1>1, <3>1, Taken
      <3> QED
        BY <1>1, <2>1, <3>2, ServerReceives DEF Accepted
    <2> QED
      BY <2>1, Zenon DEF Lose, ServerSend, ServerResend, server
  <1>6. ASSUME NEW k \in 1..Len(back'), back'[k].kind = "SYNACK"
        PROVE  0 < back'[k].ack /\ ~Calling /\ connects # 0
    <2>1. CASE \E i \in 1..Len(back) : back'[k] = back[i]
      BY <1>6, <2>1 DEF CallInv
    <2>2. ASSUME NEW kk, NEW s, NEW a, NEW d, Answers(kk, s, a, d),
                 kk = "SYNACK" => 0 < a /\ ~Calling /\ connects # 0
          PROVE  0 < back'[k].ack /\ ~Calling /\ connects # 0
      <3>1. /\ back'[Len(back) + 1].kind = kk /\ back'[Len(back) + 1].ack = a
            /\ \A i \in 1..Len(back) : back'[i] = back[i]
            /\ k \in 1..Len(back) \/ k = Len(back) + 1
        BY <1>1, <2>2, AnswersIs, Zenon
      <3> QED
        BY <1>6, <2>1, <2>2, <3>1, Zenon
    <2>3. CASE Lose
      BY <1>1, <2>1, <2>3, BackIs, Zenon
    <2>4. CASE ServerSend
      BY <1>1, <2>2, <2>4, ServerSends, Zenon
    <2>5. srv.st = "syn_rcvd" => 0 < srv.rcv /\ ~Calling /\ connects # 0
      <3>1. srv.st = "syn_rcvd" => ~srv.eof /\ Len(srv.bytes) \in Nat
        BY <1>1, Fields, Zenon DEF ServerInv
      <3>2. srv.st = "syn_rcvd" => srv.rcv = Len(srv.bytes) + 1
        BY <3>1, Zenon DEF WireInv
      <3>3. srv.st = "syn_rcvd" => 0 < srv.rcv
        BY <3>1, <3>2, NextNumber, Zenon
      <3>4. srv.st = "syn_rcvd" => ~Calling /\ connects # 0
        BY Zenon DEF CallInv
      <3> QED
        BY <3>3, <3>4, Zenon
    <2>6. CASE ServerResend
      <3>1. srv.st # "listen" /\ srv.una = Isn => srv.st = "syn_rcvd"
        BY <1>1, Unacknowledged, Zenon
      <3> QED
        BY <1>1, <2>2, <2>5, <2>6, <3>1, ServerResends, Zenon
    <2>7. CASE ServerReceive
      <3> DEFINE m == Head(wire)
      <3>1. wire # <<>> /\ m \in Segments
        BY <1>1, <2>7, ServerReceives
      <3>2. m = wire[1] /\ 1 \in 1..Len(wire) /\ m.seq \in Nat
        BY <1>1, <3>1, Taken, Zenon DEF Segments
      <3> HIDE DEF m
      <3>3. m.kind = "SYN" => 0 < m.seq + 1 /\ ~Calling /\ connects # 0
        BY <3>2 DEF CallInv
      <3>4. CASE m.kind = "SYN" /\ Answers("SYNACK", Isn', m.seq + 1, 0)
        BY <2>2, <3>3, <3>4, Zenon
      <3>5. CASE srv.st = "syn_rcvd" /\ Answers("SYNACK", srv.una, srv.rcv, 0)
        BY <2>2, <2>5, <3>5
      <3>6. CASE back' = back
        BY <2>1, <3>6
      <3>7. CASE \E s, a \in Nat : Answers("ACK", s, a, 0)
        BY <2>2, <3>7, Zenon
      <3> QED
        BY <1>1, <2>7, <3>4, <3>5, <3>6, <3>7, ServerReceives, Zenon DEF m
    <2> QED
      BY <2>3, <2>4, <2>6, <2>7
  <1>7. CallInv'
    <2>1. UNCHANGED <<state, seq, rx, pc, connects, sends>> /\ Calling' = Calling
      BY SocketAlone
    <2>2. Calling \/ connects = 0 =>
            srv'.st = "listen" /\ \A k \in 1..Len(wire') : wire'[k].kind # "SYN"
      BY <1>4, <1>5, Zenon DEF CallInv
    <2> QED
      BY <1>6, <2>1, <2>2 DEF CallInv
  <1> QED
    BY <1>2, <1>3, <1>7

\* For every number of bytes and every fault of the network: on its first connection the
\* server takes the program's bytes in order and without a gap, even when the handler's
\* segments overwrite the call's in the shared buffers or move its number in the middle of
\* SendSegment (tcp.cpp:33-54, 66-70).
THEOREM AlwaysStreamPrefix == Spec => []StreamPrefix
  <1>1. Init => StreamInv
    <2> SUFFICES ASSUME Init
                 PROVE  WireInv /\ SeqInv /\ CallInv
      BY Zenon DEF StreamInv
    <2>1. /\ Len(srv.bytes) = 0 /\ srv.st = "listen" /\ out.seg.kind = "ACK" /\ out.seg.data = 0
          /\ Len(clobber) = 0 /\ Len(wire) = 0 /\ Len(back) = 0
          /\ pc = "out" /\ state = "CLOSED" /\ sends = 0 /\ rx = 0
      BY DEF Init, Closed, NoOut, Segment
    <2> QED
      BY <2>1 DEF WireInv, Left, SeqInv, Building, CallInv, Calling
  <1>2. NumbersInv /\ StreamInv /\ [Next]_vars => StreamInv'
    <2>1. ASSUME NumbersInv, StreamInv, Next, connects' <= 1
          PROVE  WireInv' /\ SeqInv' /\ CallInv'
      <3>1. connects' = connects \/ (Connect /\ connects' = connects + 1)
        BY <2>1 DEF Next, Program, Connect, ConnectAck, ConnectState, Send, Close, Build,
           Transmit, Load, Advance, RecvStart, RecvEmpty, RecvSecond, RecvClear, RecvLen,
           RecvWaited, HandleIPv4Payload, Lose, ServerReceive, ServerSend, ServerResend
      <3>2. connects <= 1
        BY <2>1, <3>1 DEF NumbersInv, Types
      <3>3. WireInv /\ SeqInv /\ CallInv
        BY <2>1, <3>2 DEF StreamInv
      <3> QED
        BY <2>1, <3>3, ConnectStream, BeginStream, BuildStream, RecvStream, TransmitStream,
           HandlerStream, ServerStream, Zenon DEF Next, Program
    <2>2. ASSUME StreamInv, UNCHANGED vars
          PROVE  StreamInv'
      <3>1. UNCHANGED <<state, seq, rx, pc, out, clobber, connects, sends, wire, back, srv>>
        BY <2>2 DEF vars, socket, network, server
      <3> QED
        BY <2>2, <3>1, Zenon DEF StreamInv, WireInv, Left, SeqInv, Building, CallInv, Calling
    <2> QED
      BY <2>1, <2>2 DEF StreamInv
  <1>3. NumbersInv /\ StreamInv => StreamPrefix
    <2>1. NumbersInv => DOMAIN srv.bytes = 1..Len(srv.bytes)
      BY Fields DEF NumbersInv
    <2> QED
      BY <2>1, Zenon DEF StreamInv, WireInv, StreamPrefix
  <1> QED
    BY <1>1, <1>2, <1>3, AlwaysNumbers, PTL DEF Spec
=============================================================================
