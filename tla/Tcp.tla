--------------------------------- MODULE Tcp ---------------------------------
(***************************************************************************)
(* The TCP socket of the kernel and the system calls on it, against a      *)
(* server across a network that keeps the order of segments but may lose   *)
(* some.  The network interrupt runs HandleIPv4Payload as a whole, between *)
(* any two statements of the program's call.  The segments of both share   *)
(* static transmit buffers (tcp.cpp, ipv4.cpp, rtl8139.cpp).               *)
(*                                                                         *)
(* Every data segment carries one byte.  Its value is its own number, so   *)
(* that the properties can tell which bytes arrive where.                  *)
(***************************************************************************)
EXTENDS Integers, Sequences

CONSTANTS
  MaxConnects,  \* how often the program calls connect
  MaxSends,     \* bytes the program sends
  MaxData,      \* bytes the server sends on a connection
  MaxFlight,    \* segments on the wire in one direction
  MaxFaults     \* segments the network loses or the server sends again

ASSUME TcpAssumption ==
  {MaxConnects, MaxSends, MaxData, MaxFlight, MaxFaults} \subseteq Nat

VARIABLES
  \* the socket
  state, seq, ack,
  rx,        \* tcp_rx_buf; 0 when tcp_rx_ready is false, NoBytes when it is true
             \* but tcp_rx_len is 0
  \* the program's call
  pc,
  out,       \* the segment being built, and where to go on after it
  clobber,   \* the segment the interrupt has put through the same buffers since
  first,     \* first half of what sys_net_tcp_recv copies
  got,       \* what the last call of recv returned, in two halves
  connects, sends,
  \* the network
  wire, back, losses,
  \* the server
  srv, resends

socket == <<state, seq, ack>>
reading == <<first, got>>
network == <<wire, back, losses>>
server == <<srv, resends>>
vars == <<socket, rx, pc, out, clobber, reading, connects, sends, network, server>>

\* The numbers a connection uses: the n-th connection of the server starts at
\* Base * n, the kernel always at the same number (0xDEADBEEF).
Base == MaxData + 3
InitialSeq == 0

NoBytes == -1

\* SYN, SYN|ACK, ACK, PSH|ACK and FIN|ACK.
Kinds == {"SYN", "SYNACK", "ACK", "DATA", "FIN"}
HasACK(m) == m.kind # "SYN"

Segment(kind, s, a, data) == [kind |-> kind, seq |-> s, ack |-> a, data |-> data]

NoOut == [seg |-> Segment("ACK", 0, 0, 0), then |-> "out"]
Closed == [st |-> "listen", conn |-> 0, rcv |-> 0, snd |-> 0, una |-> 0,
           fin |-> FALSE, eof |-> FALSE, bytes |-> <<>>]

Init ==
  /\ state = "CLOSED" /\ seq = 0 /\ ack = 0
  /\ rx = 0
  /\ pc = "out" /\ out = NoOut /\ clobber = <<>>
  /\ first = 0 /\ got = <<0, 0>>
  /\ connects = 0 /\ sends = 0
  /\ wire = <<>> /\ back = <<>> /\ losses = 0
  /\ srv = Closed /\ resends = 0

-----------------------------------------------------------------------------
(***************************************************************************)
(* SendSegment of a system call: the segment is built in tx_buf, copied    *)
(* through the buffers below, and seq moves on.                            *)
(***************************************************************************)

Begin(kind, data, then) ==
  /\ pc' = "build"
  /\ out' = [seg |-> Segment(kind, 0, 0, data), then |-> then]

Build ==
  /\ pc = "build"
  /\ pc' = "transmit"
  /\ out' = [out EXCEPT !.seg.seq = seq, !.seg.ack = ack]
  /\ clobber' = <<>>
  /\ UNCHANGED <<socket, rx, reading, connects, sends, network, server>>

\* What reaches the wire: the segment; or, if the interrupt has used the buffers
\* in the meantime, also the data behind the other header, a second copy of the
\* other segment, or a segment whose checksum is wrong and that nobody takes.
Outcomes ==
  {<<out.seg>>}
    \cup (IF clobber = <<>> THEN {}
          ELSE {<<[out.seg EXCEPT !.ack = ack]>>, clobber, <<>>,
                <<[clobber[1] EXCEPT !.data = out.seg.data]>>})

Transmit ==
  /\ pc = "transmit"
  /\ pc' = "advance"
  /\ \E segs \in Outcomes : wire' = wire \o segs
  /\ clobber' = <<>>
  /\ UNCHANGED <<socket, rx, out, reading, connects, sends, back, losses, server>>

\* The sum for seq is loaded and stored in two instructions.
Load ==
  /\ pc = "advance"
  /\ pc' = "store"
  /\ out' = [out EXCEPT !.seg.seq = seq]
  /\ UNCHANGED <<socket, rx, clobber, reading, connects, sends, network, server>>

\* A variant that does not count the byte it has sent.
AdvanceControl ==
  /\ pc = "store"
  /\ seq' = out.seg.seq + (IF out.seg.kind = "DATA" THEN 0 ELSE 1)
  /\ pc' = out.then
  /\ out' = NoOut
  /\ UNCHANGED <<state, ack, rx, clobber, reading, connects, sends, network, server>>

\* SYN and FIN count one, data its size.
Advance ==
  /\ pc = "store"
  /\ seq' = out.seg.seq + 1
  /\ pc' = out.then
  /\ out' = NoOut
  /\ UNCHANGED <<state, ack, rx, clobber, reading, connects, sends, network, server>>

-----------------------------------------------------------------------------
(***************************************************************************)
(* The system calls.                                                       *)
(***************************************************************************)

\* sys_net_tcp_connect: TCPSocket::Connect, one assignment after the other.  The
\* wait that follows changes nothing here and may time out at any moment.
Connect ==
  /\ pc = "out"
  /\ connects < MaxConnects
  /\ connects' = connects + 1
  /\ seq' = InitialSeq
  /\ pc' = "c_ack"
  /\ UNCHANGED <<state, ack, rx, out, clobber, reading, sends, network, server>>

ConnectAck ==
  /\ pc = "c_ack"
  /\ ack' = 0
  /\ pc' = "c_state"
  /\ UNCHANGED <<state, seq, rx, out, clobber, reading, connects, sends, network, server>>

ConnectState ==
  /\ pc = "c_state"
  /\ state' = "SYN_SENT"
  /\ Begin("SYN", 0, "out")
  /\ UNCHANGED <<seq, ack, rx, clobber, reading, connects, sends, network, server>>

\* sys_net_tcp_send.
Send ==
  /\ pc = "out"
  /\ state = "ESTABLISHED"
  /\ sends < MaxSends
  /\ sends' = sends + 1
  /\ Begin("DATA", sends + 1, "out")
  /\ UNCHANGED <<socket, rx, clobber, reading, connects, network, server>>

\* sys_net_tcp_close.
Close ==
  /\ pc = "out"
  /\ state = "ESTABLISHED"
  /\ state' = "FIN_WAIT_1"
  /\ Begin("FIN", 0, "out")
  /\ UNCHANGED <<seq, ack, rx, clobber, reading, connects, sends, network, server>>

\* sys_net_tcp_recv with a segment waiting copies it with interrupts on, in two
\* halves here, and then gives the buffer free.
RecvStart ==
  /\ pc = "out"
  /\ rx > 0
  /\ first' = rx
  /\ pc' = "r_second"
  /\ UNCHANGED <<socket, rx, out, clobber, got, connects, sends, network, server>>

RecvSecond ==
  /\ pc = "r_second"
  /\ got' = <<first, rx>>
  /\ first' = 0
  /\ pc' = "r_clear"
  /\ UNCHANGED <<socket, rx, out, clobber, connects, sends, network, server>>

\* Nothing to copy.
RecvEmpty ==
  /\ pc = "out"
  /\ rx = NoBytes
  /\ pc' = "r_clear"
  /\ UNCHANGED <<socket, rx, out, clobber, reading, connects, sends, network, server>>

\* A variant that returns without giving the buffer free.
RecvNoClear ==
  /\ pc = "r_clear"
  /\ pc' = "out"
  /\ UNCHANGED <<socket, rx, out, clobber, reading, connects, sends, network, server>>

\* tcp_rx_ready, then tcp_rx_len.
RecvClear ==
  /\ pc = "r_clear"
  /\ rx' = 0
  /\ pc' = "r_len"
  /\ UNCHANGED <<socket, out, clobber, reading, connects, sends, network, server>>

RecvLen ==
  /\ pc = "r_len"
  /\ rx' = IF rx = 0 THEN 0 ELSE NoBytes
  /\ pc' = "out"
  /\ UNCHANGED <<socket, out, clobber, reading, connects, sends, network, server>>

\* A call that had to wait copies with interrupts off.
RecvWaited ==
  /\ pc = "out"
  /\ rx > 0
  /\ got' = <<rx, rx>>
  /\ rx' = 0
  /\ UNCHANGED <<socket, pc, out, clobber, first, connects, sends, network, server>>

-----------------------------------------------------------------------------
(***************************************************************************)
(* The network interrupt: TCPSocket::HandleIPv4Payload.  Neither the       *)
(* sender nor the numbers of the segment are looked at.                    *)
(***************************************************************************)

\* Segments sent by the handler go out at once.
Emit(segs) ==
  /\ wire' = wire \o segs
  /\ clobber' = IF pc = "transmit" THEN <<segs[Len(segs)]>> ELSE clobber

\* A variant that takes any acknowledgement.
HandleSynAckAny(m) ==
  /\ state = "SYN_SENT" /\ HasACK(m)
  /\ ack' = m.seq + 1
  /\ seq' = m.ack
  /\ state' = "ESTABLISHED"
  /\ Emit(<<Segment("ACK", seq', ack', 0)>>)
  /\ UNCHANGED rx

\* The answer to the SYN: the connection is there.
HandleSynAck(m) ==
  /\ state = "SYN_SENT" /\ m.kind = "SYNACK"
  /\ ack' = m.seq + 1
  /\ seq' = m.ack
  /\ state' = "ESTABLISHED"
  /\ Emit(<<Segment("ACK", seq', ack', 0)>>)
  /\ UNCHANGED rx

\* The server closes: the kernel closes too.
HandleFin(m) ==
  /\ state = "ESTABLISHED" /\ m.kind = "FIN"
  /\ ack' = m.seq + 1
  /\ seq' = seq + 1
  /\ state' = "LAST_ACK"
  /\ Emit(<<Segment("ACK", seq, ack', 0), Segment("FIN", seq, ack', 0)>>)
  /\ UNCHANGED rx

\* A variant that acknowledges one byte too many.
HandleDataAhead(m) ==
  /\ state = "ESTABLISHED" /\ m.kind = "DATA"
  /\ ack' = m.seq + 2
  /\ rx' = m.data
  /\ Emit(<<Segment("ACK", seq, ack', 0)>>)
  /\ UNCHANGED <<state, seq>>

\* The byte is acknowledged and put into the one receive buffer.
HandleData(m) ==
  /\ state = "ESTABLISHED" /\ m.kind = "DATA"
  /\ ack' = m.seq + 1
  /\ rx' = m.data
  /\ Emit(<<Segment("ACK", seq, ack', 0)>>)
  /\ UNCHANGED <<state, seq>>

\* Any acknowledgement counts as that of the FIN.
HandleClosing(m) ==
  /\ HasACK(m)
  /\ \/ state = "LAST_ACK" /\ state' = "CLOSED"
     \/ state = "FIN_WAIT_1" /\ state' = "FIN_WAIT_2"
  /\ UNCHANGED <<seq, ack, rx, wire, clobber>>

HandleLastFin(m) ==
  /\ state = "FIN_WAIT_2" /\ m.kind = "FIN"
  /\ ack' = m.seq + 1
  /\ state' = "CLOSED"
  /\ Emit(<<Segment("ACK", seq, ack', 0)>>)
  /\ UNCHANGED <<seq, rx>>

Ignored(m) ==
  /\ \/ state = "CLOSED"
     \/ state = "SYN_SENT" /\ m.kind # "SYNACK"
     \/ state = "ESTABLISHED" /\ m.kind \notin {"FIN", "DATA"}
     \/ state = "FIN_WAIT_2" /\ m.kind # "FIN"
  /\ UNCHANGED <<socket, rx, wire, clobber>>

HandleIPv4Payload ==
  /\ back # <<>>
  /\ back' = Tail(back)
  /\ LET m == Head(back) IN
     \/ HandleSynAck(m) \/ HandleFin(m) \/ HandleData(m)
     \/ HandleClosing(m) \/ HandleLastFin(m) \/ Ignored(m)
  /\ UNCHANGED <<pc, out, reading, connects, sends, losses, server>>

-----------------------------------------------------------------------------
(***************************************************************************)
(* The network and a server that follows the protocol.                     *)
(* A segment may also be lost before the wire: IPv4Handler::Send drops it  *)
(* when the ARP cache does not know the address.                           *)
(***************************************************************************)

Lose ==
  /\ losses + resends < MaxFaults
  /\ losses' = losses + 1
  /\ \/ wire # <<>> /\ wire' = Tail(wire) /\ UNCHANGED back
     \/ back # <<>> /\ back' = Tail(back) /\ UNCHANGED wire
  /\ UNCHANGED <<socket, rx, pc, out, clobber, reading, connects, sends, server>>

\* An idle server accepts a connection; the SYN of a connection it has gets the
\* answer again, or an acknowledgement once it is open.
ServeSyn(m) ==
  /\ m.kind = "SYN"
  /\ IF srv.st = "listen"
       THEN LET isn == Base * (srv.conn + 1) IN
            /\ srv' = [Closed EXCEPT !.st = "syn_rcvd", !.conn = srv.conn + 1,
                         !.rcv = m.seq + 1, !.snd = isn + 1, !.una = isn]
            /\ back' = Append(back, Segment("SYNACK", isn, m.seq + 1, 0))
       ELSE /\ back' = Append(back,
                 IF srv.st = "syn_rcvd" THEN Segment("SYNACK", srv.una, srv.rcv, 0)
                 ELSE Segment("ACK", srv.snd, srv.rcv, 0))
            /\ UNCHANGED srv

\* Everything else counts only on a connection, and if it acknowledges nothing
\* that was not sent.
Accepted(m) ==
  /\ srv.st # "listen"
  /\ m.ack <= srv.snd
  /\ srv.st = "syn_rcvd" => m.ack > srv.una

\* The server after a segment: what it acknowledges, the byte or the end of
\* the stream if it is the next expected, and the end of the connection.
Served(m) ==
  LET new == m.seq = srv.rcv /\ ~srv.eof
      data == new /\ m.data # 0
      fin == new /\ m.kind = "FIN"
      s == [srv EXCEPT !.st = "open",
              !.una = IF m.ack > @ THEN m.ack ELSE @,
              !.rcv = @ + (IF data THEN 1 ELSE 0) + (IF fin THEN 1 ELSE 0),
              !.eof = @ \/ fin,
              !.bytes = IF data THEN Append(@, m.data) ELSE @]
  IN  IF s.fin /\ s.eof /\ s.una = s.snd 
        THEN [Closed EXCEPT !.conn = s.conn, !.snd = s.snd] ELSE s

Serve(m) ==
  /\ HasACK(m)
  /\ srv' = IF Accepted(m) THEN Served(m) ELSE srv
  /\ back' = IF Accepted(m) /\ (m.kind # "ACK" \/ m.data # 0)
               THEN Append(back, Segment("ACK", srv'.snd, srv'.rcv, 0)) ELSE back

ServerReceive ==
  /\ wire # <<>>
  /\ Len(back) < MaxFlight
  /\ wire' = Tail(wire)
  /\ ServeSyn(Head(wire)) \/ Serve(Head(wire))
  /\ UNCHANGED <<socket, rx, pc, out, clobber, reading, connects, sends, losses, resends>>

ServerSend ==
  /\ srv.st = "open" /\ ~srv.fin
  /\ Len(back) < MaxFlight
  /\ \/ /\ srv.snd < Base * srv.conn + 1 + MaxData
        /\ back' = Append(back, Segment("DATA", srv.snd, srv.rcv, srv.snd))
        /\ srv' = [srv EXCEPT !.snd = @ + 1]
     \/ /\ back' = Append(back, Segment("FIN", srv.snd, srv.rcv, 0))
        /\ srv' = [srv EXCEPT !.snd = @ + 1, !.fin = TRUE]
  /\ UNCHANGED <<socket, rx, pc, out, clobber, reading, connects, sends, wire,
                 losses, resends>>

\* The oldest segment that is not acknowledged, again.
ServerResend ==
  /\ srv.st # "listen" /\ srv.una < srv.snd
  /\ losses + resends < MaxFaults
  /\ Len(back) < MaxFlight
  /\ resends' = resends + 1
  /\ back' = Append(back,
       CASE srv.una = Base * srv.conn -> Segment("SYNACK", srv.una, srv.rcv, 0)
         [] srv.fin /\ srv.una = srv.snd - 1 -> Segment("FIN", srv.una, srv.rcv, 0)
         [] OTHER -> Segment("DATA", srv.una, srv.rcv, srv.una))
  /\ UNCHANGED <<socket, rx, pc, out, clobber, reading, connects, sends, wire,
                 losses, srv>>

-----------------------------------------------------------------------------
Program ==
  \/ Connect \/ ConnectAck \/ ConnectState
  \/ Send \/ Close \/ Build \/ Transmit \/ Load \/ Advance
  \/ RecvStart \/ RecvEmpty \/ RecvSecond \/ RecvClear \/ RecvLen \/ RecvWaited

Next ==
  \/ Program
  \/ HandleIPv4Payload
  \/ Lose \/ ServerReceive \/ ServerSend \/ ServerResend

Spec == Init /\ [][Next]_vars
-----------------------------------------------------------------------------
(***************************************************************************)
(* Properties.                                                             *)
(***************************************************************************)

\* The socket becomes ESTABLISHED only with a server that has answered its SYN
\* and still holds the connection (tcp.cpp:94-101).
PeerConnected ==
  [][state # "ESTABLISHED" /\ state' = "ESTABLISHED" => srv.st # "listen"]_vars

\* No segment acknowledges what the server has not sent yet, whatever was lost,
\* repeated or overwritten in the transmit buffers (tcp.cpp:96, 106, 111, 134).
AcksOnlySent == \A i \in DOMAIN wire : wire[i].ack <= srv.snd

\* On its first connection, the bytes the server takes are the bytes the program
\* sent, in order and without a gap, even when the network interrupt overwrites
\* a segment in the transmit buffers (tcp.cpp:33-54, 66-70).
StreamPrefix ==
  connects <= 1 => \A i \in DOMAIN srv.bytes : srv.bytes[i] = i

\* As long as the server sends nothing twice, the calls of recv return its bytes
\* in order and none twice; only a segment that arrives while the buffer is
\* copied may show in the second half (syscall.cpp:431-477, tcp.cpp:110-116).
ReadsInOrder ==
  [][resends = 0 /\ (RecvSecond \/ RecvWaited)
       => got[2] < got'[1] /\ got'[1] <= got'[2]]_vars
=============================================================================
