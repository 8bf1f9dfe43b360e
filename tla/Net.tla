-------------------------------- MODULE Net --------------------------------
(***************************************************************************)
(* The network stack above the card: Ethernet and IPv4 dispatch, ARP, the  *)
(* ICMP echo, the UDP socket and the system calls on it.  The handlers run *)
(* inside the card's interrupt, one whole frame at a time; the program's   *)
(* calls run with interrupts on, so a frame may be handled between any two *)
(* of their statements.  Handlers and calls share the transmit buffers.    *)
(*                                                                         *)
(* A frame to send is its destination and its packet.  A datagram received *)
(* is two bytes.                                                           *)
(***************************************************************************)
EXTENDS Integers, Sequences

CONSTANTS
  Hosts,        \* IPv4 addresses of the neighbours
  MACs,         \* their Ethernet addresses
  Datagrams,    \* contents of the datagrams that arrive
  CacheSize,    \* entries of arp_cache (128)
  Descriptors   \* transmit descriptors (4)

ASSUME NetAssumption ==
  /\ CacheSize \in Nat \ {0}
  /\ Descriptors \in Nat \ {0}
  /\ Datagrams \subseteq Nat \ {0}

VARIABLES
  arp_cache,    \* the valid entries, in order
  heard,        \* history: the last address each host has claimed
  tx_buf,       \* IPv4Handler::tx_buf
  tx_buffers,   \* the driver's, one for each descriptor
  tsad,         \* the buffer whose address is in each descriptor
  tx_current,
  queue,        \* descriptors given to the card, with the frame that was meant
  udp_rx_buf,   \* its first udp_rx_len bytes
  udp_rx_ready,
  net_pc,       \* where the program's call stands
  local,        \* its local variables
  net_data,     \* NET_BUF_DATA
  newest,       \* history: the last datagram, until a call has returned it
  disturbed,    \* history: it came while a call was copying
  raced         \* history: a handler sent in the middle of a call's send

arp == <<arp_cache, heard>>
transmit == <<tx_buf, tx_buffers, tsad, tx_current, queue, raced>>
slot == <<udp_rx_buf, udp_rx_ready, newest, disturbed>>
call == <<net_pc, local, net_data>>
netvars == <<arp, transmit, slot, call>>

None == "none"
Nothing == [to |-> None, packet |-> None]
NoLocal == [want |-> Nothing, buf |-> 0, copy |-> 0]

\* After kernelMain, whose ARP request went out through descriptor 0.
NetInit ==
  /\ arp_cache = <<>> /\ heard = [h \in Hosts |-> None]
  /\ tx_buf = None
  /\ tx_buffers = [d \in 0..(Descriptors - 1) |-> Nothing]
  /\ tsad = [d \in 0..(Descriptors - 1) |-> d]
  /\ tx_current = 1 % Descriptors
  /\ queue = <<>> /\ raced = FALSE
  /\ udp_rx_buf = <<>> /\ udp_rx_ready = FALSE
  /\ newest = 0 /\ disturbed = FALSE
  /\ net_pc = "user" /\ local = NoLocal /\ net_data = <<>>

-----------------------------------------------------------------------------
(***************************************************************************)
(* ARP.                                                                    *)
(***************************************************************************)

\* A variant without the search for an entry of the same address.
CacheAppend(ip, mac) ==
  IF Len(arp_cache) < CacheSize
    THEN Append(arp_cache, [ip |-> ip, mac |-> mac]) ELSE arp_cache

\* ARPHandler::CacheSet: the entry of that address, of which there is at most one,
\* is updated; otherwise the first free one is taken; a full cache stays as it is.
CacheSet(ip, mac) ==
  IF \E i \in DOMAIN arp_cache : arp_cache[i].ip = ip
    THEN [i \in DOMAIN arp_cache |->
            IF arp_cache[i].ip = ip THEN [ip |-> ip, mac |-> mac] ELSE arp_cache[i]]
  ELSE IF Len(arp_cache) < CacheSize
    THEN Append(arp_cache, [ip |-> ip, mac |-> mac])
  ELSE arp_cache

\* CacheGet returns the first entry.
IsCached(ip, mac) ==
  \E i \in DOMAIN arp_cache :
    /\ arp_cache[i] = [ip |-> ip, mac |-> mac]
    /\ \A j \in 1..(i - 1) : arp_cache[j].ip # ip

Unknown(ip) == \A i \in DOMAIN arp_cache : arp_cache[i].ip # ip

-----------------------------------------------------------------------------
(***************************************************************************)
(* Sending.  RTL8139Driver::Send never looks whether the card is done with *)
(* a descriptor: CardKeepsUp is what it asks of the card.                  *)
(***************************************************************************)

CardKeepsUp == Len(queue) < Descriptors

\* The points of a call's send where a frame that a handler sends does harm: with
\* the IPv4 buffer filled, or with the driver's buffer chosen.
InDriver == {"s_copy", "s_tsad", "s_tsd", "s_next"}
InIPv4 == InDriver \cup {"s_buf"}

\* A variant that uses one descriptor for everything.
NextDescriptorSame == tx_current

NextDescriptor == (tx_current + 1) % Descriptors

\* A handler's send, as a whole.
HandlerSend(want, points) ==
  /\ CardKeepsUp
  /\ tx_buffers' = [tx_buffers EXCEPT ![tx_current] = want]
  /\ tsad' = [tsad EXCEPT ![tx_current] = tx_current]
  /\ queue' = Append(queue, [desc |-> tx_current, want |-> want])
  /\ tx_current' = NextDescriptor
  /\ raced' = (raced \/ net_pc \in points)

\* The card sends the frame of the oldest descriptor.  What the buffer holds
\* after that is of no interest.
Transmit ==
  /\ queue # <<>>
  /\ queue' = Tail(queue)
  /\ tx_buffers' = [tx_buffers EXCEPT ![tsad[Head(queue).desc]] = Nothing]
  /\ raced' = (raced /\ (Len(queue) > 1 \/ net_pc \in InIPv4))
  /\ UNCHANGED <<arp, tx_buf, tsad, tx_current, slot, call>>

\* sys_net_send_udp, down to the driver: UDPSocket::Send and IPv4Handler::Send.  An
\* address that is not in the cache ends the call without a change.
SendUdp ==
  /\ net_pc = "user"
  /\ \E ip \in Hosts, mac \in MACs :
       /\ IsCached(ip, mac)
       /\ local' = [local EXCEPT !.want = [to |-> mac, packet |-> "udp"]]
       /\ tx_buf' = "udp"
  /\ net_pc' = "s_buf"
  /\ UNCHANGED <<arp, tx_buffers, tsad, tx_current, queue, raced, slot, net_data>>

\* RTL8139Driver::Send.
SendBuf ==
  /\ net_pc = "s_buf"
  /\ local' = [local EXCEPT !.buf = tx_current]
  /\ net_pc' = "s_copy"
  /\ UNCHANGED <<arp, transmit, slot, net_data>>

\* What tx_buf holds after the copy is of no interest.
SendCopy ==
  /\ net_pc = "s_copy"
  /\ CardKeepsUp
  /\ tx_buffers' = [tx_buffers EXCEPT ![local.buf] =
                      [to |-> local.want.to, packet |-> tx_buf]]
  /\ tx_buf' = None
  /\ net_pc' = "s_tsad"
  /\ UNCHANGED <<arp, tsad, tx_current, queue, raced, slot, local, net_data>>

SendTsad ==
  /\ net_pc = "s_tsad"
  /\ tsad' = [tsad EXCEPT ![tx_current] = local.buf]
  /\ net_pc' = "s_tsd"
  /\ UNCHANGED <<arp, tx_buf, tx_buffers, tx_current, queue, raced, slot, local, net_data>>

SendTsd ==
  /\ net_pc = "s_tsd"
  /\ queue' = Append(queue, [desc |-> tx_current, want |-> local.want])
  /\ net_pc' = "s_next"
  /\ UNCHANGED <<arp, tx_buf, tx_buffers, tsad, tx_current, raced, slot, local, net_data>>

SendNext ==
  /\ net_pc = "s_next"
  /\ tx_current' = NextDescriptor
  /\ raced' = (raced /\ queue # <<>>)
  /\ local' = NoLocal
  /\ net_pc' = "user"
  /\ UNCHANGED <<arp, tx_buf, tx_buffers, tsad, queue, slot, net_data>>

-----------------------------------------------------------------------------
(***************************************************************************)
(* sys_net_recv_udp.                                                       *)
(***************************************************************************)

\* With a timeout the call waits; without, it tests udp_rx_ready once more.
RecvUdp ==
  /\ net_pc = "user"
  /\ \E next \in {"r_wait", "r_poll"} : net_pc' = IF udp_rx_ready THEN "r_len" ELSE next
  /\ UNCHANGED <<arp, transmit, slot, local, net_data>>

RecvPoll ==
  /\ net_pc = "r_poll"
  /\ net_pc' = IF udp_rx_ready THEN "r_len" ELSE "user"
  /\ UNCHANGED <<arp, transmit, slot, local, net_data>>

RecvTimeout ==
  /\ net_pc = "r_wait"
  /\ ~udp_rx_ready
  /\ net_pc' = "user"
  /\ UNCHANGED <<arp, transmit, slot, local, net_data>>

\* After cli nothing comes between the statements.
RecvWaited ==
  /\ net_pc = "r_wait"
  /\ udp_rx_ready
  /\ net_data' = udp_rx_buf
  /\ udp_rx_ready' = FALSE
  /\ udp_rx_buf' = <<>>
  /\ newest' = 0
  /\ net_pc' = "returned"
  /\ UNCHANGED <<arp, transmit, disturbed, local>>

\* A datagram was there: the copy runs with interrupts on.
RecvLen ==
  /\ net_pc = "r_len"
  /\ local' = [local EXCEPT !.copy = Len(udp_rx_buf)]
  /\ net_data' = <<>>
  /\ net_pc' = "r_copy"
  /\ UNCHANGED <<arp, transmit, slot>>

RecvCopy ==
  /\ net_pc = "r_copy"
  /\ Len(net_data) < local.copy
  /\ net_data' = Append(net_data, udp_rx_buf[Len(net_data) + 1])
  /\ UNCHANGED <<arp, transmit, slot, net_pc, local>>

\* A variant that does not give the slot free.
RecvReadyKept ==
  /\ net_pc = "r_copy"
  /\ Len(net_data) = local.copy
  /\ net_pc' = "r_clear"
  /\ UNCHANGED <<arp, transmit, slot, local, net_data>>

RecvReady ==
  /\ net_pc = "r_copy"
  /\ Len(net_data) = local.copy
  /\ udp_rx_ready' = FALSE
  /\ net_pc' = "r_clear"
  /\ UNCHANGED <<arp, transmit, udp_rx_buf, newest, disturbed, local, net_data>>

RecvClear ==
  /\ net_pc = "r_clear"
  /\ udp_rx_buf' = <<>>
  /\ newest' = IF disturbed THEN newest ELSE 0
  /\ local' = NoLocal
  /\ net_pc' = "returned"
  /\ UNCHANGED <<arp, transmit, udp_rx_ready, disturbed, net_data>>

\* The program uses what it got before its next call.
Use ==
  /\ net_pc = "returned"
  /\ net_data' = <<>>
  /\ net_pc' = "user"
  /\ UNCHANGED <<arp, transmit, slot, local>>

Copying == {"r_copy", "r_clear"}

-----------------------------------------------------------------------------
(***************************************************************************)
(* The handlers, called by EthernetDriver::Dispatch for each frame that the *)
(* card's interrupt finds in the ring (module Rtl8139).                    *)
(***************************************************************************)

\* ARPHandler::HandleEthernetPayload: whoever sends an ARP packet is remembered; a
\* request for the local address is answered.
HandleArp ==
  \E ip \in Hosts, mac \in MACs :
    /\ arp_cache' = CacheSet(ip, mac)
    /\ heard' = [heard EXCEPT ![ip] = mac]
    /\ \/ /\ HandlerSend([to |-> mac, packet |-> "arp"], InDriver)
          /\ UNCHANGED tx_buf
       \/ UNCHANGED transmit
    /\ UNCHANGED <<slot, call>>

\* ICMPHandler::HandleIPv4Payload: the reply goes to the sender, through the ARP
\* cache; a sender that is not in it gets none.
HandleEcho ==
  /\ \E ip \in Hosts, mac \in MACs :
       /\ IsCached(ip, mac)
       /\ HandlerSend([to |-> mac, packet |-> "echo"], InIPv4)
  /\ tx_buf' = IF net_pc \in {"s_buf", "s_copy"} THEN "echo" ELSE None
  /\ UNCHANGED <<arp, slot, call>>

\* SyscallUDPSocket::OnReceive: the newest datagram replaces the one that waits.
OnReceive(d) ==
  /\ udp_rx_buf' = <<d, d>>
  /\ udp_rx_ready' = TRUE

\* UDPSocket::HandleIPv4Payload for a datagram to the socket's port.
HandleUdp ==
  \E d \in Datagrams :
    /\ OnReceive(d)
    /\ newest' = d
    /\ disturbed' = (net_pc \in Copying)
    /\ UNCHANGED <<arp, transmit, call>>

Program ==
  \/ SendUdp \/ SendBuf \/ SendCopy \/ SendTsad \/ SendTsd \/ SendNext
  \/ RecvUdp \/ RecvPoll \/ RecvTimeout \/ RecvWaited
  \/ RecvLen \/ RecvCopy \/ RecvReady \/ RecvClear \/ Use

NetNext ==
  \/ HandleArp \/ HandleEcho \/ HandleUdp
  \/ Transmit
  \/ Program

NetSpec == NetInit /\ [][NetNext]_netvars
-----------------------------------------------------------------------------
(***************************************************************************)
(* Properties.                                                             *)
(***************************************************************************)

\* Where a host can be reached is what it last said, and nothing once said is
\* forgotten: only a host that found the cache full is unknown (arp.cpp:16-41).
CacheFollowsHosts ==
  \A h \in Hosts : heard[h] # None =>
    \/ IsCached(h, heard[h])
    \/ Unknown(h) /\ Len(arp_cache) = CacheSize

\* Every frame in a descriptor is still the one that was meant when the card
\* comes to send it, as long as the card is never more than Descriptors - 1
\* frames behind and no handler sends while a call is inside the driver
\* (rtl8139.cpp:62-80, ipv4.cpp:42-64).
TransmitsWhatWasMeant ==
  ~raced => \A i \in DOMAIN queue :
              tx_buffers[tsad[queue[i].desc]] = queue[i].want

\* A call that returns a datagram returns the newest, whole, and once; only one
\* that comes in the middle of a copy with interrupts on can spoil that, and a
\* call that has waited copies with interrupts off (syscall.cpp:73-87, 356-379).
ReturnsNewest ==
  [][net_pc # "returned" /\ net_pc' = "returned"
       => net_data' = <<newest, newest>> \/ (net_pc = "r_clear" /\ disturbed)]_netvars
=============================================================================
