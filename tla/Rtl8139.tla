------------------------------ MODULE Rtl8139 ------------------------------
(***************************************************************************)
(* The receive ring of the network card and its interrupt handler.  The    *)
(* card stores frames while the handler runs; the two meet only in the     *)
(* ring, the interrupt status register and the read pointer CAPR.          *)
(***************************************************************************)
EXTENDS Integers, Sequences

CONSTANTS
  RING,     \* bytes of the ring (8192)
  Slack,    \* bytes of rx_buffer behind the ring (16 + 1500)
  Word,     \* values of a uint32_t (2^32)
  Lengths   \* frame lengths the card reports, checksum included

ASSUME RingAssumption ==
  /\ RING \in Nat /\ RING > 16 /\ RING % 4 = 0
  /\ Word \in Nat /\ Word > 0 /\ Word % RING = 0
  /\ Slack \in Nat
  /\ Lengths \subseteq 1..(Slack + 4)

VARIABLES
  pending,      \* frames in the ring: where each header is, and the frame
  wr,           \* where the card stores the next header
  isr,          \* interrupt status register
  capr,         \* CAPR, as the driver wrote it
  rx_read_ptr,
  irq,          \* where HandleInterrupt stands, "idle" outside
  status        \* its local copy of isr

card == <<pending, wr, isr, capr, rx_read_ptr, irq, status>>

\* Activate: the card is reset, and a reset CAPR is -16.
CardInit ==
  /\ pending = <<>> /\ wr = 0
  /\ isr = {} /\ capr = RING - 16
  /\ rx_read_ptr = 0
  /\ irq = "idle" /\ status = {}

-----------------------------------------------------------------------------
(***************************************************************************)
(* The card.                                                               *)
(***************************************************************************)

\* A header of four bytes and the frame, rounded up to a multiple of four.
Room(n) == ((n + 4 + 3) \div 4) * 4

ReadPointer == (capr + 16) % RING

\* CR bit 0.
BufferEmpty == ReadPointer = wr

\* A frame that would fill the ring is lost.
Fits(n) == ((wr - ReadPointer) % RING) + Room(n) < RING

Arrive(f) ==
  /\ Fits(f.len)
  /\ pending' = Append(pending, [at |-> wr, frame |-> f])
  /\ wr' = (wr + Room(f.len)) % RING
  /\ isr' = isr \cup {"ROK"}
  /\ UNCHANGED <<capr, rx_read_ptr, irq, status>>

\* The card has sent a frame.
Sent ==
  /\ isr' = isr \cup {"TOK"}
  /\ UNCHANGED <<pending, wr, capr, rx_read_ptr, irq, status>>

-----------------------------------------------------------------------------
(***************************************************************************)
(* RTL8139Driver::HandleInterrupt.                                         *)
(***************************************************************************)

ReadStatus ==
  /\ irq = "idle"
  /\ isr # {}
  /\ status' = isr
  /\ irq' = "ack"
  /\ UNCHANGED <<pending, wr, isr, capr, rx_read_ptr>>

\* A variant that acknowledges whatever the register holds by now.
AckAll ==
  /\ irq = "ack"
  /\ isr' = {}
  /\ irq' = IF "ROK" \in status THEN "receive" ELSE "idle"
  /\ status' = {}
  /\ UNCHANGED <<pending, wr, capr, rx_read_ptr>>

\* Writing the value back clears the bits that were read.
Ack ==
  /\ irq = "ack"
  /\ isr' = isr \ status
  /\ irq' = IF "ROK" \in status THEN "receive" ELSE "idle"
  /\ status' = {}
  /\ UNCHANGED <<pending, wr, capr, rx_read_ptr>>

\* A variant that does not round up.
AdvanceUnaligned(n) == (rx_read_ptr + n + 4) % Word

\* (rx_read_ptr + length + 4 + 3) & ~3.
Advance(n) == (((rx_read_ptr + n + 4 + 3) \div 4) * 4) % Word

\* One turn of the loop of HandleReceive: the frame whose header is at the read
\* pointer is dispatched.  (RingInStep: there is one.)
Receive(f) ==
  /\ irq = "receive"
  /\ ~BufferEmpty
  /\ pending # <<>>
  /\ pending[1].at = rx_read_ptr % RING
  /\ pending[1].frame = f
  /\ pending' = Tail(pending)
  /\ rx_read_ptr' = Advance(f.len)
  /\ capr' = (rx_read_ptr' - 16) % RING
  /\ UNCHANGED <<wr, isr, irq, status>>

Done ==
  /\ irq = "receive"
  /\ BufferEmpty
  /\ irq' = "idle"
  /\ UNCHANGED <<pending, wr, isr, capr, rx_read_ptr, status>>

CardNext ==
  \/ \E n \in Lengths : Arrive([len |-> n])
  \/ Sent \/ ReadStatus \/ Ack \/ Done
  \/ pending # <<>> /\ Receive(pending[1].frame)

CardSpec == CardInit /\ [][CardNext]_card
-----------------------------------------------------------------------------
(***************************************************************************)
(* Properties.                                                             *)
(***************************************************************************)

\* The driver and the card agree on the ring across its end: the driver's pointer
\* is at the header of the oldest frame, the ring is empty for the one when it is
\* for the other, and what Dispatch is given (the frame without its checksum) lies
\* inside rx_buffer even where it runs over the end of the ring
\* (rtl8139.cpp:4, 93-104).
RingInStep ==
  /\ ReadPointer = rx_read_ptr % RING
  /\ BufferEmpty <=> pending = <<>>
  /\ pending # <<>> => pending[1].at = rx_read_ptr % RING
  /\ \A i \in DOMAIN pending :
       pending[i].at + 4 + (pending[i].frame.len - 4) <= RING + Slack

\* No frame is left in the ring without an interrupt to fetch it: the handler
\* acknowledges before it looks, and only what it has seen (rtl8139.cpp:86-91).
NoFrameStranded ==
  pending # <<>> => \/ "ROK" \in isr
                    \/ irq = "receive"
                    \/ irq = "ack" /\ "ROK" \in status
=============================================================================
