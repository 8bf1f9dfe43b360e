----------------------------- MODULE Interrupts -----------------------------
(***************************************************************************)
(* From the devices to their handlers: the two interrupt controllers, the  *)
(* keyboard controller that the keyboard and the mouse share, the network  *)
(* card, and InterruptManager, from its construction in kernelMain to the  *)
(* running system.  Every handler runs with interrupts off and ends with   *)
(* the EOI; what the timer's does is in module Scheduler.                  *)
(***************************************************************************)
EXTENDS Rtl8139

CONSTANTS
  Keys,      \* the keys that are struck
  KeyQueue   \* codes the keyboard holds back

Shifts == {"lshift", "rshift"}

ASSUME KeysAssumption ==
  /\ Keys \subseteq Shifts \cup {"ctrl", "caps", "letter"}
  /\ KeyQueue \in Nat

VARIABLES
  boot,        \* where kernelMain stands
  handlers,    \* the lines with a handler
  irr, isrv,   \* requests, and lines in service, of the two controllers
  serving,     \* the line whose handler runs, or None
  obf,         \* output buffer of the keyboard controller, and its status bits
  config,      \* the lines it makes requests on
  queue,       \* bytes on their way into obf, of each sender
  held, capsOn, overlap,   \* history: keys down; both shift keys since none was
  shift, ctrl, caps_lock,  \* KeyboardDriver
  buffer,      \* MouseDriver: its first offset bytes
  early        \* history: a key in the mouse's constructor, or input before the
               \* requests it left were served

pic == <<irr, isrv, serving>>
kernel == <<boot, handlers>>
ps2 == <<obf, config, queue>>
fingers == <<held, capsOn, overlap>>
keyboard == <<shift, ctrl, caps_lock>>
vars == <<card, pic, kernel, ps2, fingers, keyboard, buffer, early>>

Timer == 0
Keyboard == 1
Cascade == 2
Nic == 11
Mouse == 12
Lines == {Timer, Keyboard, Nic, Mouse}
None == -1

\* Bytes of the keyboard controller, of the mouse and of the keyboard.
Config == [what |-> "config"]
Acknowledge == [what |-> "ack"]
Motion(n) == [what |-> "motion", n |-> n]
Code(k, down) ==
  [what |-> "key", key |-> k, down |-> down,
   upper |-> (held \cap Shifts # {}) # capsOn, ctrl |-> "ctrl" \in held,
   overlap |-> overlap]

\* As the boot loader leaves it.
Init ==
  /\ CardInit
  /\ boot = "start" /\ handlers = {}
  /\ irr = {} /\ isrv = {} /\ serving = None
  /\ obf = [full |-> FALSE, line |-> Keyboard, byte |-> Acknowledge]
  /\ config = {Keyboard}
  /\ queue = [s \in {"controller", "keyboard", "mouse"} |-> <<>>]
  /\ held = {} /\ capsOn = FALSE /\ overlap = FALSE
  /\ shift = FALSE /\ ctrl = FALSE /\ caps_lock = FALSE
  /\ buffer = <<>> /\ early = FALSE

-----------------------------------------------------------------------------
(***************************************************************************)
(* The devices.                                                            *)
(***************************************************************************)

Line(s) == IF s = "mouse" THEN Mouse ELSE Keyboard

\* The controller's own answer comes first, the two devices in any order.
Fill ==
  /\ ~obf.full
  /\ \E s \in DOMAIN queue :
       /\ queue[s] # <<>>
       /\ s # "controller" => queue["controller"] = <<>>
       /\ obf' = [full |-> TRUE, line |-> Line(s), byte |-> Head(queue[s])]
       /\ irr' = irr \cup ({Line(s)} \cap config)
       /\ queue' = [queue EXCEPT ![s] = Tail(@)]
  /\ UNCHANGED <<card, isrv, serving, kernel, config, fingers, keyboard, buffer, early>>

\* A read of the data port.  A request that was not served may go with its byte.
ReadData ==
  /\ obf' = [obf EXCEPT !.full = FALSE]
  /\ irr' \in {irr, irr \ {obf.line}}

\* More requests of the keyboard's line than bytes: the answer with the command
\* byte, read without an interrupt, leaves one.
LeftOver ==
  \/ Keyboard \in irr /\ serving = Keyboard
  \/ /\ Keyboard \in irr \/ serving = Keyboard
     /\ ~(obf.full /\ obf.line = Keyboard)

Constructing == boot \in {"start", "config", "enable", "ack"}

\* A bound: after input at the wrong time there is no more, nor any frame.
Strike(k) ==
  /\ ~early
  /\ Len(queue["keyboard"]) < KeyQueue
  /\ LET down == k \notin held
         now == IF down THEN held \cup {k} ELSE held \ {k}
     IN /\ held' = now
        /\ capsOn' = (capsOn # (k = "caps" /\ down))
        /\ overlap' = (Shifts \subseteq now \/ (overlap /\ Shifts \cap now # {}))
        /\ queue' = [queue EXCEPT !["keyboard"] = Append(@, Code(k, down))]
  /\ early' = (early \/ Constructing \/ LeftOver)
  /\ UNCHANGED <<card, pic, kernel, obf, config, keyboard, buffer>>

\* The mouse sends packets of three bytes once it has been told to.
Move ==
  /\ ~early
  /\ boot \notin {"start", "config", "enable"}
  /\ queue["mouse"] = <<>>
  /\ queue' = [queue EXCEPT !["mouse"] = <<Motion(0), Motion(1), Motion(2)>>]
  /\ early' = (early \/ boot # "on" \/ LeftOver)
  /\ UNCHANGED <<card, pic, kernel, obf, config, fingers, keyboard, buffer>>

Tick ==
  /\ Timer \notin irr
  /\ irr' = irr \cup {Timer}
  /\ UNCHANGED <<card, isrv, serving, kernel, ps2, fingers, keyboard, buffer, early>>

\* The card's own steps, once it is on.
CardStep ==
  /\ ~early
  /\ boot \in {"nic", "on"}
  /\ (\E n \in Lengths : Arrive([len |-> n])) \/ Sent
  /\ UNCHANGED <<pic, kernel, ps2, fingers, keyboard, buffer, early>>

-----------------------------------------------------------------------------
(***************************************************************************)
(* kernelMain.                                                             *)
(***************************************************************************)

\* InterruptManager resets the controllers; the keyboard and the mouse register.
\* MouseDriver then asks for the command byte.
Construct ==
  /\ boot = "start"
  /\ handlers' = {Keyboard, Mouse}
  /\ irr' = {} /\ isrv' = {}
  /\ queue' = [queue EXCEPT !["controller"] = <<Config>>]
  /\ boot' = "config"
  /\ UNCHANGED <<card, serving, obf, config, fingers, keyboard, buffer, early>>

\* WaitRead, and the byte that is there, with 0x02, becomes the command byte.
ReadConfig ==
  /\ boot = "config"
  /\ obf.full
  /\ ReadData
  /\ config' \in IF obf.byte = Config THEN {config \cup {Mouse}}
                                      ELSE {{Mouse}, {Keyboard, Mouse}}
  /\ boot' = "enable"
  /\ UNCHANGED <<card, isrv, serving, handlers, queue, fingers, keyboard, buffer, early>>

\* 0xD4, 0xF4: the mouse acknowledges.
EnableMouse ==
  /\ boot = "enable"
  /\ queue' = [queue EXCEPT !["mouse"] = <<Acknowledge>>]
  /\ boot' = "ack"
  /\ UNCHANGED <<card, pic, handlers, obf, config, fingers, keyboard, buffer, early>>

ReadAck ==
  /\ boot = "ack"
  /\ obf.full
  /\ ReadData
  /\ boot' = "drivers"
  /\ UNCHANGED <<card, isrv, serving, handlers, config, queue, fingers, keyboard, buffer, early>>

\* SelectDrivers and ActivateAll: the card registers and is switched on.
ActivateAll ==
  /\ boot = "drivers"
  /\ handlers' = handlers \cup {Nic}
  /\ boot' = "nic"
  /\ UNCHANGED <<card, pic, ps2, fingers, keyboard, buffer, early>>

\* The desktop, the scheduler's timer, InterruptManager::Activate.
Activate ==
  /\ boot = "nic"
  /\ handlers' = handlers \cup {Timer}
  /\ boot' = "on"
  /\ UNCHANGED <<card, pic, ps2, fingers, keyboard, buffer, early>>

-----------------------------------------------------------------------------
(***************************************************************************)
(* DoHandleInterrupt and the controllers.                                  *)
(***************************************************************************)

\* The card's line stays up as long as its status register holds something.
Raised(l) == IF l = Nic THEN isr # {} ELSE l \in irr

\* The second controller's lines have the priority of the line it is on.
Before(l, m) ==
  LET Master(n) == IF n >= 8 THEN Cascade ELSE n
  IN Master(l) < Master(m) \/ (Master(l) = Master(m) /\ l <= m)

TurnOf(l) == serving = None /\ \A m \in Lines : Raised(m) => Before(l, m)

Take(l) ==
  /\ boot = "on"
  /\ Raised(l) /\ TurnOf(l)
  /\ \A m \in isrv : ~Before(m, l)
  /\ irr' = irr \ {l}
  /\ isrv' = isrv \cup {l}
  /\ serving' = l
  /\ IF l = Nic THEN ReadStatus ELSE UNCHANGED card
  /\ UNCHANGED <<kernel, ps2, fingers, keyboard, buffer, early>>

\* A variant without the EOI of the second controller.
EoiMaster ==
  /\ isrv' = {m \in isrv : m >= 8}
  /\ serving' = None

\* The EOI ends the most urgent service of each controller it is sent to.
Eoi ==
  /\ isrv' = isrv \ {serving}
  /\ serving' = None

ServeTimer ==
  /\ serving = Timer
  /\ Eoi
  /\ UNCHANGED <<card, irr, kernel, ps2, fingers, keyboard, buffer, early>>

\* A variant that takes 0xB6, the release of the right shift key, for any other.
DecodeNoRelease(b) ==
  /\ shift' = IF b.key = "lshift" \/ (b.key = "rshift" /\ b.down) THEN b.down ELSE shift
  /\ ctrl' = IF b.key = "ctrl" THEN b.down ELSE ctrl
  /\ caps_lock' = (caps_lock # (b.key = "caps" /\ b.down))

Decode(b) ==
  /\ shift' = IF b.key \in Shifts THEN b.down ELSE shift
  /\ ctrl' = IF b.key = "ctrl" THEN b.down ELSE ctrl
  /\ caps_lock' = (caps_lock # (b.key = "caps" /\ b.down))

\* KeyboardDriver::HandleInterrupt reads whatever the data port holds.  A byte of
\* the mouse may look like any code; 0xFA is none.
ServeKeyboard ==
  /\ serving = Keyboard
  /\ ReadData
  /\ CASE obf.byte.what = "key" -> Decode(obf.byte)
       [] obf.byte.what = "ack" -> UNCHANGED keyboard
       [] OTHER -> \/ UNCHANGED keyboard
                   \/ \E k \in Keys, down \in BOOLEAN : Decode([key |-> k, down |-> down])
  /\ Eoi
  /\ UNCHANGED <<card, kernel, config, queue, fingers, buffer, early>>

\* A variant that reads without a look at the status register.
ForMouseAlways == TRUE

\* Bit 5 of the status register: the controller sets it with a byte of the mouse and
\* clears it when the byte is read.
ForMouse == obf.full /\ obf.line = Mouse

\* MouseDriver::HandleInterrupt; the third byte completes a packet, which goes to
\* Desktop::OnMouseMove.
ServeMouse ==
  /\ serving = Mouse
  /\ IF ForMouse
       THEN /\ ReadData
            /\ buffer' = IF Len(buffer) = 2 THEN <<>> ELSE Append(buffer, obf.byte)
       ELSE UNCHANGED <<obf, irr, buffer>>
  /\ Eoi
  /\ UNCHANGED <<card, kernel, config, queue, fingers, keyboard, early>>

\* RTL8139Driver::HandleInterrupt, in its steps.
ServeNic ==
  /\ serving = Nic
  /\ IF irq = "idle"
       THEN Eoi /\ UNCHANGED card
       ELSE /\ Ack \/ Done \/ (pending # <<>> /\ Receive(pending[1].frame))
            /\ UNCHANGED <<isrv, serving>>
  /\ UNCHANGED <<irr, kernel, ps2, fingers, keyboard, buffer, early>>

Kernel ==
  \/ Construct \/ ReadConfig \/ EnableMouse \/ ReadAck \/ ActivateAll \/ Activate
  \/ ServeTimer \/ ServeKeyboard \/ ServeMouse \/ ServeNic

Next ==
  \/ Fill \/ Move \/ Tick \/ CardStep
  \/ \E k \in Keys : Strike(k)
  \/ Kernel
  \/ \E l \in Lines : Take(l)

\* The processor goes on, the keyboard controller passes bytes on, and the least
\* urgent line gets its turn: the handlers take less time than a tick.
Fairness ==
  /\ WF_vars(Kernel) /\ WF_vars(Fill)
  /\ \A l \in Lines : SF_vars(Take(l))
  /\ []<>TurnOf(Mouse)

Spec == Init /\ [][Next]_vars /\ Fairness
-----------------------------------------------------------------------------
(***************************************************************************)
(* Properties.                                                             *)
(***************************************************************************)

\* Every code, and so every letter, finds the driver's modifiers as they were on
\* the keyboard when it was struck, with however many codes and interrupts in
\* between.  Two shift keys down at once are beyond the one flag
\* (keyboard.cpp:43-80), and so is a key struck while the mouse's constructor
\* reads the data port, or before the request that it leaves is served: that one
\* may read the same code twice (mouse.cpp:20-31).
ModifiersAsStruck ==
  LET b == obf.byte IN
  serving = Keyboard /\ obf.full /\ b.what = "key" /\ ~early
    => b.overlap \/ (b.upper = (shift # caps_lock) /\ b.ctrl = ctrl)

\* The mouse driver, which has no way to find its place again, counts the bytes of
\* a packet right: the interrupts left over from its own constructor are seen to be
\* empty, and none of its bytes goes to the keyboard's handler (mouse.cpp:34-44).
\* A mouse that moves before interrupts are on and the request that reading the
\* command byte has left is served can break this.
MouseInPhase ==
  LET onTheWay == (IF ForMouse THEN <<obf.byte>> ELSE <<>>) \o queue["mouse"] IN
  boot = "on" /\ ~early =>
    \A i \in DOMAIN onTheWay :
      onTheWay[i] = Motion((Len(buffer) + i - 1) % 3)

\* The most and the least urgent line are served whenever they ask.  Any service
\* that is not ended on the controllers it came through would keep the mouse, the
\* last in the order of both, waiting for ever (interrupts.cpp:120-143).
RequestsServed ==
  \A l \in {Timer, Mouse} : Raised(l) ~> (serving = l \/ ~Raised(l))
=============================================================================
