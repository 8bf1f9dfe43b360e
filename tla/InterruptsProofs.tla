-------------------------- MODULE InterruptsProofs --------------------------
(***************************************************************************)
(* The keyboard controller, for every sequence of strokes and moves: the   *)
(* modifiers and the phase of the mouse.  Then the receive ring of the     *)
(* network card, for every size of the ring and every set of frame         *)
(* lengths: the driver and the card stay in step across the end of the     *)
(* ring and across the overflow of the driver's pointer, and no frame is   *)
(* left without an interrupt.                                              *)
(***************************************************************************)
EXTENDS Interrupts, TLAPS

-----------------------------------------------------------------------------
(***************************************************************************)
(* The keyboard controller, while no input has come early.                 *)
(***************************************************************************)

Senders == {"controller", "keyboard", "mouse"}
Running == {"drivers", "nic", "on"}
KeyCodes ==
  [what : {"key"}, key : Keys, down : BOOLEAN,
   upper : BOOLEAN, ctrl : BOOLEAN, overlap : BOOLEAN]
Bytes == {Config, Acknowledge} \cup {Motion(n) : n \in 0..2} \cup KeyCodes

\* Which bytes can be where in each phase of the constructor and after it; with a
\* surplus request there is none but the mouse's acknowledgement, already read.
PortInv ==
  /\ boot \in {"start", "config", "enable", "ack"} \cup Running
  /\ boot # "on" => serving = None
  /\ queue \in [Senders -> Seq(Bytes)]
  /\ queue["keyboard"] \in Seq(KeyCodes)
  /\ obf \in [full : BOOLEAN, line : {Keyboard, Mouse}, byte : Bytes]
  /\ boot \in {"start", "enable"} =>
       ~obf.full /\ \A s \in Senders : queue[s] = <<>>
  /\ boot = "config" =>
       /\ queue["keyboard"] = <<>> /\ queue["mouse"] = <<>>
       /\ \/ ~obf.full /\ queue["controller"] = <<Config>>
          \/ obf.full /\ queue["controller"] = <<>>
  /\ boot = "ack" =>
       /\ queue["controller"] = <<>> /\ queue["keyboard"] = <<>>
       /\ \/ ~obf.full /\ queue["mouse"] = <<Acknowledge>>
          \/ obf.full /\ queue["mouse"] = <<>> /\ obf.byte = Acknowledge
  /\ boot \in Running =>
       /\ queue["controller"] = <<>>
       /\ obf.full => \/ obf.line = Keyboard /\ obf.byte \in KeyCodes
                      \/ obf.line = Mouse
       /\ LeftOver => /\ ~obf.full /\ obf.byte = Acknowledge
                     /\ queue["keyboard"] = <<>> /\ queue["mouse"] = <<>>

\* The mouse has sent all but q of a packet, of which the driver has n bytes, or b
\* and the next is in the buffer of the controller.
Sending(q, b, n) ==
  /\ queue["mouse"] = q
  /\ ForMouse => obf.byte = Motion(b) /\ Len(buffer) = b
  /\ ~ForMouse => Len(buffer) = n

PhaseInv ==
  /\ buffer \in Seq(Bytes)
  /\ boot \notin Running => buffer = <<>>
  /\ boot \in Running =>
       \/ Sending(<<>>, 2, 0)
       \/ Sending(<<Motion(2)>>, 1, 2)
       \/ Sending(<<Motion(1), Motion(2)>>, 0, 1)
       \/ Sending(<<Motion(0), Motion(1), Motion(2)>>, 2, 0)

\* The modifiers as the driver keeps them, and what a code does to them.
Modifiers == [shift : BOOLEAN, ctrl : BOOLEAN, caps : BOOLEAN]
Driver == [shift |-> shift, ctrl |-> ctrl, caps |-> caps_lock]
Effect(m, b) ==
  [shift |-> IF b.key \in Shifts THEN b.down ELSE m.shift,
   ctrl |-> IF b.key = "ctrl" THEN b.down ELSE m.ctrl,
   caps |-> (m.caps # (b.key = "caps" /\ b.down))]
AsStruck(m, b) == b.overlap \/ (b.upper = (m.shift # m.caps) /\ b.ctrl = m.ctrl)
AsHeld(m) ==
  /\ m.caps = capsOn
  /\ m.ctrl = ("ctrl" \in held)
  /\ overlap \/ m.shift = (held \cap Shifts # {})

\* The codes on their way to the driver.
Codes ==
  (IF boot \in Running /\ obf.full /\ obf.line = Keyboard THEN <<obf.byte>> ELSE <<>>)
    \o queue["keyboard"]

\* The states the driver will go through as it reads the codes on their way: each
\* code finds the modifiers it was struck with, and the last leaves them as they
\* are on the keyboard now.
KeyInv ==
  /\ held \subseteq Keys /\ capsOn \in BOOLEAN /\ overlap \in BOOLEAN
  /\ Shifts \subseteq held => overlap
  /\ overlap => held \cap Shifts # {}
  /\ Driver \in Modifiers
  /\ \E h \in [0..Len(Codes) -> Modifiers] :
       /\ h[0] = Driver
       /\ \A i \in 1..Len(Codes) :
            AsStruck(h[i - 1], Codes[i]) /\ h[i] = Effect(h[i - 1], Codes[i])
       /\ AsHeld(h[Len(Codes)])

InputInv == ~early => PortInv /\ PhaseInv /\ KeyInv

\* The fields of the output buffer and the senders' queues.
LEMMA PortTypes ==
  ASSUME PortInv
  PROVE  /\ obf.full \in BOOLEAN /\ obf.line \in {Keyboard, Mouse} /\ obf.byte \in Bytes
         /\ \A s \in Senders : queue[s] \in Seq(Bytes)
         /\ DOMAIN queue = Senders
  BY DEF PortInv

\* A step that leaves the bytes on their way, the fingers and the drivers alone.
LEMMA InputQuiet ==
  ASSUME PortInv, PhaseInv, KeyInv,
         UNCHANGED <<obf, queue, buffer, fingers, keyboard>>,
         boot' = boot \/ (boot \in Running /\ boot' \in Running),
         LeftOver' => LeftOver,
         boot' # "on" => serving' = None
  PROVE  PortInv' /\ PhaseInv' /\ KeyInv'
  <1>1. PortInv'
    BY DEF PortInv, Running
  <1>2. PhaseInv'
    BY DEF PhaseInv, Sending, ForMouse, Running
  <1>3. Codes' = Codes /\ Driver' = Driver /\ UNCHANGED fingers
    BY Zenon DEF Codes, Driver, Running, keyboard
  <1>4. KeyInv'
    BY <1>3 DEF KeyInv, AsHeld, fingers
  <1> QED
    BY <1>1, <1>2, <1>4

\* The codes on their way, the driver and the fingers: what KeyInv is about.
LEMMA KeyQuiet ==
  ASSUME KeyInv, Codes' = Codes, UNCHANGED <<fingers, keyboard>>
  PROVE  KeyInv'
  <1>1. Driver' = Driver /\ UNCHANGED fingers
    BY DEF Driver, keyboard
  <1> QED
    BY <1>1 DEF KeyInv, AsHeld, fingers

\* A byte goes from its sender into the output buffer.
LEMMA InputFill ==
  ASSUME PortInv, PhaseInv, KeyInv, Fill
  PROVE  PortInv' /\ PhaseInv' /\ KeyInv'
  <1>1. PICK s \in Senders :
          /\ queue[s] # <<>>
          /\ s # "controller" => queue["controller"] = <<>>
          /\ obf' = [full |-> TRUE, line |-> Line(s), byte |-> Head(queue[s])]
          /\ irr' = irr \cup ({Line(s)} \cap config)
          /\ queue' = [queue EXCEPT ![s] = Tail(@)]
    BY PortTypes, Zenon DEF Fill
  <1>2. /\ ~obf.full /\ UNCHANGED <<boot, serving, fingers, keyboard, buffer>>
    BY DEF Fill, kernel, pic
  <1>3. /\ queue' \in [Senders -> Seq(Bytes)] /\ queue'[s] = Tail(queue[s])
        /\ \A r \in Senders : r # s => queue'[r] = queue[r]
        /\ Head(queue[s]) \in Bytes
    BY <1>1, PortTypes DEF PortInv
  <1>4. obf' \in [full : BOOLEAN, line : {Keyboard, Mouse}, byte : Bytes]
    BY <1>1, <1>3 DEF Line
  <1>5. queue'["keyboard"] \in Seq(KeyCodes)
    BY <1>1, <1>3 DEF PortInv, Senders
  <1>6. CASE boot \notin Running
    <2>1. \/ boot = "config" /\ s = "controller" /\ queue["controller"] = <<Config>>
          \/ boot = "ack" /\ s = "mouse" /\ queue["mouse"] = <<Acknowledge>>
      BY <1>1, <1>2, <1>6 DEF PortInv, Senders
    <2>2. Head(<<Acknowledge>>) = Acknowledge /\ Tail(<<Acknowledge>>) = <<>> /\ Tail(<<Config>>) = <<>>
      OBVIOUS
    <2>3. PortInv'
      BY <1>1, <1>2, <1>3, <1>4, <1>5, <1>6, <2>1, <2>2 DEF PortInv, Running, Senders
    <2>4. PhaseInv'
      BY <1>2, <1>6 DEF PhaseInv, Running
    <2>5. Codes' = Codes
      BY <1>2, <1>3, <1>6, <2>1 DEF Codes, Senders, Running
    <2> QED
      BY <1>2, <2>3, <2>4, <2>5, KeyQuiet
  <1>7. CASE boot \in Running /\ s = "keyboard"
    <2>1. /\ queue["controller"] = <<>> /\ queue["keyboard"] # <<>>
          /\ queue["keyboard"] \in Seq(KeyCodes) /\ ~LeftOver
      BY <1>1, <1>7 DEF PortInv
    <2>2. /\ Head(queue["keyboard"]) \in KeyCodes
          /\ <<Head(queue["keyboard"])>> \o Tail(queue["keyboard"]) = queue["keyboard"]
          /\ <<>> \o queue["keyboard"] = queue["keyboard"]
      BY <2>1
    <2>3. ~LeftOver'
      BY <1>1, <1>2, <1>7, <2>1 DEF LeftOver, Line
    <2>4. PortInv'
      BY <1>1, <1>2, <1>3, <1>4, <1>5, <1>7, <2>1, <2>2, <2>3
         DEF PortInv, Running, Senders, Line
    <2>5. ~ForMouse /\ ~ForMouse' /\ queue'["mouse"] = queue["mouse"]
      BY <1>1, <1>2, <1>3, <1>7 DEF ForMouse, Line, Keyboard, Mouse, Senders
    <2>6. PhaseInv'
      BY <1>2, <1>7, <2>5 DEF PhaseInv, Sending, Running
    <2>7. Codes' = Codes
      BY <1>1, <1>2, <1>3, <1>7, <2>2 DEF Codes, Line
    <2> QED
      BY <1>2, <2>4, <2>6, <2>7, KeyQuiet
  <1>8. CASE boot \in Running /\ s = "mouse"
    <2>1. /\ queue["controller"] = <<>> /\ queue["mouse"] # <<>> /\ ~LeftOver
      BY <1>1, <1>8 DEF PortInv
    <2>2. ~LeftOver'
      BY <1>1, <1>2, <1>8, <2>1 DEF LeftOver, Line, Keyboard, Mouse
    <2>3. PortInv'
      BY <1>1, <1>2, <1>3, <1>4, <1>5, <1>8, <2>1, <2>2
         DEF PortInv, Running, Senders, Line
    <2>4. /\ ~ForMouse /\ ForMouse' /\ obf'.byte = Head(queue["mouse"])
          /\ queue'["mouse"] = Tail(queue["mouse"])
      BY <1>1, <1>2, <1>3, <1>8 DEF ForMouse, Line
    <2>5. PhaseInv'
      <3>1. CASE Sending(<<Motion(2)>>, 1, 2)
        <4>1. Sending(<<>>, 2, 0)'
          BY <1>2, <2>4, <3>1 DEF Sending
        <4> QED
          BY <1>2, <1>8, <4>1 DEF PhaseInv
      <3>2. CASE Sending(<<Motion(1), Motion(2)>>, 0, 1)
        <4>1. Sending(<<Motion(2)>>, 1, 2)'
          BY <1>2, <2>4, <3>2 DEF Sending
        <4> QED
          BY <1>2, <1>8, <4>1 DEF PhaseInv
      <3>3. CASE Sending(<<Motion(0), Motion(1), Motion(2)>>, 2, 0)
        <4>1. Sending(<<Motion(1), Motion(2)>>, 0, 1)'
          BY <1>2, <2>4, <3>3 DEF Sending
        <4> QED
          BY <1>2, <1>8, <4>1 DEF PhaseInv
      <3>4. ~Sending(<<>>, 2, 0)
        BY <2>1 DEF Sending
      <3> QED
        BY <1>8, <3>1, <3>2, <3>3, <3>4 DEF PhaseInv
    <2>6. Codes' = Codes
      BY <1>1, <1>2, <1>3, <1>8 DEF Codes, Line, Keyboard, Mouse, Senders
    <2> QED
      BY <1>2, <2>3, <2>5, <2>6, KeyQuiet
  <1>9. boot \in Running => s # "controller"
    BY <1>1 DEF PortInv
  <1> QED
    BY <1>6, <1>7, <1>8, <1>9 DEF Senders

\* The mouse moves, at a time that is not early.
LEMMA InputMove ==
  ASSUME PortInv, PhaseInv, KeyInv, Move, ~early'
  PROVE  PortInv' /\ PhaseInv' /\ KeyInv'
  <1> DEFINE packet == <<Motion(0), Motion(1), Motion(2)>>
  <1>1. /\ boot = "on" /\ ~LeftOver /\ queue["mouse"] = <<>>
        /\ queue' = [queue EXCEPT !["mouse"] = packet]
        /\ UNCHANGED <<boot, irr, serving, obf, fingers, keyboard, buffer>>
    BY Zenon DEF Move, kernel, pic
  <1>2. packet \in Seq(Bytes)
    BY DEF Bytes
  <1> HIDE DEF packet
  <1>3. /\ queue' \in [Senders -> Seq(Bytes)] /\ queue'["mouse"] = packet
        /\ queue'["keyboard"] = queue["keyboard"] /\ queue'["controller"] = queue["controller"]
    BY <1>1, <1>2 DEF PortInv, Senders
  <1>4. PortInv'
    BY <1>1, <1>3 DEF PortInv, Running, LeftOver
  <1>5. PhaseInv'
    <2>1. Sending(<<>>, 2, 0)
      BY <1>1 DEF PhaseInv, Sending, Running
    <2>2. Sending(packet, 2, 0)'
      BY <1>1, <1>3, <2>1 DEF Sending, ForMouse
    <2> QED
      BY <1>1, <2>2 DEF PhaseInv, Running, packet
  <1>6. Codes' = Codes
    BY <1>1, <1>3, Zenon DEF Codes
  <1> QED
    BY <1>1, <1>4, <1>5, <1>6, KeyQuiet

\* The constructor of the mouse driver, step by step.
LEMMA InputConstruct ==
  ASSUME PortInv, PhaseInv, KeyInv,
         Construct \/ ReadConfig \/ EnableMouse \/ ReadAck
  PROVE  PortInv' /\ PhaseInv' /\ KeyInv'
  <1>1. UNCHANGED <<serving, fingers, keyboard, buffer>> /\ serving = None
    BY DEF PortInv, Construct, ReadConfig, EnableMouse, ReadAck, pic
  <1>2. <<Config>> \in Seq(Bytes) /\ <<Acknowledge>> \in Seq(Bytes)
    BY DEF Bytes
  <1>3. CASE Construct
    <2>1. /\ boot = "start" /\ boot' = "config" /\ obf' = obf
          /\ queue' \in [Senders -> Seq(Bytes)] /\ queue'["controller"] = <<Config>>
          /\ queue'["keyboard"] = queue["keyboard"] /\ queue'["mouse"] = queue["mouse"]
      BY <1>2, <1>3 DEF Construct, PortInv, Senders
    <2>2. PortInv'
      BY <1>1, <2>1 DEF PortInv, Running, Senders
    <2>3. PhaseInv' /\ Codes' = Codes
      BY <1>1, <2>1, Zenon DEF PhaseInv, Running, Codes
    <2> QED
      BY <1>1, <2>2, <2>3, KeyQuiet
  <1>4. CASE ReadConfig
    <2>1. /\ boot = "config" /\ boot' = "enable" /\ queue' = queue /\ obf.full
          /\ obf' = [obf EXCEPT !.full = FALSE]
      BY <1>4 DEF ReadConfig, ReadData
    <2>2. PortInv'
      BY <1>1, <2>1, Zenon DEF PortInv, Running, Senders
    <2>3. PhaseInv' /\ Codes' = Codes
      BY <1>1, <2>1, Zenon DEF PhaseInv, Running, Codes
    <2> QED
      BY <1>1, <2>2, <2>3, KeyQuiet
  <1>5. CASE EnableMouse
    <2>1. /\ boot = "enable" /\ boot' = "ack" /\ obf' = obf
          /\ queue' \in [Senders -> Seq(Bytes)] /\ queue'["mouse"] = <<Acknowledge>>
          /\ queue'["keyboard"] = queue["keyboard"]
          /\ queue'["controller"] = queue["controller"]
      BY <1>2, <1>5 DEF EnableMouse, PortInv, Senders
    <2>2. PortInv'
      BY <1>1, <2>1 DEF PortInv, Running, Senders
    <2>3. PhaseInv' /\ Codes' = Codes
      BY <1>1, <2>1, Zenon DEF PhaseInv, Running, Codes
    <2> QED
      BY <1>1, <2>2, <2>3, KeyQuiet
  <1>6. CASE ReadAck
    <2>1. /\ boot = "ack" /\ boot' = "drivers" /\ queue' = queue /\ obf.full
          /\ obf' = [obf EXCEPT !.full = FALSE]
      BY <1>6 DEF ReadAck, ReadData
    <2>2. ~obf'.full /\ obf'.byte = Acknowledge
      BY <2>1 DEF PortInv
    <2>3. PortInv'
      BY <1>1, <2>1, <2>2, Zenon DEF PortInv, Running, Senders
    <2>4. Sending(<<>>, 2, 0)'
      BY <1>1, <2>1, <2>2 DEF PhaseInv, PortInv, Running, Sending, ForMouse
    <2>5. PhaseInv' /\ Codes' = Codes
      BY <1>1, <2>1, <2>2, <2>4, Zenon DEF PhaseInv, Running, Codes
    <2> QED
      BY <1>1, <2>3, <2>5, KeyQuiet
  <1> QED
    BY <1>3, <1>4, <1>5, <1>6

\* The mouse's handler reads a byte of the mouse.
LEMMA InputMouse ==
  ASSUME PortInv, PhaseInv, KeyInv, ServeMouse, ForMouse
  PROVE  PortInv' /\ PhaseInv' /\ KeyInv'
  <1>1. /\ boot = "on" /\ boot' = boot /\ serving = Mouse /\ serving' = None
        /\ obf.full /\ obf.line = Mouse /\ obf' = [obf EXCEPT !.full = FALSE]
        /\ irr' \subseteq irr
        /\ UNCHANGED <<queue, fingers, keyboard>>
        /\ buffer' = IF Len(buffer) = 2 THEN <<>> ELSE Append(buffer, obf.byte)
    BY DEF ServeMouse, ForMouse, ReadData, Eoi, PortInv, kernel, Mouse, None
  <1>2. ~LeftOver /\ Keyboard \notin irr
    BY <1>1 DEF PortInv, Running, LeftOver, Keyboard, Mouse
  <1>3. ~LeftOver' /\ ~obf'.full
    BY <1>1, <1>2 DEF LeftOver, Keyboard, None, PortInv
  <1>4. PortInv'
    BY <1>1, <1>3, Zenon DEF PortInv, Running
  <1>5. /\ buffer' \in Seq(Bytes) /\ ~ForMouse'
        /\ Len(buffer') = IF Len(buffer) = 2 THEN 0 ELSE Len(buffer) + 1
    BY <1>1, <1>3, PortTypes DEF PhaseInv, ForMouse
  <1>6. PhaseInv'
    <2>1. CASE Sending(<<>>, 2, 0)
      <3>1. Sending(<<>>, 2, 0)'
        BY <1>1, <1>5, <2>1 DEF Sending, ForMouse
      <3> QED
        BY <1>1, <1>5, <3>1 DEF PhaseInv, Running
    <2>2. CASE Sending(<<Motion(2)>>, 1, 2)
      <3>1. Sending(<<Motion(2)>>, 1, 2)'
        <4>1. queue["mouse"] = <<Motion(2)>> /\ Len(buffer) = 1
          BY <2>2 DEF Sending
        <4>2. queue'["mouse"] = <<Motion(2)>> /\ Len(buffer') = 2
          BY <1>1, <1>5, <4>1
        <4> QED
          BY <1>5, <4>2, Zenon DEF Sending
      <3> QED
        BY <1>1, <1>5, <3>1 DEF PhaseInv, Running
    <2>3. CASE Sending(<<Motion(1), Motion(2)>>, 0, 1)
      <3>1. Sending(<<Motion(1), Motion(2)>>, 0, 1)'
        BY <1>1, <1>5, <2>3 DEF Sending, ForMouse
      <3> QED
        BY <1>1, <1>5, <3>1 DEF PhaseInv, Running
    <2>4. CASE Sending(<<Motion(0), Motion(1), Motion(2)>>, 2, 0)
      <3>1. Sending(<<Motion(0), Motion(1), Motion(2)>>, 2, 0)'
        BY <1>1, <1>5, <2>4 DEF Sending, ForMouse
      <3> QED
        BY <1>1, <1>5, <3>1 DEF PhaseInv, Running
    <2> QED
      BY <1>1, <2>1, <2>2, <2>3, <2>4 DEF PhaseInv, Running
  <1>7. Codes' = Codes
    BY <1>1, <1>3 DEF Codes, Keyboard, Mouse
  <1> QED
    BY <1>1, <1>4, <1>6, <1>7, KeyQuiet

\* A key is struck, at a time that is not early.
LEMMA InputStrike ==
  ASSUME PortInv, PhaseInv, KeyInv, NEW k \in Keys, Strike(k), ~early'
  PROVE  PortInv' /\ PhaseInv' /\ KeyInv'
  <1> DEFINE down == k \notin held
             now == IF down THEN held \cup {k} ELSE held \ {k}
             code == Code(k, down)
  <1>1. /\ boot \in Running /\ ~LeftOver
        /\ held' = now /\ capsOn' = (capsOn # (k = "caps" /\ down))
        /\ overlap' = (Shifts \subseteq now \/ (overlap /\ Shifts \cap now # {}))
        /\ queue' = [queue EXCEPT !["keyboard"] = Append(@, code)]
        /\ UNCHANGED <<boot, irr, serving, obf, keyboard, buffer>>
    BY Zenon DEF Strike, Constructing, PortInv, Running, kernel, pic
  <1>2. code \in KeyCodes
    BY DEF Code, KeyCodes, KeyInv
  <1>3. /\ code.key = k /\ code.down = down /\ code.overlap = overlap
        /\ code.upper = ((held \cap Shifts # {}) # capsOn)
        /\ code.ctrl = ("ctrl" \in held)
    BY DEF Code
  <1> HIDE DEF code
  <1>4. /\ queue' \in [Senders -> Seq(Bytes)]
        /\ queue'["keyboard"] = Append(queue["keyboard"], code)
        /\ queue'["keyboard"] \in Seq(KeyCodes)
        /\ queue'["mouse"] = queue["mouse"] /\ queue'["controller"] = queue["controller"]
    <2>1. code \in Bytes
      BY <1>2 DEF Bytes
    <2> QED
      BY <1>1, <1>2, <2>1 DEF PortInv, Senders
  <1>5. PortInv'
    BY <1>1, <1>4 DEF PortInv, Running, LeftOver
  <1>6. PhaseInv'
    BY <1>1, <1>4 DEF PhaseInv, Sending, ForMouse
  <1>7. Codes' = Append(Codes, code) /\ Codes \in Seq(KeyCodes)
    <2>1. queue["keyboard"] \in Seq(KeyCodes)
      BY DEF PortInv
    <2>2. boot \in Running /\ obf.full /\ obf.line = Keyboard => obf.byte \in KeyCodes
      BY DEF PortInv, Keyboard, Mouse
    <2>3. CASE boot \in Running /\ obf.full /\ obf.line = Keyboard
      <3>1. Codes = <<obf.byte>> \o queue["keyboard"] /\ <<obf.byte>> \in Seq(KeyCodes)
        BY <2>2, <2>3 DEF Codes
      <3>2. Codes' = <<obf.byte>> \o Append(queue["keyboard"], code)
        BY <1>1, <1>4, <2>3 DEF Codes
      <3> QED
        BY ONLY <1>2, <2>1, <3>1, <3>2
    <2>4. CASE ~(boot \in Running /\ obf.full /\ obf.line = Keyboard)
      <3>1. Codes = <<>> \o queue["keyboard"]
        BY <2>4, Zenon DEF Codes
      <3>2. Codes' = <<>> \o Append(queue["keyboard"], code)
        BY <1>1, <1>4, <2>4 DEF Codes
      <3>3. Codes = queue["keyboard"] /\ Codes' = Append(queue["keyboard"], code)
        BY ONLY <1>2, <2>1, <3>1, <3>2
      <3> QED
        BY <2>1, <3>3
    <2> QED
      BY <2>3, <2>4
  <1>8. /\ held' \subseteq Keys /\ capsOn' \in BOOLEAN /\ overlap' \in BOOLEAN
        /\ (Shifts \subseteq held' => overlap') /\ (overlap' => held' \cap Shifts # {})
    BY <1>1, Zenon DEF KeyInv
  <1> DEFINE After(e) == /\ e.caps = capsOn' /\ e.ctrl = ("ctrl" \in held')
                         /\ overlap' \/ e.shift = (held' \cap Shifts # {})
  <1>9. ASSUME NEW m \in Modifiers, AsHeld(m)
        PROVE  AsStruck(m, code) /\ Effect(m, code) \in Modifiers /\ After(Effect(m, code))
    <2>1. AsStruck(m, code)
      BY <1>3, <1>9 DEF AsStruck, AsHeld
    <2>2. Effect(m, code) \in Modifiers
      BY <1>2 DEF Effect, Modifiers, KeyCodes
    <2>3. After(Effect(m, code))
      <3> DEFINE e == Effect(m, code)
      <3>1. /\ e.shift = IF k \in Shifts THEN down ELSE m.shift
            /\ e.ctrl = IF k = "ctrl" THEN down ELSE m.ctrl
            /\ e.caps = (m.caps # (k = "caps" /\ down))
        BY <1>3, Zenon DEF Effect
      <3>2. e.caps = capsOn'
        BY <1>1, <1>9, <3>1 DEF AsHeld
      <3>3. e.ctrl = ("ctrl" \in held')
        BY <1>1, <1>9, <3>1 DEF AsHeld
      <3>4. overlap' \/ e.shift = (held' \cap Shifts # {})
        BY <1>1, <1>9, <3>1 DEF AsHeld, KeyInv, Shifts
      <3> QED
        BY <3>2, <3>3, <3>4
    <2> QED
      BY <2>1, <2>2, <2>3
  <1>10. KeyInv'
    <2> DEFINE n == Len(Codes)
    <2>1. PICK h \in [0..n -> Modifiers] :
            /\ h[0] = Driver
            /\ \A i \in 1..n : AsStruck(h[i - 1], Codes[i]) /\ h[i] = Effect(h[i - 1], Codes[i])
            /\ AsHeld(h[n])
      BY DEF KeyInv
    <2> DEFINE g == [i \in 0..(n + 1) |-> IF i <= n THEN h[i] ELSE Effect(h[n], code)]
    <2>2. n \in Nat /\ Len(Codes') = n + 1 /\ Codes'[n + 1] = code
          /\ \A i \in 1..n : Codes'[i] = Codes[i]
      BY <1>2, <1>7
    <2>3. h[n] \in Modifiers
      BY <2>1, <2>2
    <2>4. AsStruck(h[n], code) /\ Effect(h[n], code) \in Modifiers /\ After(Effect(h[n], code))
      BY <1>9, <2>1, <2>3
    <2>5. Driver' = Driver
      BY <1>1 DEF Driver, keyboard
    <2> HIDE DEF n, After
    <2>6. /\ g \in [0..Len(Codes') -> Modifiers] /\ g[0] = Driver'
          /\ g[n + 1] = Effect(h[n], code) /\ \A i \in 0..n : g[i] = h[i]
      BY <2>1, <2>2, <2>4, <2>5
    <2> HIDE DEF g
    <2>7. ASSUME NEW i \in 1..Len(Codes')
          PROVE  AsStruck(g[i - 1], Codes'[i]) /\ g[i] = Effect(g[i - 1], Codes'[i])
      <3>1. CASE i = n + 1
        <4>1. g[i - 1] = h[n]
          BY <2>2, <2>6, <3>1
        <4> QED
          BY <2>2, <2>4, <2>6, <3>1, <4>1
      <3>2. CASE i \in 1..n
        <4>1. g[i - 1] = h[i - 1] /\ g[i] = h[i]
          BY <2>2, <2>6, <3>2
        <4> QED
          BY <2>1, <2>2, <3>2, <4>1
      <3> QED
        BY <2>2, <3>1, <3>2
    <2>8. After(g[Len(Codes')])
      BY <2>2, <2>4, <2>6
    <2>9. \E f \in [0..Len(Codes') -> Modifiers] :
            /\ f[0] = Driver'
            /\ \A i \in 1..Len(Codes') :
                 AsStruck(f[i - 1], Codes'[i]) /\ f[i] = Effect(f[i - 1], Codes'[i])
            /\ After(f[Len(Codes')])
      BY <2>6, <2>7, <2>8
    <2>10. Driver \in Modifiers
      BY DEF KeyInv
    <2> QED
      BY <1>8, <2>5, <2>9, <2>10, Zenon DEF KeyInv, AsHeld, After, AsStruck, Effect
  <1> QED
    BY <1>5, <1>6, <1>10

\* The keyboard's handler: it reads the oldest code, or once, with a request that is
\* left over, the mouse's acknowledgement.
LEMMA InputKeyboard ==
  ASSUME PortInv, PhaseInv, KeyInv, ServeKeyboard
  PROVE  PortInv' /\ PhaseInv' /\ KeyInv'
  <1>1. /\ boot = "on" /\ boot' = boot /\ serving = Keyboard /\ serving' = None
        /\ obf' = [obf EXCEPT !.full = FALSE] /\ irr' \subseteq irr
        /\ UNCHANGED <<queue, fingers, buffer>>
        /\ obf.full \in BOOLEAN
    BY PortTypes DEF ServeKeyboard, ReadData, Eoi, PortInv, kernel, Keyboard, None
  <1>2. ~obf'.full /\ obf'.byte = obf.byte /\ obf'.line = obf.line
    BY <1>1 DEF PortInv
  <1>3. CASE LeftOver
    <2>1. /\ ~obf.full /\ obf.byte = Acknowledge
          /\ queue["keyboard"] = <<>> /\ queue["mouse"] = <<>>
      BY <1>1, <1>3 DEF PortInv, Running
    <2>2. UNCHANGED keyboard
      BY <2>1 DEF ServeKeyboard, Acknowledge
    <2>3. PortInv'
      BY <1>1, <1>2, <2>1, Zenon DEF PortInv, Running
    <2>4. PhaseInv'
      BY <1>1, <1>2, <2>1 DEF PhaseInv, Sending, ForMouse
    <2>5. Codes' = Codes
      BY <1>1, <1>2, <2>1 DEF Codes
    <2> QED
      BY <1>1, <2>2, <2>3, <2>4, <2>5, KeyQuiet
  <1>4. CASE ~LeftOver
    <2>1. /\ obf.full /\ obf.line = Keyboard /\ Keyboard \notin irr
          /\ obf.byte \in KeyCodes
      BY <1>1, <1>4 DEF LeftOver, PortInv, Running, Keyboard, Mouse
    <2>2. Decode(obf.byte)
      BY <2>1 DEF ServeKeyboard, KeyCodes
    <2>3. ~LeftOver'
      BY <1>1, <2>1 DEF LeftOver, Keyboard, None
    <2>4. PortInv'
      BY <1>1, <1>2, <2>3, Zenon DEF PortInv, Running
    <2>5. PhaseInv'
      BY <1>1, <1>2, <2>1 DEF PhaseInv, Sending, ForMouse, Keyboard, Mouse
    <2>6. KeyInv'
      <3> DEFINE n == Len(Codes)
      <3>1. PICK h \in [0..n -> Modifiers] :
              /\ h[0] = Driver
              /\ \A i \in 1..n : AsStruck(h[i - 1], Codes[i]) /\ h[i] = Effect(h[i - 1], Codes[i])
              /\ AsHeld(h[n])
        BY DEF KeyInv
      <3>2. /\ queue["keyboard"] \in Seq(KeyCodes)
            /\ Codes = <<obf.byte>> \o queue["keyboard"]
        BY <1>1, <2>1 DEF PortInv, Codes, Running
      <3>3. Codes' = queue["keyboard"]
        <4>1. Codes' = <<>> \o queue["keyboard"]
          BY <1>1, <1>2, Zenon DEF Codes
        <4> QED
          BY <3>2, <4>1
      <3>4. /\ n \in Nat /\ n = Len(Codes') + 1 /\ Len(Codes') \in Nat /\ Codes[1] = obf.byte
            /\ \A i \in 1..Len(Codes') : Codes'[i] = Codes[i + 1]
        BY ONLY <2>1, <3>2, <3>3
      <3>5. Driver' = h[1]
        <4>1. h[1] = Effect(Driver, obf.byte)
          <5>1. 1 \in 1..n /\ 1 - 1 = 0
            BY <3>4
          <5> QED
            BY <3>1, <3>4, <5>1
        <4> QED
          BY <2>2, <4>1 DEF Driver, Effect, Decode
      <3> DEFINE g == [i \in 0..Len(Codes') |-> h[i + 1]]
      <3> HIDE DEF n
      <3>6. g \in [0..Len(Codes') -> Modifiers] /\ g[0] = Driver' /\ g[Len(Codes')] = h[n]
        BY <3>1, <3>4, <3>5
      <3>7. ASSUME NEW i \in 1..Len(Codes')
            PROVE  AsStruck(g[i - 1], Codes'[i]) /\ g[i] = Effect(g[i - 1], Codes'[i])
        <4>1. i + 1 \in 1..n /\ (i + 1) - 1 = i /\ g[i - 1] = h[i] /\ g[i] = h[i + 1]
          BY <3>4
        <4> QED
          BY <3>1, <3>4, <4>1
      <3> HIDE DEF g
      <3>8. \E f \in [0..Len(Codes') -> Modifiers] :
              /\ f[0] = Driver'
              /\ \A i \in 1..Len(Codes') :
                   AsStruck(f[i - 1], Codes'[i]) /\ f[i] = Effect(f[i - 1], Codes'[i])
              /\ AsHeld(f[Len(Codes')])
        BY <3>1, <3>6, <3>7
      <3>9. Driver' \in Modifiers
        BY <3>1, <3>4, <3>5
      <3> QED
        BY <1>1, <3>8, <3>9, Zenon DEF KeyInv, AsHeld, AsStruck, Effect, fingers
    <2> QED
      BY <2>4, <2>5, <2>6
  <1> QED
    BY <1>3, <1>4

\* Every other step is one InputQuiet is about.
LEMMA InputOthers ==
  ASSUME PortInv, PhaseInv, KeyInv,
         \/ Tick \/ CardStep \/ ActivateAll \/ Activate
         \/ ServeTimer \/ ServeNic \/ (ServeMouse /\ ~ForMouse)
         \/ \E l \in Lines : Take(l)
         \/ UNCHANGED vars
  PROVE  PortInv' /\ PhaseInv' /\ KeyInv'
  <1>1. UNCHANGED <<obf, queue, buffer, fingers, keyboard>>
    BY DEF Tick, CardStep, ActivateAll, Activate, ServeTimer, ServeNic, ServeMouse,
           Take, vars, ps2
  <1>2. boot' = boot \/ (boot \in Running /\ boot' \in Running)
    BY DEF Tick, CardStep, ActivateAll, Activate, ServeTimer, ServeNic, ServeMouse,
           Take, vars, kernel, Running
  <1>3. boot # "on" => serving = None
    BY DEF PortInv
  <1>4. (LeftOver' => LeftOver) /\ (boot' # "on" => serving' = None)
    <2>1. CASE Tick
      BY <1>1, <1>3, <2>1 DEF Tick, LeftOver, kernel, Timer, Keyboard
    <2>2. CASE CardStep \/ UNCHANGED vars
      BY <1>1, <1>3, <2>2 DEF CardStep, vars, LeftOver, kernel, pic
    <2>3. CASE ActivateAll \/ Activate
      BY <1>1, <1>3, <2>3 DEF ActivateAll, Activate, LeftOver, pic
    <2>4. CASE ServeTimer \/ ServeNic \/ (ServeMouse /\ ~ForMouse)
      <3>1. /\ serving \in {Timer, Nic, Mouse} /\ serving' \in {serving, None}
            /\ irr' = irr /\ boot' = boot
        BY <2>4 DEF ServeTimer, ServeNic, ServeMouse, Eoi, kernel
      <3> QED
        BY <1>1, <1>3, <3>1 DEF LeftOver, Timer, Keyboard, Nic, Mouse, None
    <2>5. ASSUME NEW l \in Lines, Take(l)
          PROVE  (LeftOver' => LeftOver) /\ (boot' # "on" => serving' = None)
      <3>1. /\ boot = "on" /\ boot' = boot /\ serving = None
            /\ irr' = irr \ {l} /\ serving' = l /\ Raised(l)
        BY <2>5 DEF Take, TurnOf, kernel
      <3>2. l = Keyboard => Keyboard \in irr
        BY <3>1 DEF Raised, Keyboard, Nic
      <3> QED
        BY <1>1, <3>1, <3>2 DEF LeftOver
    <2> QED
      BY <2>1, <2>2, <2>3, <2>4, <2>5
  <1> QED
    BY <1>1, <1>2, <1>4, InputQuiet

\* InputInv is an invariant of the controllers, the keyboard, the mouse and their
\* drivers (mouse.cpp:14-78, keyboard.cpp:30-130, interrupts.cpp:120-143).
LEMMA InputAlways == Spec => []InputInv
  <1>1. Init => InputInv
    <2> SUFFICES ASSUME Init PROVE PortInv /\ PhaseInv /\ KeyInv
      BY DEF InputInv
    <2>1. Acknowledge \in Bytes
      BY DEF Bytes
    <2>2. PortInv
      <3>1. /\ obf \in [full : BOOLEAN, line : {Keyboard, Mouse}, byte : Bytes]
            /\ queue \in [Senders -> Seq(Bytes)] /\ queue["keyboard"] \in Seq(KeyCodes)
        BY <2>1 DEF Init, Senders
      <3> QED
        BY <3>1 DEF Init, PortInv, Senders, Running
    <2>3. PhaseInv
      BY DEF Init, PhaseInv, Running
    <2>4. KeyInv
      <3>1. Codes = <<>>
        BY DEF Init, Codes, Running
      <3>2. Driver \in Modifiers /\ AsHeld(Driver)
        <4>1. /\ held = {} /\ held \cap Shifts = {} /\ capsOn = FALSE
              /\ Driver = [shift |-> FALSE, ctrl |-> FALSE, caps |-> FALSE]
          BY Zenon DEF Init, Driver
        <4>2. Driver \in Modifiers /\ Driver.caps = capsOn
          BY <4>1, Zenon DEF Modifiers
        <4>3. Driver.ctrl = ("ctrl" \in held)
          <5>1. ("ctrl" \in held) = FALSE /\ Driver.ctrl = FALSE
            BY <4>1
          <5> QED
            BY ONLY <5>1, Zenon
        <4>4. Driver.shift = (held \cap Shifts # {})
          BY <4>1, Zenon
        <4> QED
          BY <4>2, <4>3, <4>4 DEF AsHeld
      <3> DEFINE g == [i \in 0..0 |-> Driver]
      <3>3. /\ g \in [0..Len(Codes) -> Modifiers] /\ g[0] = Driver
            /\ Len(Codes) = 0 /\ 1..Len(Codes) = {}
        BY <3>1, <3>2
      <3> HIDE DEF g
      <3>4. \E h \in [0..Len(Codes) -> Modifiers] :
              /\ h[0] = Driver
              /\ \A i \in 1..Len(Codes) :
                   AsStruck(h[i - 1], Codes[i]) /\ h[i] = Effect(h[i - 1], Codes[i])
              /\ AsHeld(h[Len(Codes)])
        BY <3>2, <3>3
      <3> QED
        BY <3>2, <3>4, Zenon DEF Init, KeyInv, Shifts
    <2> QED
      BY <2>2, <2>3, <2>4
  <1>2. InputInv /\ [Next]_vars => InputInv'
    <2> SUFFICES ASSUME InputInv, [Next]_vars, ~early'
                 PROVE  PortInv' /\ PhaseInv' /\ KeyInv'
      BY DEF InputInv
    <2>1. ~early
      BY Zenon DEF Next, Fill, Move, Tick, CardStep, Strike, Kernel, Construct, ReadConfig,
             EnableMouse, ReadAck, ActivateAll, Activate, ServeTimer, ServeKeyboard,
             ServeMouse, ServeNic, Take, vars
    <2>2. PortInv /\ PhaseInv /\ KeyInv
      BY <2>1 DEF InputInv
    <2>3. CASE Fill
      BY <2>2, <2>3, InputFill
    <2>4. CASE Move
      BY <2>2, <2>4, InputMove
    <2>5. ASSUME NEW k \in Keys, Strike(k) PROVE PortInv' /\ PhaseInv' /\ KeyInv'
      BY <2>2, <2>5, InputStrike
    <2>6. CASE Construct \/ ReadConfig \/ EnableMouse \/ ReadAck
      BY <2>2, <2>6, InputConstruct
    <2>7. CASE ServeKeyboard
      BY <2>2, <2>7, InputKeyboard
    <2>8. CASE ServeMouse /\ ForMouse
      BY <2>2, <2>8, InputMouse
    <2>9. CASE \/ Tick \/ CardStep \/ ActivateAll \/ Activate
               \/ ServeTimer \/ ServeNic \/ (ServeMouse /\ ~ForMouse)
               \/ \E l \in Lines : Take(l)
               \/ UNCHANGED vars
      BY <2>2, <2>9, InputOthers
    <2> QED
      BY <2>3, <2>4, <2>5, <2>6, <2>7, <2>8, <2>9 DEF Next, Kernel
  <1> QED
    BY <1>1, <1>2, PTL DEF Spec

\* KeyboardDriver::HandleInterrupt decodes every code with the modifiers it was
\* struck with, for any keys and any number of codes on their way
\* (keyboard.cpp:43-80).
THEOREM AlwaysAsStruck == Spec => []ModifiersAsStruck
  <1>1. InputInv => ModifiersAsStruck
    <2> SUFFICES ASSUME PortInv, KeyInv, serving = Keyboard, obf.full, obf.byte.what = "key"
                 PROVE  AsStruck(Driver, obf.byte)
      BY DEF InputInv, ModifiersAsStruck, AsStruck, Driver
    <2>1. boot = "on" /\ ~LeftOver /\ obf.line = Keyboard /\ obf.byte \in KeyCodes
      BY DEF PortInv, LeftOver, Running, Keyboard, Mouse, None
    <2>2. Codes = <<obf.byte>> \o queue["keyboard"] /\ queue["keyboard"] \in Seq(KeyCodes)
      BY <2>1 DEF Codes, Running, PortInv
    <2>3. Codes[1] = obf.byte /\ 1 \in 1..Len(Codes) /\ 1 - 1 = 0
      BY <2>1, <2>2
    <2> QED
      BY <2>3 DEF KeyInv
  <1> QED
    BY <1>1, InputAlways, PTL

\* A sequence with one more element in front.
LEMMA InFront ==
  ASSUME NEW S, NEW a \in S, NEW t \in Seq(S)
  PROVE  /\ DOMAIN (<<a>> \o t) = 1..(Len(t) + 1)
         /\ (<<a>> \o t)[1] = a
         /\ \A i \in 1..Len(t) : (<<a>> \o t)[i + 1] = t[i]
  <1>1. <<a>> \in Seq(S) /\ Len(<<a>>) = 1 /\ <<a>>[1] = a /\ Len(t) \in Nat
    OBVIOUS
  <1>2. /\ <<a>> \o t \in Seq(S) /\ Len(<<a>> \o t) = 1 + Len(t)
        /\ \A i \in 1..(1 + Len(t)) :
             (<<a>> \o t)[i] = IF i <= 1 THEN <<a>>[i] ELSE t[i - 1]
    BY <1>1
  <1>3. DOMAIN (<<a>> \o t) = 1..(1 + Len(t))
    BY <1>2
  <1> DEFINE u == <<a>> \o t
             v == <<a>>
  <1> HIDE DEF u, v
  <1>4. /\ \A i \in 1..(1 + Len(t)) : u[i] = IF i <= 1 THEN v[i] ELSE t[i - 1]
        /\ v[1] = a /\ DOMAIN u = 1..(1 + Len(t))
    BY <1>1, <1>2, <1>3 DEF u, v
  <1>5. /\ DOMAIN u = 1..(Len(t) + 1) /\ u[1] = a /\ \A i \in 1..Len(t) : u[i + 1] = t[i]
    BY ONLY <1>4, Len(t) \in Nat
  <1> QED
    BY <1>5 DEF u

\* What is still to come of a packet, with the byte in the controller's buffer.
LEMMA InPhase ==
  ASSUME PortInv, PhaseInv, NEW b \in {0, 1, 2}, NEW n \in {0, 1, 2}, NEW q,
         Sending(q, b, n), n = (b + 1) % 3,
         \A i \in 1..Len(q) : q[i] = Motion((n + (i - 1)) % 3)
  PROVE  LET bytes == (IF ForMouse THEN <<obf.byte>> ELSE <<>>) \o queue["mouse"]
         IN \A i \in DOMAIN bytes : bytes[i] = Motion((Len(buffer) + i - 1) % 3)
  <1>1. q = queue["mouse"] /\ q \in Seq(Bytes) /\ obf.byte \in Bytes /\ Len(q) \in Nat
    BY PortTypes DEF Sending, Senders
  <1>2. CASE ForMouse
    <2> DEFINE bytes == <<obf.byte>> \o q
    <2>1. obf.byte = Motion(b) /\ Len(buffer) = b
      BY <1>2 DEF Sending
    <2>2. /\ DOMAIN bytes = 1..(Len(q) + 1) /\ bytes[1] = obf.byte
          /\ \A i \in 1..Len(q) : bytes[i + 1] = q[i]
      BY <1>1, InFront
    <2> HIDE DEF bytes
    <2>3. ASSUME NEW i \in DOMAIN bytes
          PROVE  bytes[i] = Motion((b + (i - 1)) % 3)
      <3>1. CASE i = 1
        <4>1. (b + (1 - 1)) % 3 = b
          OBVIOUS
        <4> QED
          BY <2>1, <2>2, <3>1, <4>1
      <3>2. CASE i - 1 \in 1..Len(q)
        <4>1. bytes[(i - 1) + 1] = Motion((n + ((i - 1) - 1)) % 3)
          BY <2>2, <3>2
        <4>2. (i - 1) + 1 = i /\ (n + ((i - 1) - 1)) % 3 = (b + (i - 1)) % 3
          BY <1>1, <2>2
        <4> QED
          BY <4>1, <4>2
      <3> QED
        BY <1>1, <2>2, <3>1, <3>2
    <2> QED
      BY <1>1, <1>2, <2>1, <2>3 DEF bytes
  <1>3. CASE ~ForMouse
    <2>1. Len(buffer) = n
      BY <1>3 DEF Sending
    <2>2. <<>> \o q = q /\ DOMAIN q = 1..Len(q)
      BY <1>1
    <2> QED
      BY <1>1, <1>3, <2>1, <2>2
  <1> QED
    BY <1>2, <1>3, Zenon

\* MouseDriver::HandleInterrupt never loses its place in a packet (mouse.cpp:34-78).
THEOREM MouseAlwaysInPhase == Spec => []MouseInPhase
  <1>1. InputInv => MouseInPhase
    <2> DEFINE Good == LET bytes == (IF ForMouse THEN <<obf.byte>> ELSE <<>>) \o queue["mouse"]
                       IN \A i \in DOMAIN bytes : bytes[i] = Motion((Len(buffer) + i - 1) % 3)
    <2> SUFFICES ASSUME PortInv, PhaseInv, boot = "on"
                 PROVE  Good
      BY Zenon DEF InputInv, MouseInPhase
    <2> HIDE DEF Good
    <2>1. CASE Sending(<<>>, 2, 0)
      <3>1. \A i \in 1..Len(<<>>) : <<>>[i] = Motion((0 + (i - 1)) % 3)
        OBVIOUS
      <3> QED
        BY <2>1, <3>1, 0 = (2 + 1) % 3, InPhase, Zenon DEF Good
    <2>2. CASE Sending(<<Motion(2)>>, 1, 2)
      <3>1. \A i \in 1..Len(<<Motion(2)>>) :
              <<Motion(2)>>[i] = Motion((2 + (i - 1)) % 3)
        OBVIOUS
      <3> QED
        BY <2>2, <3>1, 2 = (1 + 1) % 3, InPhase, Zenon DEF Good
    <2>3. CASE Sending(<<Motion(1), Motion(2)>>, 0, 1)
      <3>1. \A i \in 1..Len(<<Motion(1), Motion(2)>>) :
              <<Motion(1), Motion(2)>>[i] = Motion((1 + (i - 1)) % 3)
        OBVIOUS
      <3> QED
        BY <2>3, <3>1, 1 = (0 + 1) % 3, InPhase, Zenon DEF Good
    <2>4. CASE Sending(<<Motion(0), Motion(1), Motion(2)>>, 2, 0)
      <3>1. \A i \in 1..Len(<<Motion(0), Motion(1), Motion(2)>>) :
              <<Motion(0), Motion(1), Motion(2)>>[i] = Motion((0 + (i - 1)) % 3)
        OBVIOUS
      <3> QED
        BY <2>4, <3>1, 0 = (2 + 1) % 3, InPhase, Zenon DEF Good
    <2> QED
      BY <2>1, <2>2, <2>3, <2>4 DEF PhaseInv, Running
  <1> QED
    BY <1>1, InputAlways, PTL

-----------------------------------------------------------------------------
(***************************************************************************)
(* Remainders.                                                             *)
(***************************************************************************)

\* What % and \div stand for.
LEMMA DivMod ==
  ASSUME NEW a \in Int, NEW n \in Nat \ {0}
  PROVE  /\ a \div n \in Int /\ a % n \in 0..(n - 1)
         /\ a = n * (a \div n) + (a % n)
  BY Z3

\* A multiple of n between -n and n.
LEMMA OnlyZero ==
  ASSUME NEW n \in Nat \ {0}, NEW k \in Int, NEW d \in Int, n * k = d, -n < d, d < n
  PROVE  k = 0
  BY Z3

\* A remainder is the only one.
LEMMA ModUnique ==
  ASSUME NEW n \in Nat \ {0}, NEW q \in Int, NEW r \in 0..(n - 1), NEW a \in Int,
         a = n * q + r
  PROVE  a % n = r
  <1> DEFINE p == a \div n
             s == a % n
  <1>1. p \in Int /\ s \in 0..(n - 1) /\ a = n * p + s
    BY DivMod
  <1> HIDE DEF p, s
  <1>2. n * (p - q) = r - s
    BY <1>1, Z3
  <1>3. p - q = 0
    BY <1>1, <1>2, OnlyZero
  <1>4. r = s
    BY <1>1, <1>3, Z3
  <1> QED
    BY <1>4 DEF s

\* A number below the modulus is its own remainder.
LEMMA ModSmall ==
  ASSUME NEW n \in Nat \ {0}, NEW a \in 0..(n - 1)
  PROVE  a % n = a
  BY Z3

\* A remainder inside a sum.
LEMMA ModAdd ==
  ASSUME NEW n \in Nat \ {0}, NEW a \in Int, NEW b \in Int
  PROVE  ((a % n) + b) % n = (a + b) % n
  <1> DEFINE p == a \div n
             s == a % n
             t == (s + b) \div n
             u == (s + b) % n
             q == p + t
             x == a + b
  <1>1. p \in Int /\ s \in 0..(n - 1) /\ a = n * p + s
    BY DivMod
  <1>2. t \in Int /\ u \in 0..(n - 1) /\ s + b = n * t + u
    <2>1. s + b \in Int
      BY <1>1
    <2> HIDE DEF s
    <2> QED
      BY <2>1, DivMod, Zenon
  <1> HIDE DEF p, s, t, u
  <1>3. x \in Int /\ q \in Int /\ x = n * q + u
    BY <1>1, <1>2, Z3
  <1> HIDE DEF q, x
  <1>4. x % n = u
    BY <1>2, <1>3, ModUnique
  <1> QED
    BY <1>4 DEF u, s, x

\* A remainder of a remainder, where the one modulus divides the other.
LEMMA ModMod ==
  ASSUME NEW n \in Nat \ {0}, NEW w \in Nat \ {0}, w % n = 0, NEW a \in Int
  PROVE  (a % w) % n = a % n
  <1> DEFINE k == w \div n
             p == a \div w
             s == a % w
             t == s \div n
             u == s % n
             q == k * p + t
  <1>1. k \in Int /\ w = n * k
    BY DivMod
  <1>2. p \in Int /\ s \in 0..(w - 1) /\ a = w * p + s
    BY DivMod
  <1>3. t \in Int /\ u \in 0..(n - 1) /\ s = n * t + u
    <2>1. s \in Int
      BY <1>2
    <2> HIDE DEF s
    <2> QED
      BY <2>1, DivMod
  <1> HIDE DEF k, p, s, t, u
  <1>4. q \in Int /\ a = n * q + u
    <2>1. a = (n * k) * p + (n * t + u)
      BY <1>1, <1>2, <1>3
    <2> QED
      BY ONLY <2>1, <1>1, <1>2, <1>3, n \in Nat, Z3
  <1> HIDE DEF q
  <1>5. a % n = u
    BY <1>3, <1>4, ModUnique
  <1> QED
    BY <1>5 DEF u, s

-----------------------------------------------------------------------------
(***************************************************************************)
(* The ring.                                                               *)
(***************************************************************************)

Positions == {a \in 0..(RING - 1) : a % 4 = 0}
Stored == [at : Positions, frame : [len : Lengths]]

\* Bytes from a to where the card stores next, and the place behind a frame.
Ahead(a) == (wr - a) % RING
Behind(p) == (p.at + Room(p.frame.len)) % RING

\* The frames lie one behind the other from the driver's pointer to the card's,
\* which is nowhere more than once round.
RingInv ==
  /\ pending \in Seq(Stored)
  /\ wr \in Positions
  /\ rx_read_ptr \in 0..(Word - 1) /\ rx_read_ptr % 4 = 0
  /\ capr = (rx_read_ptr - 16) % RING
  /\ pending = <<>> => wr = rx_read_ptr % RING
  /\ \A i \in DOMAIN pending :
       /\ i = 1 => pending[i].at = rx_read_ptr % RING
       /\ i < Len(pending) => pending[i + 1].at = Behind(pending[i])
       /\ i = Len(pending) => wr = Behind(pending[i])
       /\ Room(pending[i].frame.len) <= Ahead(pending[i].at)
       /\ \A j \in DOMAIN pending : i <= j => Ahead(pending[j].at) <= Ahead(pending[i].at)

\* What RingAssumption says of the constants, as the lemmas above need it.
LEMMA RingFacts ==
  /\ RING \in Nat \ {0} /\ RING > 16 /\ RING % 4 = 0
  /\ Word \in Nat \ {0} /\ Word % RING = 0 /\ Word % 4 = 0
  <1>1. /\ RING \in Nat \ {0} /\ RING > 16 /\ RING % 4 = 0
        /\ Word \in Nat \ {0} /\ Word % RING = 0
    BY RingAssumption
  <1>2. 4 \in Nat \ {0} /\ Word \in Int
    BY <1>1
  <1>3. (Word % RING) % 4 = Word % 4
    BY ONLY <1>1, <1>2, ModMod, Zenon
  <1>4. 0 % 4 = 0
    OBVIOUS
  <1> QED
    BY <1>1, <1>3, <1>4

\* A header and its frame take a multiple of four bytes, and at least eight.
LEMMA RoomFacts ==
  ASSUME NEW n \in Lengths
  PROVE  n \in Nat /\ n <= Slack + 4 /\ Room(n) \in Nat /\ Room(n) >= 8 /\ Room(n) % 4 = 0
  <1>1. n \in Nat /\ n >= 1 /\ n <= Slack + 4
    BY RingAssumption
  <1> QED
    BY ONLY <1>1, Z3 DEF Room

\* A multiple of four stays one in the ring.
LEMMA Aligned ==
  ASSUME NEW a \in Int, a % 4 = 0
  PROVE  a % RING \in Positions
  <1>1. a % RING \in 0..(RING - 1)
    BY RingFacts, DivMod
  <1>2. 4 \in Nat \ {0}
    OBVIOUS
  <1>3. (a % RING) % 4 = a % 4
    BY <1>2, RingFacts, ModMod, Zenon
  <1> QED
    BY <1>1, <1>3 DEF Positions

\* The card's pointer moves on by r: every distance to it that has the room grows
\* by r.
LEMMA AheadGrows ==
  ASSUME NEW w \in Positions, NEW a \in Positions, NEW r \in Nat,
         ((w - a) % RING) + r < RING
  PROVE  (((w + r) % RING) - a) % RING = ((w - a) % RING) + r
  <1> DEFINE d == w - a
             m == -a
             e == w + r
  <1>1. d \in Int /\ m \in Int /\ e \in Int /\ d + r = e + m
    BY DEF Positions
  <1>2. d % RING \in 0..(RING - 1) /\ e % RING \in 0..(RING - 1)
    BY ONLY <1>1, RingFacts, DivMod, Zenon
  <1>3. (e % RING) - a = (e % RING) + m
    BY <1>2 DEF Positions
  <1>4. (d % RING) + r < RING
    OBVIOUS
  <1> HIDE DEF d, m, e
  <1>5. ((e % RING) + m) % RING = (e + m) % RING
    BY ONLY <1>1, RingFacts, ModAdd, Zenon
  <1>6. ((d % RING) + r) % RING = (d + r) % RING
    BY ONLY <1>1, r \in Int, RingFacts, ModAdd, Zenon
  <1>7. ((d % RING) + r) % RING = (d % RING) + r
    <2>1. (d % RING) + r \in 0..(RING - 1)
      BY <1>2, <1>4, RingFacts
    <2> HIDE <1>6
    <2> QED
      BY <2>1, RingFacts, ModSmall
  <1> QED
    BY <1>1, <1>3, <1>5, <1>6, <1>7 DEF d, e

\* The driver's pointer moves on by a frame: a multiple of four below Word, in the
\* ring behind that frame, also where the sum overflows.
LEMMA AdvanceFacts ==
  ASSUME rx_read_ptr \in 0..(Word - 1), rx_read_ptr % 4 = 0, NEW n \in Lengths
  PROVE  /\ Advance(n) \in 0..(Word - 1) /\ Advance(n) % 4 = 0
         /\ Advance(n) % RING = ((rx_read_ptr % RING) + Room(n)) % RING
  <1> DEFINE x == rx_read_ptr + Room(n)
  <1>1. /\ rx_read_ptr \in Int /\ Room(n) \in Nat /\ x \in Int /\ x % 4 = 0
        /\ Advance(n) = x % Word
    <2>1. n \in Nat /\ Room(n) \in Nat /\ Room(n) % 4 = 0
      BY RoomFacts
    <2>2. rx_read_ptr \in Nat
      BY RingFacts
    <2>3. ((rx_read_ptr + n + 4 + 3) \div 4) * 4 = x /\ x \in Int /\ x % 4 = 0
      BY ONLY <2>1, <2>2, rx_read_ptr % 4 = 0, Z3 DEF Room
    <2> QED
      BY <2>1, <2>2, <2>3 DEF Advance
  <1> HIDE DEF x
  <1>2. x % Word \in 0..(Word - 1)
    BY <1>1, RingFacts, DivMod
  <1>3. (x % Word) % 4 = x % 4
    <2>1. 4 \in Nat \ {0}
      OBVIOUS
    <2> QED
      BY ONLY <1>1, <2>1, RingFacts, ModMod, Zenon
  <1>4. (x % Word) % RING = x % RING
    BY ONLY <1>1, RingFacts, ModMod, Zenon
  <1>5. ((rx_read_ptr % RING) + Room(n)) % RING = (rx_read_ptr + Room(n)) % RING
    <2>1. Room(n) \in Int
      BY <1>1
    <2> QED
      BY ONLY <1>1, <2>1, RingFacts, ModAdd, Zenon
  <1> QED
    BY <1>1, <1>2, <1>3, <1>4, <1>5 DEF x

\* Where the card sees the driver's pointer is where it is.
LEMMA PointersAgree ==
  ASSUME RingInv
  PROVE  ReadPointer = rx_read_ptr % RING
  <1> DEFINE b == rx_read_ptr - 16
  <1>1. b \in Int /\ rx_read_ptr = b + 16 /\ capr = b % RING
    BY RingFacts DEF RingInv
  <1> HIDE DEF b
  <1>2. ((b % RING) + 16) % RING = (b + 16) % RING
    BY ONLY <1>1, 16 \in Int, RingFacts, ModAdd, Zenon
  <1> QED
    BY <1>1, <1>2 DEF ReadPointer

\* What is stored in the ring.
LEMMA StoredFacts ==
  ASSUME NEW s \in Seq(Stored), NEW i \in DOMAIN s
  PROVE  /\ s[i] \in Stored /\ s[i].at \in Positions /\ s[i].frame.len \in Lengths
         /\ i \in 1..Len(s) /\ Len(s) \in Nat
  <1>1. s[i] \in Stored /\ i \in 1..Len(s) /\ Len(s) \in Nat
    OBVIOUS
  <1> QED
    BY <1>1 DEF Stored

\* The step that stores a frame of length n, which takes r bytes of the ring.
Stores(n, r) ==
  /\ r \in Nat /\ r >= 8 /\ r % 4 = 0 /\ r = Room(n)
  /\ RING \in Nat /\ RING > 16
  /\ pending \in Seq(Stored) /\ wr \in Positions /\ [at |-> wr, frame |-> [len |-> n]] \in Stored
  /\ wr' = (wr + r) % RING
  /\ UNCHANGED <<capr, rx_read_ptr>>
  /\ ((wr - (rx_read_ptr % RING)) % RING) + r < RING
  /\ pending' \in Seq(Stored) /\ Len(pending') = Len(pending) + 1
  /\ DOMAIN pending' = 1..(Len(pending) + 1)
  /\ \A i \in DOMAIN pending : pending'[i] = pending[i] /\ i \in 1..Len(pending)
  /\ pending'[Len(pending) + 1] = [at |-> wr, frame |-> [len |-> n]]
  /\ Len(pending) \in Nat

\* The write pointer goes r bytes ahead of what is in the ring and of where it was.
GoesAhead(r) ==
  /\ \A i \in DOMAIN pending :
       /\ Ahead(pending[i].at) + r < RING
       /\ Ahead(pending[i].at) \in Nat
       /\ Ahead(pending[i].at)' = Ahead(pending[i].at) + r
  /\ (wr' - wr) % RING = r

\* A frame in its place, as RingInv has it.
InPlace(i) ==
  /\ i = 1 => pending[i].at = rx_read_ptr % RING
  /\ i < Len(pending) => pending[i + 1].at = Behind(pending[i])
  /\ i = Len(pending) => wr = Behind(pending[i])
  /\ Room(pending[i].frame.len) <= (wr - pending[i].at) % RING
  /\ \A j \in DOMAIN pending :
       i <= j => (wr - pending[j].at) % RING <= (wr - pending[i].at) % RING

\* What Arrive does, with the sequence taken apart.
LEMMA ArriveStores ==
  ASSUME RingInv, NEW n \in Lengths, Arrive([len |-> n])
  PROVE  Stores(n, Room(n))
  <1> DEFINE r == Room(n)
             new == [at |-> wr, frame |-> [len |-> n]]
  <1>1. /\ r \in Nat /\ r >= 8 /\ r % 4 = 0 /\ r = Room(n)
        /\ RING \in Nat /\ RING > 16
    BY RoomFacts, RingFacts
  <1>2. /\ pending \in Seq(Stored) /\ wr \in Positions /\ new \in Stored
        /\ pending' = Append(pending, new) /\ wr' = (wr + r) % RING
        /\ UNCHANGED <<capr, rx_read_ptr>>
        /\ ((wr - (rx_read_ptr % RING)) % RING) + r < RING
    BY PointersAgree DEF RingInv, Arrive, Stored, Fits
  <1>3. /\ pending' \in Seq(Stored) /\ Len(pending') = Len(pending) + 1
        /\ DOMAIN pending' = 1..(Len(pending) + 1)
        /\ \A i \in DOMAIN pending : pending'[i] = pending[i] /\ i \in 1..Len(pending)
        /\ pending'[Len(pending) + 1] = new
        /\ Len(pending) \in Nat
    BY <1>2
  <1> QED
    BY <1>1, <1>2, <1>3 DEF Stores

\* The room it takes is within the ring, so nothing is passed.
LEMMA ArriveAhead ==
  ASSUME RingInv, NEW n \in Lengths, NEW r, Stores(n, r)
  PROVE  GoesAhead(r)
  <1>1. /\ r \in Nat /\ RING \in Nat /\ RING > 16
        /\ pending \in Seq(Stored) /\ wr \in Positions /\ wr' = (wr + r) % RING
        /\ ((wr - (rx_read_ptr % RING)) % RING) + r < RING
        /\ \A i \in DOMAIN pending : pending'[i] = pending[i] /\ i \in 1..Len(pending)
    BY DEF Stores
  <1>2. ASSUME NEW i \in DOMAIN pending
        PROVE  Ahead(pending[i].at) + r < RING /\ Ahead(pending[i].at) \in Nat
    <2>1. /\ i \in 1..Len(pending) /\ pending[i] \in Stored
          /\ 1 \in DOMAIN pending /\ pending[1] \in Stored /\ 1 <= i
      BY <1>1
    <2>2. Ahead(pending[i].at) <= Ahead(pending[1].at) /\ pending[1].at = rx_read_ptr % RING
      BY <2>1 DEF RingInv
    <2>3. wr - pending[i].at \in Int /\ wr - pending[1].at \in Int
      <3>1. pending[i].at \in Positions /\ pending[1].at \in Positions
        BY <2>1, Zenon DEF Stored
      <3>2. \A x \in Positions : x \in Int
        BY RingFacts DEF Positions
      <3>3. wr \in Int /\ pending[i].at \in Int /\ pending[1].at \in Int
        BY <1>1, <3>1, <3>2, Zenon
      <3> QED
        BY ONLY <3>3
    <2>4. Ahead(pending[i].at) \in 0..(RING - 1) /\ Ahead(pending[1].at) \in 0..(RING - 1)
      BY ONLY <2>3, RingFacts, DivMod, Zenon DEF Ahead
    <2>5. Ahead(pending[1].at) + r < RING
      BY <1>1, <2>2 DEF Ahead
    <2> QED
      BY ONLY <1>1, <2>2, <2>4, <2>5
  <1>3. ASSUME NEW i \in DOMAIN pending
        PROVE  Ahead(pending[i].at)' = Ahead(pending[i].at) + r
    <2>1. pending[i].at \in Positions /\ pending'[i] = pending[i]
      BY <1>1, StoredFacts
    <2>2. ((wr - pending[i].at) % RING) + r < RING
      BY <1>2 DEF Ahead
    <2> QED
      BY ONLY <1>1, <2>1, <2>2, AheadGrows DEF Ahead
  <1>4. (wr' - wr) % RING = r
    <2>1. (wr - wr) % RING = 0
      <3>1. wr - wr = 0
        BY <1>1 DEF Positions
      <3>2. 0 \in 0..(RING - 1)
        BY <1>1
      <3> QED
        BY <3>1, <3>2, RingFacts, ModSmall
    <2>2. r < RING
      <3>1. wr - (rx_read_ptr % RING) \in Int
        <4>1. rx_read_ptr \in Int /\ wr \in Int
          BY RingFacts DEF RingInv, Positions
        <4>2. rx_read_ptr % RING \in 0..(RING - 1)
          BY ONLY <4>1, RingFacts, DivMod, Zenon
        <4> QED
          BY <4>1, <4>2
      <3>2. (wr - (rx_read_ptr % RING)) % RING \in 0..(RING - 1)
        BY <3>1, RingFacts, DivMod, Zenon
      <3> QED
        BY <1>1, <3>2
    <2>3. (((wr + r) % RING) - wr) % RING = r
      BY ONLY <1>1, <2>1, <2>2, AheadGrows
    <2> QED
      BY <1>1, <2>3
  <1> QED
    BY <1>2, <1>3, <1>4, Zenon DEF GoesAhead

\* The new frame is in its place.
LEMMA NewInPlace ==
  ASSUME RingInv, NEW n \in Lengths, NEW r, Stores(n, r), GoesAhead(r),
         NEW i, i = Len(pending) + 1
  PROVE  InPlace(i)'
  <1>1. /\ pending'[i].at = wr /\ pending'[i].frame.len = n
        /\ i = Len(pending') /\ Len(pending) \in Nat /\ DOMAIN pending' = 1..i
        /\ r \in Nat /\ r = Room(n)
        /\ wr' = (wr + r) % RING /\ UNCHANGED rx_read_ptr
    BY DEF Stores
  <1>2. i = 1 => pending'[i].at = rx_read_ptr' % RING
    <2>1. i = 1 => pending = <<>>
      BY <1>1 DEF RingInv
    <2> QED
      BY <1>1, <2>1 DEF RingInv
  <1>3. wr' = Behind(pending'[i])
    BY <1>1 DEF Behind
  <1>4. (wr' - pending'[i].at) % RING = r
    BY <1>1 DEF GoesAhead
  <1>5. \A j \in DOMAIN pending' : i <= j => j = i
    BY <1>1
  <1>6. ~(i < Len(pending')) /\ r <= r
    BY <1>1
  <1>7. Room(pending'[i].frame.len) <= (wr' - pending'[i].at) % RING
    BY <1>1, <1>4, <1>6, Zenon
  <1>8. \A j \in DOMAIN pending' :
          i <= j => (wr' - pending'[j].at) % RING <= (wr' - pending'[i].at) % RING
    BY <1>4, <1>5, <1>6, Zenon
  <1> QED
    BY <1>2, <1>3, <1>6, <1>7, <1>8, Zenon DEF InPlace, Behind, Room

\* The frames that were there still are.
LEMMA OldInPlace ==
  ASSUME RingInv, NEW n \in Lengths, NEW r, Stores(n, r), GoesAhead(r),
         NEW i \in DOMAIN pending
  PROVE  InPlace(i)'
  <1>1. /\ pending'[i] = pending[i] /\ i \in 1..Len(pending) /\ pending \in Seq(Stored)
        /\ Len(pending) \in Nat /\ Len(pending') = Len(pending) + 1
        /\ DOMAIN pending' = 1..(Len(pending) + 1)
        /\ \A j \in DOMAIN pending : pending'[j] = pending[j]
        /\ pending'[Len(pending) + 1].at = wr
        /\ r \in Nat /\ UNCHANGED rx_read_ptr
    BY DEF Stores
  <1>2. i = 1 => pending'[i].at = rx_read_ptr' % RING
    BY <1>1 DEF RingInv
  <1>3. pending'[i + 1].at = Behind(pending'[i])
    <2>1. CASE i = Len(pending)
      BY <1>1, <2>1 DEF RingInv
    <2>2. CASE i < Len(pending)
      <3>1. i + 1 \in DOMAIN pending
        BY <1>1, <2>2
      <3> QED
        BY <1>1, <2>2, <3>1 DEF RingInv
    <2> QED
      BY <1>1, <2>1, <2>2
  <1>4. /\ (wr' - pending'[i].at) % RING = Ahead(pending[i].at) + r
        /\ Ahead(pending[i].at) \in Nat
        /\ Room(pending[i].frame.len) <= Ahead(pending[i].at)
        /\ Room(pending[i].frame.len) \in Nat
    <2>1. pending[i].frame.len \in Lengths
      BY <1>1, StoredFacts
    <2>2. Room(pending[i].frame.len) <= Ahead(pending[i].at)
      BY Zenon DEF RingInv
    <2>3. Ahead(pending[i].at) \in Nat /\ (wr' - pending'[i].at) % RING = Ahead(pending[i].at) + r
      BY Zenon DEF GoesAhead, Ahead
    <2> QED
      BY <2>1, <2>2, <2>3, RoomFacts, Zenon
  <1>5. ASSUME NEW j \in DOMAIN pending', i <= j
        PROVE  (wr' - pending'[j].at) % RING <= (wr' - pending'[i].at) % RING
    <2>1. CASE j = Len(pending) + 1
      <3>1. (wr' - pending'[j].at) % RING = r
        BY <1>1, <2>1 DEF GoesAhead
      <3> QED
        BY ONLY <1>1, <1>4, <3>1
    <2>2. CASE j \in DOMAIN pending
      <3>1. Ahead(pending[j].at) <= Ahead(pending[i].at)
        BY <1>5, <2>2, Zenon DEF RingInv
      <3>2. (wr' - pending'[j].at) % RING = Ahead(pending[j].at) + r
        BY <2>2, Zenon DEF Ahead, GoesAhead
      <3>3. Ahead(pending[j].at) \in Nat
        BY <2>2 DEF GoesAhead
      <3> QED
        BY ONLY <1>1, <1>4, <3>1, <3>2, <3>3
    <2> QED
      BY <1>1, <2>1, <2>2
  <1>6. Room(pending'[i].frame.len) <= (wr' - pending'[i].at) % RING
    <2>1. \A a, b \in Nat : b <= a => b <= a + r
      BY <1>1
    <2> QED
      BY <1>1, <1>4, <2>1, Zenon
  <1>7. i # Len(pending')
    BY <1>1
  <1> QED
    BY <1>2, <1>3, <1>5, <1>6, <1>7, Zenon DEF InPlace, Behind, Room

\* A frame that Fits is stored.
LEMMA RingArrive ==
  ASSUME RingInv, NEW n \in Lengths, Arrive([len |-> n])
  PROVE  RingInv'
  <1>1. PICK r : Stores(n, r) /\ GoesAhead(r)
    BY ArriveStores, ArriveAhead, Zenon
  <1>2. wr' \in Positions
    <2>1. wr \in Nat /\ wr % 4 = 0 /\ r \in Nat /\ r % 4 = 0 /\ wr' = (wr + r) % RING
      BY <1>1 DEF Stores, Positions
    <2>2. wr + r \in Int /\ (wr + r) % 4 = 0
      BY ONLY <2>1, Z3
    <2> QED
      BY <2>1, <2>2, Aligned
  <1>3. /\ pending' \in Seq(Stored) /\ pending' # <<>>
        /\ UNCHANGED <<capr, rx_read_ptr>>
        /\ Len(pending) \in Nat /\ DOMAIN pending' = 1..(Len(pending) + 1)
        /\ DOMAIN pending = 1..Len(pending)
    BY <1>1 DEF Stores
  <1>4. ASSUME NEW i \in DOMAIN pending'
        PROVE  InPlace(i)'
    <2>1. i = Len(pending) + 1 \/ i \in DOMAIN pending
      BY ONLY <1>3, i \in DOMAIN pending'
    <2> QED
      BY <1>1, <2>1, NewInPlace, OldInPlace, Zenon
  <1>5. \A i \in DOMAIN pending' : InPlace(i)'
    BY <1>4
  <1> QED
    BY <1>2, <1>3, <1>5, Zenon DEF RingInv, InPlace, Ahead, Behind, Room

\* HandleReceive takes the oldest frame.
LEMMA RingReceive ==
  ASSUME RingInv, pending # <<>>, Receive(pending[1].frame)
  PROVE  RingInv'
  <1>1. /\ pending \in Seq(Stored) /\ pending' = Tail(pending)
        /\ rx_read_ptr' = Advance(pending[1].frame.len)
        /\ capr' = (rx_read_ptr' - 16) % RING
        /\ wr' = wr /\ wr \in Positions
    BY DEF RingInv, Receive
  <1>2. 1 \in DOMAIN pending /\ pending[1] \in Stored /\ pending[1].frame.len \in Lengths
    <2>1. 1 \in DOMAIN pending
      BY <1>1
    <2> QED
      BY <1>1, <2>1, StoredFacts
  <1>3. /\ rx_read_ptr' \in 0..(Word - 1) /\ rx_read_ptr' % 4 = 0
        /\ rx_read_ptr' % RING = Behind(pending[1])
    BY <1>1, <1>2, AdvanceFacts DEF RingInv, Behind
  <1>4. /\ pending' \in Seq(Stored) /\ Len(pending') = Len(pending) - 1
        /\ \A i \in DOMAIN pending' : /\ i \in 1..Len(pending') /\ i + 1 \in DOMAIN pending
                                      /\ pending'[i] = pending[i + 1]
        /\ Len(pending) \in Nat
    BY <1>1
  <1>5. pending' = <<>> => Len(pending) = 1
    <2>1. pending' = <<>> => Len(pending') = 0
      OBVIOUS
    <2> QED
      BY <1>4, <2>1
  <1>6. pending' = <<>> => wr' = rx_read_ptr' % RING
    <2>1. Len(pending) = 1 => wr = Behind(pending[1])
      BY <1>2, Zenon DEF RingInv
    <2> QED
      BY <1>1, <1>3, <1>5, <2>1, Zenon
  <1>7. ASSUME NEW i \in DOMAIN pending'
        PROVE  /\ i = 1 => pending'[i].at = rx_read_ptr' % RING
               /\ i < Len(pending') => pending'[i + 1].at = Behind(pending'[i])
               /\ i = Len(pending') => wr' = Behind(pending'[i])
               /\ Room(pending'[i].frame.len) <= (wr' - pending'[i].at) % RING
               /\ \A j \in DOMAIN pending' :
                    i <= j => (wr' - pending'[j].at) % RING <= (wr' - pending'[i].at) % RING
    <2>1. /\ i \in 1..Len(pending') /\ i + 1 \in DOMAIN pending /\ pending'[i] = pending[i + 1]
          /\ Len(pending') = Len(pending) - 1 /\ Len(pending) \in Nat
      BY <1>4
    <2>2. i = 1 => pending'[i].at = rx_read_ptr' % RING
      <3> SUFFICES ASSUME i = 1 PROVE pending[2].at = Behind(pending[1])
        BY <1>3, <2>1
      <3>1. 1 < Len(pending)
        BY <2>1
      <3> QED
        BY <1>2, <3>1 DEF RingInv
    <2>3. i < Len(pending') => pending'[i + 1].at = Behind(pending'[i])
      <3> SUFFICES ASSUME i < Len(pending') PROVE pending'[i + 1].at = Behind(pending'[i])
        OBVIOUS
      <3>1. i + 1 \in DOMAIN pending' /\ i + 1 < Len(pending)
        BY <1>4, <2>1
      <3>2. pending'[i + 1] = pending[(i + 1) + 1]
        BY <1>4, <3>1
      <3> QED
        BY <2>1, <3>1, <3>2 DEF RingInv
    <2>4. i = Len(pending') => wr' = Behind(pending'[i])
      <3>1. i = Len(pending') => i + 1 = Len(pending)
        BY <2>1
      <3>2. i = Len(pending') => wr = Behind(pending[i + 1])
        BY <2>1, <3>1, Zenon DEF RingInv
      <3> QED
        BY <1>1, <2>1, <3>2, Zenon
    <2>5. Room(pending'[i].frame.len) <= (wr' - pending'[i].at) % RING
      BY <1>1, <2>1, Zenon DEF RingInv, Ahead
    <2>6. ASSUME NEW j \in DOMAIN pending', i <= j
          PROVE  (wr' - pending'[j].at) % RING <= (wr' - pending'[i].at) % RING
      <3>1. j + 1 \in DOMAIN pending /\ pending'[j] = pending[j + 1] /\ i + 1 <= j + 1
        BY <1>4, <2>1, <2>6
      <3>2. Ahead(pending[j + 1].at) <= Ahead(pending[i + 1].at)
        BY <2>1, <3>1, Zenon DEF RingInv
      <3> QED
        BY <1>1, <2>1, <3>1, <3>2, Zenon DEF Ahead
    <2> QED
      BY <2>2, <2>3, <2>4, <2>5, <2>6
  <1> QED
    BY <1>1, <1>3, <1>4, <1>6, <1>7, Zenon DEF RingInv, Ahead, Behind, Room

\* RingInv is an invariant of the card and its handler (rtl8139.cpp:40-110).
LEMMA RingAlways == CardSpec => []RingInv
  <1>1. CardInit => RingInv
    <2> SUFFICES ASSUME CardInit PROVE RingInv
      OBVIOUS
    <2>1. 0 % RING = 0 /\ 0 % 4 = 0
      BY RingFacts, ModSmall
    <2>2. (0 - 16) % RING = RING - 16
      <3>1. /\ RING \in Nat \ {0} /\ -1 \in Int /\ RING - 16 \in 0..(RING - 1)
            /\ 0 - 16 \in Int /\ 0 - 16 = RING * (-1) + (RING - 16)
        BY RingFacts
      <3> QED
        BY ONLY <3>1, ModUnique
    <2> QED
      BY <2>1, <2>2, RingFacts DEF CardInit, RingInv, Positions
  <1>2. RingInv /\ [CardNext]_card => RingInv'
    <2> SUFFICES ASSUME RingInv, [CardNext]_card PROVE RingInv'
      OBVIOUS
    <2>1. ASSUME NEW n \in Lengths, Arrive([len |-> n]) PROVE RingInv'
      BY <2>1, RingArrive
    <2>2. CASE pending # <<>> /\ Receive(pending[1].frame)
      BY <2>2, RingReceive
    <2>3. CASE Sent \/ ReadStatus \/ Ack \/ Done \/ UNCHANGED card
      <3>1. UNCHANGED <<pending, wr, capr, rx_read_ptr>>
        BY <2>3 DEF Sent, ReadStatus, Ack, Done, card
      <3> QED
        BY <3>1 DEF RingInv, Ahead, Behind
    <2> QED
      BY <2>1, <2>2, <2>3, Zenon DEF CardNext
  <1> QED
    BY <1>1, <1>2, PTL DEF CardSpec

\* In every state with RingInv the driver and the card agree on the ring.
LEMMA InStep == RingInv => RingInStep
  <1> SUFFICES ASSUME RingInv PROVE RingInStep
    OBVIOUS
  <1>1. ReadPointer = rx_read_ptr % RING
    BY PointersAgree
  <1>2. pending \in Seq(Stored)
    BY DEF RingInv
  <1>3. pending # <<>> => /\ 1 \in DOMAIN pending
                          /\ pending[1].at = rx_read_ptr % RING
    BY <1>2 DEF RingInv
  <1>4. BufferEmpty <=> pending = <<>>
    <2>1. pending = <<>> => BufferEmpty
      BY <1>1 DEF RingInv, BufferEmpty
    <2>2. ASSUME pending # <<>>, BufferEmpty PROVE FALSE
      <3>1. 1 \in DOMAIN pending /\ pending[1].at = wr
        BY <1>1, <1>3, <2>2 DEF BufferEmpty
      <3>2. Room(pending[1].frame.len) <= (wr - wr) % RING /\ wr - wr = 0
        BY <3>1 DEF RingInv, Ahead, Positions
      <3>3. 0 % RING = 0
        BY RingFacts, ModSmall
      <3>4. Room(pending[1].frame.len) \in Nat /\ Room(pending[1].frame.len) >= 8
        BY <1>2, <3>1, StoredFacts, RoomFacts
      <3> QED
        BY ONLY <3>2, <3>3, <3>4
    <2> QED
      BY <2>1, <2>2
  <1>5. ASSUME NEW i \in DOMAIN pending
        PROVE  pending[i].at + 4 + (pending[i].frame.len - 4) <= RING + Slack
    <2>1. pending[i].at \in Positions /\ pending[i].frame.len \in Lengths
      BY <1>2, StoredFacts
    <2> DEFINE a == pending[i].at
               n == pending[i].frame.len
    <2>2. n \in Nat /\ n <= Slack + 4 /\ Slack \in Nat
      BY <2>1, RoomFacts, RingAssumption, Zenon
    <2>3. a \in Nat /\ a < RING /\ a % 4 = 0
      BY <2>1, RingFacts DEF Positions
    <2> HIDE DEF a, n
    <2>4. a + 4 <= RING
      BY ONLY <2>3, RingFacts, Z3
    <2>5. a + 4 + (n - 4) <= RING + Slack
      BY ONLY <2>2, <2>3, <2>4, RingFacts
    <2> QED
      BY <2>5 DEF a, n
  <1> QED
    BY <1>1, <1>3, <1>4, <1>5 DEF RingInStep

\* HandleReceive and the card agree on the ring for every size of it, every set of
\* frame lengths and any number of frames, across the end of the ring and the
\* overflow of rx_read_ptr (rtl8139.cpp:93-104).
THEOREM CardInStep == CardSpec => []RingInStep
  BY RingAlways, InStep, PTL

\* HandleInterrupt acknowledges before it looks, so that no frame stays in the ring
\* without an interrupt (rtl8139.cpp:86-104).
THEOREM CardStrandsNoFrame == CardSpec => []NoFrameStranded
  <1>1. CardInit => NoFrameStranded
    BY DEF CardInit, NoFrameStranded
  <1>2. RingInStep /\ NoFrameStranded /\ [CardNext]_card => NoFrameStranded'
    <2> SUFFICES ASSUME RingInStep, NoFrameStranded, [CardNext]_card
                 PROVE  NoFrameStranded'
      OBVIOUS
    <2>1. ASSUME NEW n \in Lengths, Arrive([len |-> n]) PROVE NoFrameStranded'
      BY <2>1 DEF Arrive, NoFrameStranded
    <2>2. CASE pending # <<>> /\ Receive(pending[1].frame)
      BY <2>2 DEF Receive, NoFrameStranded
    <2>3. CASE Sent
      BY <2>3 DEF Sent, NoFrameStranded
    <2>4. CASE ReadStatus
      BY <2>4 DEF ReadStatus, NoFrameStranded
    <2>5. CASE Ack
      BY <2>5 DEF Ack, NoFrameStranded
    <2>6. CASE Done
      BY <2>6 DEF Done, NoFrameStranded, RingInStep
    <2>7. CASE UNCHANGED card
      BY <2>7 DEF card, NoFrameStranded
    <2> QED
      BY <2>1, <2>2, <2>3, <2>4, <2>5, <2>6, <2>7, Zenon DEF CardNext
  <1> QED
    BY <1>1, <1>2, CardInStep, PTL DEF CardSpec

-----------------------------------------------------------------------------
(***************************************************************************)
(* The card among the other devices.                                       *)
(***************************************************************************)

\* The interrupt controllers, the keyboard and the mouse come and go between any
\* two steps of the handler; to the card every step of the system is one of its
\* own or none.
THEOREM SystemImplementsCard == Spec => CardSpec
  <1>1. Init => CardInit
    BY DEF Init
  <1>2. [Next]_vars => [CardNext]_card
    <2> SUFFICES ASSUME [Next]_vars PROVE [CardNext]_card
      OBVIOUS
    <2>1. CASE Fill \/ Move \/ Tick \/ \E k \in Keys : Strike(k)
      BY <2>1 DEF Fill, Move, Tick, Strike
    <2>2. CASE CardStep
      BY <2>2 DEF CardStep, CardNext
    <2>3. CASE Construct \/ ReadConfig \/ EnableMouse \/ ReadAck \/ ActivateAll \/ Activate
      BY <2>3, Zenon DEF Construct, ReadConfig, EnableMouse, ReadAck, ActivateAll, Activate
    <2>4. CASE ServeTimer \/ ServeKeyboard \/ ServeMouse
      BY <2>4 DEF ServeTimer, ServeKeyboard, ServeMouse
    <2>5. CASE ServeNic
      BY <2>5 DEF ServeNic, CardNext
    <2>6. ASSUME NEW l \in Lines, Take(l) PROVE [CardNext]_card
      BY <2>6 DEF Take, CardNext
    <2>7. CASE UNCHANGED vars
      BY <2>7 DEF vars
    <2> QED
      BY <2>1, <2>2, <2>3, <2>4, <2>5, <2>6, <2>7 DEF Next, Kernel
  <1> QED
    BY <1>1, <1>2, PTL DEF Spec, CardSpec

\* The ring stays in step in the running system (rtl8139.cpp:93-104).
THEOREM AlwaysInStep == Spec => []RingInStep
  BY SystemImplementsCard, CardInStep, PTL

\* No frame is stranded in the running system, whatever other interrupts are served
\* in between (rtl8139.cpp:86-104, interrupts.cpp:120-143).
THEOREM NoneStranded == Spec => []NoFrameStranded
  BY SystemImplementsCard, CardStrandsNoFrame, PTL
=============================================================================
