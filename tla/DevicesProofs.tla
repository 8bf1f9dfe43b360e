--------------------------- MODULE DevicesProofs ----------------------------
(***************************************************************************)
(* The devices, for every bus that keeps the promises of PCI and every     *)
(* disk: what kernelMain has found and set up when it lets interrupts in.  *)
(***************************************************************************)
EXTENDS KernelMain, FiniteSetTheorems, TLAPS

\* Division with remainder.
LEMMA DivMod ==
  ASSUME NEW a \in Nat, NEW s \in Nat \ {0}
  PROVE  a = s * (a \div s) + (a % s) /\ a \div s \in Nat
  <1>1. s > 0
    OBVIOUS
  <1> QED
    BY <1>1, SMT

\* What a multiple of s leaves over together with a smaller number.
LEMMA ModAdd ==
  ASSUME NEW a \in Nat, NEW s \in Nat \ {0}, a % s = 0, NEW k \in Nat, k < s
  PROVE  (a + k) % s = k
  BY Z3

\* A multiple of a multiple of m is a multiple of m.
LEMMA ModOfMultiple ==
  ASSUME NEW a \in Nat, NEW s \in Nat \ {0}, NEW m \in {4, 16}, a % s = 0, s % m = 0
  PROVE  a % m = 0
  <1>1. PICK q \in Nat : a = s * q
    BY DivMod, Z3
  <1>2. PICK p \in Nat : s = m * p
    BY DivMod, Z3
  <1>3. p * q \in Nat /\ a = m * (p * q)
    BY <1>1, <1>2, Z3
  <1>4. \A n \in Nat : (4 * n) % 4 = 0 /\ (16 * n) % 16 = 0
    BY Z3
  <1> QED
    BY <1>3, <1>4, Z3

\* All ones end in ones below any power of two.
LEMMA ModOnes ==
  ASSUME NEW s \in Nat \ {0}, NEW n \in Nat \ {0}, n % s = 0
  PROVE  /\ s <= n /\ (n - s) % s = 0
         /\ (n - 1) % s = s - 1
  <1>1. PICK q \in Nat : n = s * q
    BY DivMod, Z3
  <1>2. q # 0
    BY <1>1, Z3
  <1>3. q - 1 \in Nat /\ n - s = s * (q - 1)
    BY <1>1, <1>2, Z3
  <1>4. n - s \in Nat
    BY <1>3, Z3
  <1>5. (n - s) % s = 0
    BY <1>3, <1>4, Z3
  <1>6. n - 1 = (n - s) + (s - 1) /\ s - 1 \in Nat /\ s - 1 < s
    BY Z3
  <1> QED
    BY <1>4, <1>5, <1>6, ModAdd, Z3
\* A register reads odd if and only if it is for ports, and its value is what the
\* code masks out of it.
LEMMA BarReads ==
  ASSUME NEW b \in Bar, ReadBar(b) # 0
  PROVE  /\ b.size \in Nat \ {0} /\ b.value \in Nat
         /\ IsIo(ReadBar(b)) <=> b.io
         /\ \A v \in Nat : v % b.size = 0 =>
              Masked(ReadBar(b), v + (IF b.io THEN 1 ELSE 0)) = v
  <1>1. /\ b.io \in BOOLEAN /\ b.size \in Nat \ {0} /\ b.value \in Nat
        /\ b.value % b.size = 0 /\ b.size % (IF b.io THEN 4 ELSE 16) = 0
    BY DEF Bar, ReadBar
  <1>2. CASE b.io
    <2>1. \A v \in Nat : v % b.size = 0 => v % 4 = 0
      BY <1>1, <1>2, ModOfMultiple
    <2>2. \A v \in Nat : v % 4 = 0 => (v + 1) % 4 = 1 /\ (v + 1) % 2 = 1
      BY Z3
    <2>3. IsIo(ReadBar(b))
      BY <1>1, <1>2, <2>1, <2>2 DEF IsIo, ReadBar
    <2>4. \A v \in Nat : Masked(ReadBar(b), v + 1) = v + 1 - ((v + 1) % 4)
      BY <2>3 DEF Masked
    <2> QED
      <3>1. \A v \in Nat : v % b.size = 0 => Masked(ReadBar(b), v + 1) = v
        BY <2>1, <2>2, <2>4
      <3>2. IsIo(ReadBar(b)) <=> b.io
        BY <1>2, <2>3, Zenon
      <3>3. (IF b.io THEN 1 ELSE 0) = 1
        BY <1>2
      <3> QED
        BY <1>1, <3>1, <3>2, <3>3, Zenon
  <1>3. CASE ~b.io
    <2>1. \A v \in Nat : v % b.size = 0 => v % 16 = 0
      BY <1>1, <1>3, ModOfMultiple
    <2>2. \A v \in Nat : v % 16 = 0 => v % 2 = 0 /\ v + 0 = v
      BY Z3
    <2>3. ~IsIo(ReadBar(b))
      <3>1. ReadBar(b) = b.value /\ b.value % 2 = 0
        BY <1>1, <1>3, <2>1, <2>2, Zenon DEF ReadBar
      <3> QED
        BY <3>1 DEF IsIo
    <2>4. \A v \in Nat : Masked(ReadBar(b), v) = v - (v % 16)
      BY <2>3 DEF Masked
    <2> QED
      <3>1. \A v \in Nat : v % b.size = 0 => Masked(ReadBar(b), v + 0) = v
        BY <2>1, <2>2, <2>4
      <3>2. IsIo(ReadBar(b)) <=> b.io
        BY <1>3, <2>3, Zenon
      <3>3. (IF b.io THEN 1 ELSE 0) = 0
        BY <1>3
      <3> QED
        BY <1>1, <3>1, <3>2, <3>3, Zenon
  <1> QED
    BY <1>2, <1>3

\* What a probe finds and leaves: the size, and the register as it was.
LEMMA BarProbe ==
  ASSUME NEW b \in Bar
  PROVE  /\ Probed(b) = b
         /\ ReadBar(b) # 0 => BarSize(b) = b.size
         /\ b.io => PortBase(b) = b.value
  <1>1. CASE ReadBar(b) = 0
    <2>1. ~b.io
      BY <1>1 DEF ReadBar, Bar
    <2> QED
      BY <1>1, <2>1 DEF Probed
  <1>2. CASE ReadBar(b) # 0
    <2>1. /\ b \in [io : BOOLEAN, size : Nat, value : Nat] /\ b.size # 0
          /\ b.size < Space /\ Space % b.size = 0 /\ b.value % b.size = 0
          /\ b.size % (IF b.io THEN 4 ELSE 16) = 0
      BY <1>2 DEF Bar, ReadBar
    <2> DEFINE bit == IF b.io THEN 1 ELSE 0
    <2>2. /\ b.size <= Space /\ (Space - b.size) % b.size = 0
          /\ (Space - 1) % b.size = b.size - 1
      BY <2>1, ModOnes, DevicesAssumption, Zenon
    <2>3. WriteBar(b, Space - 1) = [b EXCEPT !.value = Space - b.size]
      <3>1. Space - 1 - (b.size - 1) = Space - b.size
        BY <2>1, DevicesAssumption
      <3> QED
        BY <2>2, <3>1 DEF WriteBar
    <2>4. ReadBar(WriteBar(b, Space - 1)) = (Space - b.size) + bit
      BY <2>1, <2>3 DEF ReadBar
    <2>5. Masked(ReadBar(b), (Space - b.size) + bit) = Space - b.size
      <3>1. Space - b.size \in Nat
        BY <2>1, <2>2, DevicesAssumption
      <3> QED
        BY <1>2, <2>2, <3>1, BarReads
    <2>6. BarSize(b) = b.size
      <3>1. Space - (Space - b.size) = b.size
        BY <2>1, DevicesAssumption
      <3>2. b.size % Space = b.size
        BY <2>1, DevicesAssumption, Z3
      <3> QED
        BY <1>2, <2>4, <2>5, <3>1, <3>2 DEF BarSize
    <2>7. bit < b.size /\ bit \in Nat
      BY <2>1
    <2>8. ReadBar(b) - (ReadBar(b) % b.size) = b.value
      <3>1. (b.value + bit) % b.size = bit
        BY <2>1, <2>7, ModAdd
      <3> QED
        BY <2>1, <2>7, <3>1 DEF ReadBar
    <2>9. Probed(b) = b
      <3>1. WriteBar(WriteBar(b, Space - 1), ReadBar(b)) = [b EXCEPT !.value = b.value]
        BY <2>1, <2>3, <2>8, Zenon DEF WriteBar
      <3> QED
        BY <1>2, <2>1, <3>1 DEF Probed
    <2>10. b.io => PortBase(b) = b.value
      <3>1. b.io => Masked(ReadBar(b), b.value + 1) = b.value
        BY <1>2, <2>1, BarReads
      <3> QED
        BY <1>2, <2>1, <3>1, BarReads DEF PortBase, ReadBar
    <2> QED
      BY <2>6, <2>9, <2>10
  <1> QED
    BY <1>1, <1>2

\* The order of the scan, and the cards it has come past.
Before(x, y) == x[1] < y[1] \/ (x[1] = y[1] /\ x[2] < y[2])

Scanned == {x \in Cards : Before(x, at)}

\* What SelectDrivers enters for a card.
Entry(x) == [type |-> Card(x).kind, at |-> x, io_base |-> PortBase(Card(x).bars[1])]

\* The loops stand at a function that is there, or behind the last device.
BusInv ==
  /\ bus \in Buses
  /\ at \in (Nat \ {0}) \X (1..8)
  /\ IF stage = "scan" THEN at[1] <= Len(bus) => at[2] <= NumFunctions(at[1])
                       ELSE at[1] > Len(bus)

\* A line is served by a card on it that was scanned, if there is one.
Own(l) == CASE l = 1 -> Keyboard [] l = 12 -> Mouse [] OTHER -> <<>>

HandlersInv ==
  /\ handlers = [l \in 0..15 |-> handlers[l]]
  /\ \A l \in 0..15 :
       \/ stage = "on" /\ l = 0
       \/ handlers[l] \in Scanned /\ Line(Card(handlers[l])) = l
       \/ handlers[l] = Own(l) /\ \A x \in Scanned : Line(Card(x)) # l
  /\ stage = "on" => handlers[0] = Timer

\* The table has an entry for each card that was scanned, in the order of the scan.
TableInv ==
  /\ drivers \in Seq({Entry(x) : x \in Scanned})
  /\ Len(drivers) = Cardinality(Scanned)
  /\ \A i, j \in DOMAIN drivers : i < j => Before(drivers[i].at, drivers[j].at)
  /\ \A x \in Scanned : \E i \in DOMAIN drivers : drivers[i].at = x

Parted == disk[0].signed /\ PartitionCount(disk[0]) > 0

\* What kernelMain has chosen so far.
ChoiceInv ==
  /\ stage \in {"scan", "disk", "partition", "raw", "nic", "on"}
  /\ stage # "scan" => active = {drivers[i].at : i \in DOMAIN drivers}
  /\ Readable =>
       /\ stage = "partition" => Parted /\ partition_lba = disk[0].parts[1].lba
       /\ stage = "raw" => ~(Parted /\ disk[disk[0].parts[1].lba].fat)
       /\ stage \in {"nic", "on"} /\ OfType("ata") # {} => global_fat32 = FirstVolume
  /\ stage = "on" =>
       \/ OfType("rtl8139") = {} /\ global_nic = <<>>
       \/ \E i \in OfType("rtl8139") : /\ \A j \in OfType("rtl8139") : i <= j
                                       /\ global_nic = drivers[i].at

DevInv ==
  /\ BusInv /\ HandlersInv /\ ChoiceInv
  /\ Cardinality(Cards) <= MAX_DRIVERS => TableInv

\* The parts of a bus.
LEMMA BusTypes ==
  ASSUME bus \in Buses
  PROVE  /\ Len(bus) \in Nat /\ DOMAIN bus = 1..Len(bus)
         /\ bus \in [1..Len(bus) -> PciDevice]
         /\ \A d \in 1..Len(bus) :
              /\ bus[d] \in PciDevice
              /\ bus[d].functions \in [1..Len(bus[d].functions) -> PciFunction]
              /\ Len(bus[d].functions) \in 1..8
              /\ DOMAIN bus[d].functions = 1..Len(bus[d].functions)
  <1>1. bus \in Seq(PciDevice)
    BY DevicesAssumption
  <1>2. \A d \in 1..Len(bus) : bus[d] \in PciDevice
    BY <1>1
  <1>3. \A x \in PciDevice : /\ x.functions \in Seq(PciFunction)
                             /\ Len(x.functions) \in 1..8
    BY DEF PciDevice
  <1> QED
    BY <1>1, <1>2, <1>3

\* The scan leaves the bus as it was.
LEMMA BusKept ==
  ASSUME bus \in Buses, NEW d \in 1..Len(bus), NEW f \in 1..Len(bus[d].functions)
  PROVE  [bus EXCEPT ![d].functions[f].bars =
            [i \in DOMAIN bus[d].functions[f].bars |->
               Probed(bus[d].functions[f].bars[i])]] = bus
  <1>1. PICK fn \in PciFunction : fn = bus[d].functions[f]
    BY BusTypes, Zenon
  <1>2. fn.bars \in Seq(Bar)
    BY DEF PciFunction
  <1>3. [i \in DOMAIN fn.bars |-> Probed(fn.bars[i])] = fn.bars
    BY <1>2, BarProbe
  <1>4. [fn EXCEPT !.bars = fn.bars] = fn
    BY DEF PciFunction
  <1>5. PICK fs : fs = bus[d].functions
    OBVIOUS
  <1>6. [fs EXCEPT ![f] = fs[f]] = fs
    BY <1>5, BusTypes
  <1>7. PICK dev \in PciDevice : dev = bus[d]
    BY BusTypes
  <1>8. [dev EXCEPT !.functions = dev.functions] = dev
    BY DEF PciDevice
  <1>9. [bus EXCEPT ![d] = bus[d]] = bus
    BY BusTypes
  <1>10. [bus[d].functions[f] EXCEPT !.bars = [i \in DOMAIN bus[d].functions[f].bars |->
               Probed(bus[d].functions[f].bars[i])]] = fn
    BY <1>1, <1>3, <1>4, Zenon
  <1>11. [bus[d].functions EXCEPT ![f].bars = [i \in DOMAIN bus[d].functions[f].bars |->
               Probed(bus[d].functions[f].bars[i])]] = fs
    BY <1>1, <1>5, <1>6, <1>10, Zenon
  <1>12. [bus[d] EXCEPT !.functions[f].bars = [i \in DOMAIN bus[d].functions[f].bars |->
               Probed(bus[d].functions[f].bars[i])]] = dev
    BY <1>5, <1>7, <1>8, <1>11, Zenon
  <1> QED
    BY <1>7, <1>9, <1>12, Zenon

\* A device has the functions that are tried.
LEMMA FunctionsTried ==
  ASSUME bus \in Buses, NEW d \in 1..Len(bus)
  PROVE  NumFunctions(d) \in 1..Len(bus[d].functions) /\ Len(bus[d].functions) \in 1..8
  <1>1. PICK n \in 1..8 : n = Len(bus[d].functions)
    BY BusTypes
  <1>2. NumFunctions(d) = n \/ NumFunctions(d) = 1
    BY <1>1, Zenon DEF NumFunctions
  <1>3. n \in 1..n /\ 1 \in 1..n
    OBVIOUS
  <1> QED
    BY <1>1, <1>2, <1>3, Zenon

\* A card is a pair of a device and one of the functions that are tried.
LEMMA CardTypes ==
  ASSUME bus \in Buses, NEW x \in Cards
  PROVE  /\ x = <<x[1], x[2]>> /\ x[1] \in 1..Len(bus) /\ x[2] \in 1..8
         /\ x[2] <= NumFunctions(x[1]) /\ x[2] \in 1..Len(bus[x[1]].functions)
         /\ Card(x) \in PciFunction /\ Card(x).kind \in Supported
         /\ Line(Card(x)) \in 0..15
  <1>1. /\ x \in (1..Len(bus)) \X (1..8)
        /\ x[2] \in DOMAIN bus[x[1]].functions
        /\ x[2] = 1 \/ DeviceHasFunctions(x[1])
        /\ bus[x[1]].functions[x[2]].kind \in Supported
    BY DEF Cards
  <1>2. x = <<x[1], x[2]>> /\ x[1] \in 1..Len(bus) /\ x[2] \in 1..8
    BY <1>1
  <1>3. x[2] \in 1..Len(bus[x[1]].functions) /\ Card(x) \in PciFunction
    BY <1>1, <1>2, BusTypes DEF Card
  <1>4. x[2] <= NumFunctions(x[1])
    BY <1>1, <1>2, <1>3, BusTypes DEF NumFunctions
  <1>5. Card(x).kind \in Supported
    BY <1>1 DEF Card
  <1>6. Line(Card(x)) \in 0..15
    BY <1>3, <1>5 DEF Line, Supported, PciFunction
  <1> QED
    BY <1>2, <1>3, <1>4, <1>5, <1>6

\* A machine has finitely many cards.
LEMMA CardsFinite ==
  ASSUME bus \in Buses
  PROVE  IsFiniteSet(Cards)
  <1>1. IsFiniteSet(1..Len(bus)) /\ IsFiniteSet(1..8)
    <2>1. 1 \in Int /\ 8 \in Int /\ Len(bus) \in Int
      BY BusTypes
    <2> QED
      BY <2>1, FS_Interval, Zenon
  <1>2. IsFiniteSet((1..Len(bus)) \X (1..8))
    BY <1>1, FS_Product
  <1>3. Cards \subseteq (1..Len(bus)) \X (1..8)
    BY DEF Cards
  <1> QED
    BY <1>2, <1>3, FS_Subset

\* A turn of the scan is at a function that is there, and goes past exactly it.
LEMMA BusStep ==
  ASSUME BusInv, stage = "scan", at[1] <= Len(bus), SelectDrivers
  PROVE  /\ bus' = bus /\ Cards' = Cards
         /\ Card(at) \in PciFunction
         /\ at \in Cards <=> Card(at).kind \in Supported
         /\ at \notin Scanned /\ \A x \in Scanned : Before(x, at)
         /\ Scanned' = IF at \in Cards THEN Scanned \cup {at} ELSE Scanned
         /\ BusInv'
  <1> DEFINE d == at[1]
             f == at[2]
  <1>1. /\ at = <<d, f>> /\ d \in 1..Len(bus) /\ f \in 1..8 /\ f <= NumFunctions(d)
        /\ bus \in Buses
    BY BusTypes DEF BusInv
  <1>2. f \in 1..Len(bus[d].functions)
    BY <1>1, FunctionsTried, SMTT(30)
  <1>3. bus' = bus
    BY <1>1, <1>2, BusKept DEF SelectDrivers
  <1>4. at' = IF f < NumFunctions(d) THEN <<d, f + 1>> ELSE <<d + 1, 1>>
    BY Zenon DEF SelectDrivers
  <1>5. NumFunctions(d) \in 1..8 /\ NumFunctions(d) <= Len(bus[d].functions)
    <2>1. \A n \in 1..8 : \A m \in 1..n : m \in 1..8 /\ m <= n
      OBVIOUS
    <2> QED
      BY <1>1, <2>1, FunctionsTried, Zenon
  <1>6. \A e : NumFunctions(e)' = NumFunctions(e)
    BY <1>3 DEF NumFunctions, DeviceHasFunctions
  <1>7. Cards' = Cards
    BY <1>3 DEF Cards, DeviceHasFunctions
  <1>8. Card(at) \in PciFunction
    BY <1>1, <1>2, BusTypes DEF Card
  <1>9. at \in Cards <=> Card(at).kind \in Supported
    <2>1. f = 1 \/ DeviceHasFunctions(d)
      BY <1>1 DEF NumFunctions
    <2> QED
      BY <1>1, <1>2, <2>1, BusTypes DEF Cards, Card
  <1>10. at \notin Scanned /\ \A x \in Scanned : Before(x, at)
    BY <1>1, BusTypes DEF Scanned, Before
  <1>11. \A x \in Cards : Before(x, at') <=> Before(x, at) \/ x = at
    <2> SUFFICES ASSUME NEW x \in Cards
                 PROVE  Before(x, at') <=> Before(x, at) \/ x = at
      OBVIOUS
    <2>1. /\ x = <<x[1], x[2]>> /\ x[1] \in 1..Len(bus) /\ x[2] \in 1..8
          /\ x[2] <= NumFunctions(x[1])
      BY <1>1, CardTypes
    <2>2. x = at <=> x[1] = d /\ x[2] = f
      BY <1>1, <2>1
    <2>3. Before(x, at) <=> x[1] < d \/ (x[1] = d /\ x[2] < f)
      BY DEF Before
    <2>4. CASE f < NumFunctions(d)
      <3>1. Before(x, at') <=> x[1] < d \/ (x[1] = d /\ x[2] < f + 1)
        BY <1>4, <2>4 DEF Before
      <3> QED
        BY <1>1, <2>1, <2>2, <2>3, <3>1
    <2>5. CASE ~(f < NumFunctions(d))
      <3>1. Before(x, at') <=> x[1] < d + 1 \/ (x[1] = d + 1 /\ x[2] < 1)
        BY <1>4, <2>5 DEF Before
      <3>2. x[1] = d => x[2] <= f
        BY <1>1, <1>5, <2>1, <2>5
      <3> QED
        BY <1>1, <2>1, <2>2, <2>3, <3>1, <3>2, BusTypes
    <2> QED
      BY <2>4, <2>5
  <1>12. Scanned' = IF at \in Cards THEN Scanned \cup {at} ELSE Scanned
    <2>1. Scanned' = {x \in Cards : Before(x, at')}
      BY <1>7 DEF Scanned, Before
    <2> QED
      BY <1>11, <2>1 DEF Scanned
  <1>13. BusInv'
    <2>1. stage' = "scan"
      BY Zenon DEF SelectDrivers
    <2>2. at' \in (Nat \ {0}) \X (1..8)
      BY <1>1, <1>4, <1>5, BusTypes
    <2>3. at'[1] <= Len(bus) => at'[2] <= NumFunctions(at'[1])
      <3>1. CASE f < NumFunctions(d)
        <4>1. at'[1] = d /\ at'[2] = f + 1
          BY <1>4, <3>1
        <4> QED
          BY <1>1, <1>5, <3>1, <4>1
      <3>2. CASE ~(f < NumFunctions(d))
        <4>1. at'[1] = d + 1 /\ at'[2] = 1
          BY <1>4, <3>2
        <4>2. d + 1 <= Len(bus) => NumFunctions(d + 1) >= 1
          <5>1. d + 1 <= Len(bus) => d + 1 \in 1..Len(bus)
            BY <1>1, BusTypes
          <5> QED
            BY <1>1, <5>1, FunctionsTried
        <4> QED
          BY <4>1, <4>2
      <3> QED
        BY <3>1, <3>2
    <2> QED
      BY <1>1, <1>3, <1>6, <2>1, <2>2, <2>3 DEF BusInv
  <1> QED
    BY <1>3, <1>7, <1>8, <1>9, <1>10, <1>12, <1>13

\* A card takes the line it registers for, and keeps the others as they are.
LEMMA ScanHandlers ==
  ASSUME DevInv, SelectDrivers
  PROVE  HandlersInv'
  <1>1. stage = "scan" /\ at[1] <= Len(bus) /\ stage' = "scan" /\ BusInv
    BY Zenon DEF SelectDrivers, DevInv
  <1>2. /\ bus' = bus /\ Card(at) \in PciFunction
        /\ at \in Cards <=> Card(at).kind \in Supported
        /\ Scanned' = IF at \in Cards THEN Scanned \cup {at} ELSE Scanned
    BY <1>1, BusStep
  <1>3. \A x : Card(x)' = Card(x)
    BY <1>2 DEF Card
  <1>4. /\ handlers = [l \in 0..15 |-> handlers[l]]
        /\ \A l \in 0..15 :
             \/ handlers[l] \in Scanned /\ Line(Card(handlers[l])) = l
             \/ handlers[l] = Own(l) /\ \A x \in Scanned : Line(Card(x)) # l
    BY <1>1 DEF DevInv, HandlersInv
  <1>5. CASE at \notin Cards
    <2>1. UNCHANGED handlers /\ Scanned' = Scanned
      BY <1>2, <1>5, Zenon DEF SelectDrivers, Card
    <2> QED
      BY <1>1, <1>3, <1>4, <2>1 DEF HandlersInv, Line, Own
  <1>6. CASE at \in Cards
    <2>1. handlers' = [handlers EXCEPT ![Line(Card(at))] = at]
      BY <1>2, <1>6, Zenon DEF SelectDrivers, Card, AddDriver
    <2>2. PICK k \in 0..15 : k = Line(Card(at))
      BY <1>1, <1>6, CardTypes DEF BusInv
    <2>3. /\ handlers' = [l \in 0..15 |-> handlers'[l]]
          /\ handlers'[k] = at /\ \A l \in 0..15 : l # k => handlers'[l] = handlers[l]
      BY <1>4, <2>1, <2>2, Zenon
    <2>4. Scanned' = Scanned \cup {at}
      BY <1>2, <1>6
    <2>5. ASSUME NEW l \in 0..15
          PROVE  \/ handlers'[l] \in Scanned' /\ Line(Card(handlers'[l])) = l
                 \/ handlers'[l] = Own(l) /\ \A x \in Scanned' : Line(Card(x)) # l
      <3>1. CASE l = k
        BY <2>2, <2>3, <2>4, <3>1
      <3>2. CASE l # k
        <4>1. handlers'[l] = handlers[l]
          BY <2>3, <3>2
        <4> QED
          BY <1>4, <2>2, <2>4, <3>2, <4>1, Zenon
      <3> QED
        BY <3>1, <3>2
    <2>6. \A f : Line(f)' = Line(f)
      BY DEF Line
    <2> QED
      BY <1>1, <1>3, <2>3, <2>5, Zenon DEF HandlersInv, Line, Own
  <1> QED
    BY <1>5, <1>6

\* If the table has room for all cards, each is entered behind the earlier ones.
LEMMA ScanTable ==
  ASSUME DevInv, SelectDrivers, Cardinality(Cards) <= MAX_DRIVERS
  PROVE  TableInv'
  <1>1. /\ stage = "scan" /\ at[1] <= Len(bus) /\ stage' = "scan" /\ BusInv
        /\ TableInv /\ bus \in Buses
    BY DEF SelectDrivers, DevInv, BusInv
  <1>2. /\ bus' = bus /\ Cards' = Cards /\ Card(at) \in PciFunction
        /\ at \in Cards <=> Card(at).kind \in Supported
        /\ at \notin Scanned /\ \A x \in Scanned : Before(x, at)
        /\ Scanned' = IF at \in Cards THEN Scanned \cup {at} ELSE Scanned
    BY <1>1, BusStep
  <1>3. \A x : Entry(x)' = Entry(x)
    BY <1>2, Zenon DEF Entry, Card, PortBase, ReadBar, Masked, IsIo
  <1>4. CASE at \notin Cards
    <2>1. UNCHANGED drivers /\ Scanned' = Scanned
      BY <1>2, <1>4, Zenon DEF SelectDrivers, Card
    <2> QED
      BY <1>1, <1>3, <2>1 DEF TableInv, Before
  <1>5. CASE at \in Cards
    <2>1. Scanned' = Scanned \cup {at}
      BY <1>2, <1>5
    <2>2. IsFiniteSet(Scanned) /\ IsFiniteSet(Cards)
      <3>1. Scanned \subseteq Cards
        BY DEF Scanned
      <3> QED
        BY <1>1, <3>1, CardsFinite, FS_Subset
    <2>3. PICK n \in Nat : n = Cardinality(Scanned) /\ Cardinality(Scanned') = n + 1
      <3>1. Cardinality(Scanned \cup {at}) = Cardinality(Scanned) + 1
        BY <1>2, <2>2, FS_AddElement, Zenon
      <3>2. Cardinality(Scanned) \in Nat
        BY <2>2, FS_CardinalityType
      <3> QED
        BY <2>1, <3>1, <3>2, Zenon
    <2>4. n < MAX_DRIVERS
      <3>1. Scanned' \subseteq Cards
        BY <1>5, <2>1 DEF Scanned
      <3>2. Cardinality(Scanned') <= Cardinality(Cards) /\ Cardinality(Cards) \in Nat
        BY <2>2, <3>1, FS_Subset, FS_CardinalityType
      <3> QED
        BY <2>3, <3>2, DevicesAssumption
    <2> DEFINE E == {Entry(x) : x \in Scanned}
               F == {Entry(x) : x \in Scanned'}
    <2>5. drivers \in Seq(E) /\ Len(drivers) = n
      BY <1>1, <2>3 DEF TableInv
    <2>6. drivers' = Append(drivers, Entry(at))
      BY <1>2, <1>5, <2>4, <2>5, Zenon DEF SelectDrivers, Card, AddDriver, Entry
    <2>7. E \subseteq F /\ Entry(at) \in F
      BY <2>1
    <2>8. drivers' \in Seq(F) /\ Len(drivers') = n + 1
      <3> HIDE DEF E, F
      <3> QED
        BY <2>5, <2>6, <2>7
    <2>9. /\ \A i \in 1..n : drivers'[i] = drivers[i] /\ drivers'[n + 1] = Entry(at)
          /\ DOMAIN drivers = 1..n /\ DOMAIN drivers' = 1..(n + 1)
      <3> HIDE DEF E, F
      <3> QED
        BY <2>5, <2>6
    <2>10. drivers'[n + 1].at = at
      BY <2>5, <2>6 DEF Entry
    <2>11. \A i \in 1..n : drivers[i].at \in Scanned
      <3>1. \A e \in E : e.at \in Scanned
        BY DEF Entry
      <3> HIDE DEF E
      <3> QED
        BY <2>5, <3>1
    <2>12. \A i, j \in DOMAIN drivers' : i < j => Before(drivers'[i].at, drivers'[j].at)
      <3> SUFFICES ASSUME NEW i \in 1..(n + 1), NEW j \in 1..(n + 1), i < j
                   PROVE  Before(drivers'[i].at, drivers'[j].at)
        BY <2>9
      <3>1. i \in 1..n
        OBVIOUS
      <3>2. CASE j = n + 1
        BY <1>2, <2>9, <2>10, <2>11, <3>1, <3>2
      <3>3. CASE j # n + 1
        <4>1. j \in 1..n
          BY <3>3
        <4> QED
          BY <1>1, <2>9, <3>1, <4>1 DEF TableInv
      <3> QED
        BY <3>2, <3>3
    <2>13. \A x \in Scanned' : \E i \in DOMAIN drivers' : drivers'[i].at = x
      <3> SUFFICES ASSUME NEW x \in Scanned'
                   PROVE  \E i \in 1..(n + 1) : drivers'[i].at = x
        BY <2>9
      <3>1. CASE x = at
        BY <2>10, <3>1
      <3>2. CASE x # at
        <4>1. PICK i \in 1..n : drivers[i].at = x
          BY <1>1, <2>1, <2>9, <3>2 DEF TableInv
        <4> QED
          BY <2>9, <4>1
      <3> QED
        BY <3>1, <3>2
    <2>14. F = {Entry(x)' : x \in Scanned'}
      BY <1>3
    <2> QED
      BY <2>3, <2>8, <2>12, <2>13, <2>14, Zenon DEF TableInv, Before
  <1> QED
    BY <1>4, <1>5

\* The invariant holds when the scan starts: nothing is behind it yet.
LEMMA InitDev ==
  ASSUME DevicesInit
  PROVE  DevInv
  <1>1. /\ stage = "scan" /\ bus \in Buses /\ at = <<1, 1>> /\ drivers = <<>>
        /\ handlers = [l \in 0..15 |-> Own(l)]
    BY DEF DevicesInit, Own
  <1>2. BusInv
    <2>1. at[1] <= Len(bus) => at[2] <= NumFunctions(at[1])
      <3>1. 1 <= Len(bus) => 1 \in 1..Len(bus)
        BY <1>1, BusTypes
      <3>2. \A n \in 1..8 : \A m \in 1..n : 1 <= m
        OBVIOUS
      <3>3. 1 \in 1..Len(bus) => 1 <= NumFunctions(1)
        BY <1>1, <3>2, FunctionsTried, Zenon
      <3> QED
        BY <1>1, <3>1, <3>3
    <2> QED
      BY <1>1, <2>1 DEF BusInv
  <1>3. Scanned = {}
    <2> SUFFICES ASSUME NEW x \in Cards PROVE ~Before(x, at)
      BY DEF Scanned
    <2>1. x[1] \in 1..Len(bus) /\ x[2] \in 1..8
      BY <1>1, CardTypes
    <2> QED
      BY <1>1, <2>1, BusTypes DEF Before
  <1>4. HandlersInv
    BY <1>1, <1>3 DEF HandlersInv
  <1>5. ChoiceInv
    BY <1>1 DEF ChoiceInv
  <1>6. TableInv
    BY <1>1, <1>3, FS_EmptySet DEF TableInv
  <1> QED
    BY <1>2, <1>4, <1>5, <1>6 DEF DevInv

\* Behind the scan nothing that it filled in changes, but the line of the timer.
LEMMA ScanOver ==
  ASSUME DevInv, UNCHANGED <<bus, at, drivers>>, stage' # "scan",
         stage # "scan" \/ at[1] > Len(bus)
  PROVE  /\ BusInv' /\ Scanned' = Scanned
         /\ Cardinality(Cards') <= MAX_DRIVERS => TableInv'
         /\ stage # "on" /\ stage' # "on" /\ handlers' = handlers => HandlersInv'
         /\ stage # "on" /\ stage' = "on" /\ handlers' = [handlers EXCEPT ![0] = Timer]
              => HandlersInv'
  <1>1. /\ Cards' = Cards /\ Scanned' = Scanned
        /\ \A x : Card(x)' = Card(x) /\ Entry(x)' = Entry(x)
        /\ \A d : NumFunctions(d)' = NumFunctions(d)
    BY Zenon DEF Cards, Scanned, Before, Card, Entry, DeviceHasFunctions, NumFunctions,
           PortBase, ReadBar, Masked, IsIo
  <1>2. BusInv'
    BY DEF DevInv, BusInv
  <1>3. Cardinality(Cards') <= MAX_DRIVERS => TableInv'
    BY <1>1, Zenon DEF DevInv, TableInv, Before
  <1>4. stage # "on" /\ stage' # "on" /\ handlers' = handlers => HandlersInv'
    BY <1>1 DEF DevInv, HandlersInv, Line, Own
  <1>5. ASSUME stage # "on", stage' = "on", handlers' = [handlers EXCEPT ![0] = Timer]
        PROVE  HandlersInv'
    <2>1. handlers = [l \in 0..15 |-> handlers[l]]
      BY DEF DevInv, HandlersInv
    <2>2. /\ handlers' = [l \in 0..15 |-> handlers'[l]] /\ handlers'[0] = Timer
          /\ \A l \in 0..15 : l # 0 => handlers'[l] = handlers[l]
      <3>1. handlers' = [l \in 0..15 |-> IF l = 0 THEN Timer ELSE handlers[l]]
        BY <1>5, <2>1, Zenon
      <3>2. \A h : [l \in 0..15 |-> IF l = 0 THEN Timer ELSE h[l]] =
                   [l \in 0..15 |-> [m \in 0..15 |-> IF m = 0 THEN Timer ELSE h[m]][l]]
        OBVIOUS
      <3> QED
        BY <3>1, <3>2
    <2>3. \A l \in 0..15 : l = 0 \/
            (\/ handlers'[l] \in Scanned /\ Line(Card(handlers'[l])) = l
             \/ handlers'[l] = Own(l) /\ \A x \in Scanned : Line(Card(x)) # l)
      BY <1>5, <2>2, Zenon DEF DevInv, HandlersInv
    <2> QED
      BY <1>1, <1>5, <2>2, <2>3, Zenon DEF HandlersInv, Line, Own, Timer
  <1> QED
    BY <1>1, <1>2, <1>3, <1>4, <1>5

\* The volume: each step of the search keeps what is known of the first one.
LEMMA VolumeSteps ==
  ASSUME DevInv, NoDisk \/ ReadMBR \/ MountPartition \/ MountRaw
  PROVE  DevInv'
  <1>1. /\ UNCHANGED <<bus, at, drivers, handlers, active, disk>>
        /\ stage \notin {"scan", "on"} /\ stage' \in {"partition", "raw", "nic"}
    BY DEF NoDisk, ReadMBR, MountPartition, MountRaw, Volume
  <1>2. BusInv' /\ HandlersInv' /\ (Cardinality(Cards') <= MAX_DRIVERS => TableInv')
    BY <1>1, ScanOver
  <1>3. active' = {drivers'[i].at : i \in DOMAIN drivers'}
    BY <1>1 DEF DevInv, ChoiceInv
  <1>4. /\ Readable' <=> Readable
        /\ Parted' <=> Parted
        /\ FirstVolume' = FirstVolume /\ OfType("ata")' = OfType("ata")
    <2>1. Readable' <=> Readable
      BY <1>1 DEF Readable
    <2>2. Parted' <=> Parted
      BY <1>1 DEF Parted
    <2>3. FirstVolume' = FirstVolume
      BY <1>1 DEF FirstVolume
    <2>4. OfType("ata")' = OfType("ata")
      BY <1>1, SMTT(30) DEF OfType
    <2> QED
      BY <2>1, <2>2, <2>3, <2>4, Zenon
  <1>5. ASSUME Readable
        PROVE  /\ stage' = "partition" =>
                    Parted /\ partition_lba' = disk[0].parts[1].lba
               /\ stage' = "raw" => ~(Parted /\ disk[disk[0].parts[1].lba].fat)
               /\ stage' = "nic" /\ OfType("ata") # {} => global_fat32' = FirstVolume
    <2>1. Buffer(0) = {disk[0]} /\ Buffer(disk[0].parts[1].lba) = {disk[disk[0].parts[1].lba]}
      BY <1>5 DEF Readable, Buffer
    <2>2. CASE NoDisk
      BY <2>2, SMTT(30) DEF NoDisk, Volume
    <2>3. CASE ReadMBR
      BY <2>1, <2>3 DEF ReadMBR, Volume, Parted
    <2>4. CASE MountPartition
      <3>1. Parted /\ partition_lba = disk[0].parts[1].lba
        BY <1>5, <2>4 DEF MountPartition, DevInv, ChoiceInv
      <3> QED
        BY <2>1, <2>4, <3>1, Zenon DEF MountPartition, Volume, Parted, FirstVolume
    <2>5. CASE MountRaw
      <3>1. ~(Parted /\ disk[disk[0].parts[1].lba].fat)
        BY <1>5, <2>5 DEF MountRaw, DevInv, ChoiceInv
      <3> QED
        BY <2>1, <2>5, <3>1, Zenon DEF MountRaw, Volume, Parted, FirstVolume
    <2> QED
      BY <2>2, <2>3, <2>4, <2>5
  <1>6. ChoiceInv'
    BY <1>1, <1>3, <1>4, <1>5 DEF ChoiceInv
  <1> QED
    BY <1>2, <1>6 DEF DevInv

\* Every step of the search for devices keeps the invariant.
LEMMA NextDev ==
  ASSUME DevInv, DevicesNext
  PROVE  DevInv'
  <1>1. CASE SelectDrivers
    <2>1. stage = "scan" /\ at[1] <= Len(bus) /\ stage' = "scan" /\ BusInv
      BY <1>1, Zenon DEF SelectDrivers, DevInv
    <2>2. BusInv' /\ Cards' = Cards
      BY <1>1, <2>1, BusStep
    <2>3. ChoiceInv'
      BY <2>1 DEF ChoiceInv
    <2> QED
      BY <1>1, <2>2, <2>3, ScanHandlers, ScanTable DEF DevInv
  <1>2. CASE ActivateAll
    <2>1. /\ stage = "scan" /\ at[1] > Len(bus) /\ stage' = "disk"
          /\ UNCHANGED <<bus, at, drivers, handlers>>
          /\ active' = {drivers[i].at : i \in DOMAIN drivers}
      BY <1>2 DEF ActivateAll
    <2>2. BusInv' /\ HandlersInv' /\ (Cardinality(Cards') <= MAX_DRIVERS => TableInv')
      BY <2>1, ScanOver
    <2>3. ChoiceInv'
      BY <2>1 DEF ChoiceInv
    <2> QED
      BY <2>2, <2>3 DEF DevInv
  <1>3. CASE NoDisk \/ ReadMBR \/ MountPartition \/ MountRaw
    BY <1>3, VolumeSteps
  <1>4. CASE AttachNic
    <2>1. /\ stage = "nic" /\ stage' = "on" /\ handlers' = [handlers EXCEPT ![0] = Timer]
          /\ UNCHANGED <<bus, disk, at, drivers, active, global_fat32>>
          /\ \/ OfType("rtl8139") = {} /\ global_nic' = <<>>
             \/ \E i \in OfType("rtl8139") : /\ \A j \in OfType("rtl8139") : i <= j
                                             /\ global_nic' = drivers[i].at
      BY <1>4 DEF AttachNic
    <2>2. BusInv' /\ HandlersInv' /\ (Cardinality(Cards') <= MAX_DRIVERS => TableInv')
      BY <2>1, ScanOver
    <2>3. /\ (Readable' <=> Readable) /\ FirstVolume' = FirstVolume
          /\ OfType("ata")' = OfType("ata") /\ OfType("rtl8139")' = OfType("rtl8139")
      <3>1. Readable' <=> Readable
        BY <2>1 DEF Readable
      <3>2. FirstVolume' = FirstVolume
        BY <2>1 DEF FirstVolume
      <3>3. \A t : OfType(t)' = OfType(t)
        BY <2>1 DEF OfType
      <3> QED
        BY <3>1, <3>2, <3>3
    <2>4. ChoiceInv'
      BY <2>1, <2>3 DEF DevInv, ChoiceInv
    <2> QED
      BY <2>2, <2>4 DEF DevInv
  <1> QED
    BY <1>1, <1>2, <1>3, <1>4 DEF DevicesNext

\* Behind the scan every card has been scanned.
LEMMA AllScanned ==
  ASSUME BusInv, stage # "scan"
  PROVE  Scanned = Cards
  <1> SUFFICES ASSUME NEW x \in Cards PROVE Before(x, at)
    BY DEF Scanned
  <1>1. x[1] \in 1..Len(bus) /\ at[1] > Len(bus) /\ at[1] \in Nat /\ Len(bus) \in Nat
    BY CardTypes, BusTypes DEF BusInv
  <1> QED
    BY <1>1 DEF Before

\* Once interrupts are let in, what the invariant says is DevicesAttached.
LEMMA DevAttached ==
  ASSUME DevInv
  PROVE  DevicesAttached
  <1> SUFFICES ASSUME stage = "on", Cardinality(Cards) <= MAX_DRIVERS
               PROVE
      /\ bus \in Buses
      /\ \A x \in Cards : \A i \in DOMAIN Card(x).bars :
           ReadBar(Card(x).bars[i]) # 0 => BarSize(Card(x).bars[i]) = Card(x).bars[i].size
      /\ \A l \in DOMAIN handlers : Cardinality(Claims(l)) = 1 => handlers[l] \in Claims(l)
      /\ IF \E x \in Cards : IsFirst(x, "rtl8139")
           THEN /\ IsFirst(global_nic, "rtl8139") /\ global_nic \in active
                /\ \E i \in DOMAIN drivers : /\ drivers[i].at = global_nic
                                             /\ drivers[i].io_base = Card(global_nic).bars[1].value
           ELSE global_nic = <<>>
      /\ (\E x \in Cards : Card(x).kind = "ata") /\ Readable => global_fat32 = FirstVolume
    BY Zenon DEF DevicesAttached
  <1>1. bus \in Buses /\ BusInv /\ TableInv /\ Scanned = Cards
    BY AllScanned DEF DevInv, BusInv
  <1>2. \A x \in Cards : Card(x).bars \in Seq(Bar)
    BY <1>1, CardTypes DEF PciFunction
  <1>3. \A x \in Cards : \A i \in DOMAIN Card(x).bars :
          ReadBar(Card(x).bars[i]) # 0 => BarSize(Card(x).bars[i]) = Card(x).bars[i].size
    <2> SUFFICES ASSUME NEW x \in Cards, NEW i \in DOMAIN Card(x).bars
                 PROVE  Card(x).bars[i] \in Bar
      BY BarProbe
    <2> QED
      BY <1>2
  <1>4. \A l \in DOMAIN handlers : Cardinality(Claims(l)) = 1 => handlers[l] \in Claims(l)
    <2>1. DOMAIN handlers = 0..15
      BY DEF DevInv, HandlersInv
    <2> SUFFICES ASSUME NEW l \in 0..15, Cardinality(Claims(l)) = 1
                 PROVE  handlers[l] \in Claims(l)
      BY <2>1
    <2>2. CASE l = 0
      BY <2>2 DEF DevInv, HandlersInv, Claims
    <2>3. CASE l # 0 /\ handlers[l] \in Scanned /\ Line(Card(handlers[l])) = l
      BY <1>1, <2>3 DEF Claims
    <2>4. CASE l # 0 /\ handlers[l] = Own(l) /\ \A x \in Scanned : Line(Card(x)) # l
      <3>1. {x \in Cards : Line(Card(x)) = l} = {}
        BY <1>1, <2>4
      <3>2. CASE l \in {1, 12}
        BY <2>4, <3>2 DEF Claims, Own
      <3>3. CASE l \notin {1, 12}
        <4>1. Claims(l) = {}
          BY <2>4, <3>1, <3>3 DEF Claims
        <4> QED
          BY <4>1, FS_EmptySet
      <3> QED
        BY <3>2, <3>3
    <2> QED
      BY <2>2, <2>3, <2>4 DEF DevInv, HandlersInv
  <1>5. /\ \A i \in DOMAIN drivers : /\ drivers[i].at \in Cards
                                     /\ drivers[i] = Entry(drivers[i].at)
        /\ DOMAIN drivers = 1..Len(drivers) /\ Len(drivers) \in Nat
    <2> DEFINE E == {Entry(x) : x \in Scanned}
    <2>1. \A e \in E : e.at \in Scanned /\ e = Entry(e.at)
      BY DEF Entry
    <2>2. drivers \in Seq(E)
      BY <1>1 DEF TableInv
    <2> HIDE DEF E
    <2> QED
      BY <1>1, <2>1, <2>2
  <1>6. \A i \in DOMAIN drivers : drivers[i].type = Card(drivers[i].at).kind
    BY <1>5 DEF Entry
  <1>7. (\E x \in Cards : Card(x).kind = "ata") /\ Readable => global_fat32 = FirstVolume
    <2> SUFFICES ASSUME NEW x \in Cards, Card(x).kind = "ata", Readable
                 PROVE  global_fat32 = FirstVolume
      OBVIOUS
    <2>1. PICK i \in DOMAIN drivers : drivers[i].at = x
      BY <1>1 DEF TableInv
    <2>2. OfType("ata") # {}
      BY <1>6, <2>1 DEF OfType
    <2> QED
      BY <2>2 DEF DevInv, ChoiceInv
  <1>8. ASSUME NEW i \in OfType("rtl8139"), \A j \in OfType("rtl8139") : i <= j,
               global_nic = drivers[i].at
        PROVE  /\ IsFirst(global_nic, "rtl8139") /\ global_nic \in active
               /\ drivers[i].io_base = Card(global_nic).bars[1].value
    <2>1. i \in DOMAIN drivers /\ global_nic \in Cards /\ Card(global_nic).kind = "rtl8139"
      BY <1>5, <1>6, <1>8 DEF OfType
    <2>2. ASSUME NEW y \in Cards, Card(y).kind = "rtl8139"
          PROVE  \/ global_nic[1] < y[1]
                 \/ global_nic[1] = y[1] /\ global_nic[2] <= y[2]
      <3>1. PICK j \in DOMAIN drivers : drivers[j].at = y
        BY <1>1 DEF TableInv
      <3>2. i <= j
        BY <1>6, <1>8, <2>2, <3>1 DEF OfType
      <3>3. CASE i = j
        <4>1. global_nic = y /\ y[2] \in 1..8
          BY <1>1, <1>8, <3>1, <3>3, CardTypes
        <4> QED
          BY <4>1
      <3>4. CASE i # j
        <4>1. Before(global_nic, y)
          BY <1>1, <1>5, <1>8, <2>1, <3>1, <3>2, <3>4 DEF TableInv
        <4>2. global_nic[2] \in 1..8 /\ y[2] \in 1..8
          BY <1>1, <2>1, CardTypes
        <4> QED
          BY <4>1, <4>2 DEF Before
      <3> QED
        BY <3>3, <3>4
    <2>3. IsFirst(global_nic, "rtl8139")
      BY <2>1, <2>2 DEF IsFirst
    <2>4. global_nic \in active
      BY <1>8, <2>1 DEF DevInv, ChoiceInv
    <2>5. Card(global_nic).bars[1] \in Bar /\ Card(global_nic).bars[1].io
      BY <1>1, <2>1, CardTypes, SMTT(30) DEF PciFunction
    <2>6. drivers[i].io_base = PortBase(Card(global_nic).bars[1])
      BY <1>5, <1>8, <2>1 DEF Entry
    <2> QED
      BY <2>3, <2>4, <2>5, <2>6, BarProbe
  <1>9. CASE OfType("rtl8139") = {} /\ global_nic = <<>>
    <2>1. ASSUME NEW x \in Cards, IsFirst(x, "rtl8139")
          PROVE  FALSE
      <3>1. PICK i \in DOMAIN drivers : drivers[i].at = x
        BY <1>1 DEF TableInv
      <3> QED
        BY <1>6, <1>9, <2>1, <3>1 DEF OfType, IsFirst
    <2> QED
      BY <1>1, <1>3, <1>4, <1>7, <1>9, <2>1
  <1>10. CASE \E i \in OfType("rtl8139") : /\ \A j \in OfType("rtl8139") : i <= j
                                           /\ global_nic = drivers[i].at
    <2>1. PICK i \in OfType("rtl8139") : /\ \A j \in OfType("rtl8139") : i <= j
                                         /\ global_nic = drivers[i].at
      BY <1>10
    <2>2. i \in DOMAIN drivers
      BY DEF OfType
    <2>3. global_nic \in Cards
      BY <1>5, <2>1, <2>2
    <2> QED
      BY <1>1, <1>3, <1>4, <1>7, <1>8, <2>1, <2>2, <2>3, Zenon
  <1> QED
    BY <1>9, <1>10, Zenon DEF DevInv, ChoiceInv

\* Steps that are not about devices keep the invariant.
LEMMA StutterDev ==
  ASSUME DevInv, UNCHANGED devices
  PROVE  DevInv'
  <1>1. /\ Cards' = Cards /\ Scanned' = Scanned
        /\ \A x : Card(x)' = Card(x) /\ Entry(x)' = Entry(x)
        /\ \A d : NumFunctions(d)' = NumFunctions(d)
    BY Zenon DEF devices, Cards, Scanned, Before, Card, Entry, DeviceHasFunctions,
           NumFunctions, PortBase, ReadBar, Masked, IsIo
  <1>2. BusInv'
    BY <1>1 DEF devices, DevInv, BusInv
  <1>3. HandlersInv'
    BY <1>1 DEF devices, DevInv, HandlersInv, Line, Own
  <1>4. Cardinality(Cards') <= MAX_DRIVERS => TableInv'
    BY <1>1, Zenon DEF devices, DevInv, TableInv, Before
  <1>5. /\ (Readable' <=> Readable) /\ (Parted' <=> Parted) /\ FirstVolume' = FirstVolume
        /\ \A t : OfType(t)' = OfType(t)
    <2>1. (Readable' <=> Readable) /\ (Parted' <=> Parted)
      BY DEF devices, Readable, Parted
    <2>2. FirstVolume' = FirstVolume
      BY DEF devices, FirstVolume
    <2>3. \A t : OfType(t)' = OfType(t)
      BY DEF devices, OfType
    <2> QED
      BY <2>1, <2>2, <2>3
  <1>6. ChoiceInv'
    BY <1>5 DEF devices, DevInv, ChoiceInv
  <1> QED
    BY <1>2, <1>3, <1>4, <1>6 DEF DevInv

\* When kernelMain lets interrupts in, every register of the bus is as it was, a line
\* that one device has a claim to is served by it, the network stack is on the first
\* card and reaches it at its ports, and the first volume is mounted
\* (pci.cpp:34-120, driver.cpp:14-22, kernel.cpp:144-213); and so it stays.
THEOREM DevicesAlwaysAttached == MainSpec => []DevicesAttached
  <1>1. MainInit => DevInv
    BY InitDev DEF MainInit
  <1>2. ASSUME DevInv, [MainNext]_<<vars, devices>>
        PROVE  DevInv'
    <2>1. CASE UNCHANGED devices
      BY <1>2, <2>1, StutterDev
    <2>2. CASE DevicesNext
      BY <1>2, <2>2, NextDev
    <2> QED
      BY <1>2, <2>1, <2>2 DEF MainNext, Memory, Attach, Processes
  <1>3. DevInv => DevicesAttached
    BY DevAttached
  <1> QED
    BY <1>1, <1>2, <1>3, PTL DEF MainSpec
=============================================================================
