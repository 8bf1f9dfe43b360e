------------------------------ MODULE Devices -------------------------------
(***************************************************************************)
(* How kernelMain finds its devices, with interrupts off: the scan of the  *)
(* PCI bus, one function at a time, the drivers it constructs and the table *)
(* of interrupt handlers they enter themselves in, the choice of a volume  *)
(* on the first disk, and the choice of the network card.                  *)
(***************************************************************************)
EXTENDS Integers, FiniteSets, Sequences

CONSTANTS
  Buses,        \* the buses considered: sequences of devices
  Disks,        \* the disks considered: functions from LBAs to sectors
  Garbage,      \* what a sector buffer may hold when the read failed
  MAX_DRIVERS,  \* places of DriverManager (256)
  Space         \* 2^w for registers of w bits

\* What the bus promises.  A base address register that is there stands for at least
\* 4 ports or 16 bytes; its size divides the space, and its value is a multiple of
\* the size.  One that is not there reads 0.
Bar ==
  {b \in [io : BOOLEAN, size : Nat, value : Nat] :
     IF b.size = 0
       THEN b.value = 0 /\ ~b.io
       ELSE /\ b.size < Space /\ Space % b.size = 0
            /\ b.value < Space /\ b.value % b.size = 0
            /\ b.size % (IF b.io THEN 4 ELSE 16) = 0}

\* An RTL8139 is on a line of the PICs, and its first register is for its ports.
PciFunction ==
  {fn \in [kind : {"none", "other", "ata", "rtl8139"}, line : Nat, bars : Seq(Bar)] :
     /\ fn.kind \in {"ata", "rtl8139"} => Len(fn.bars) > 0
     /\ fn.kind = "rtl8139" => fn.line \in 0..15 /\ fn.bars[1].io}

PciDevice ==
  {d \in [multi : BOOLEAN, functions : Seq(PciFunction)] : Len(d.functions) \in 1..8}

ASSUME DevicesAssumption ==
  /\ Space \in Nat \ {0} /\ MAX_DRIVERS \in Nat
  /\ Buses \subseteq Seq(PciDevice)

VARIABLES
  stage,         \* where kernelMain stands
  bus, disk,     \* the hardware
  at,            \* the device and function that is scanned next
  drivers,       \* DriverManager::drivers
  handlers,      \* InterruptManager::handlers, by line of the PICs
  active,        \* drivers that were activated
  partition_lba, \* of the FAT32 object that is tried
  global_fat32,  \* the LBA of the mounted volume, in a sequence; <<>> is nullptr
  global_nic     \* the function of the network card; <<>> is nullptr

devices == <<stage, bus, disk, at, drivers, handlers, active, partition_lba,
             global_fat32, global_nic>>

\* A handler is the function its driver belongs to, or one of these.
Keyboard == <<"keyboard">>
Mouse == <<"mouse">>
Timer == <<"scheduler">>

\* The constructors of the keyboard and the mouse have entered theirs.
DevicesInit ==
  /\ stage = "scan"
  /\ bus \in Buses /\ disk \in Disks
  /\ at = <<1, 1>>
  /\ drivers = <<>> /\ active = {}
  /\ handlers = [l \in 0..15 |-> CASE l = 1 -> Keyboard [] l = 12 -> Mouse
                                   [] OTHER -> <<>>]
  /\ partition_lba = 0
  /\ global_fat32 = <<>> /\ global_nic = <<>>
-----------------------------------------------------------------------------
(***************************************************************************)
(* GetDeviceDescriptor.  A base address register of the card keeps the bits *)
(* above its size and says in its lowest bit whether it is for ports.      *)
(***************************************************************************)

ReadBar(b) == b.value + (IF b.io THEN 1 ELSE 0)

WriteBar(b, v) == [b EXCEPT !.value = v - (v % b.size)]

IsIo(bar) == bar % 2 = 1

\* bar & 0xFFFFFFFC for ports, bar & 0xFFFFFFF0 for memory.
Masked(bar, v) == v - (v % (IF IsIo(bar) THEN 4 ELSE 16))

\* The register is skipped if it reads 0; otherwise its size is what is left of all
\* ones, and the old value is written back.
BarSize(b) ==
  LET bar == ReadBar(b)
  IN  IF bar = 0 THEN 0
      ELSE (Space - Masked(bar, ReadBar(WriteBar(b, Space - 1)))) % Space

PortBase(b) == IF IsIo(ReadBar(b)) THEN Masked(ReadBar(b), ReadBar(b)) ELSE 0

\* A variant that does not write the old value back.
ProbedOnly(b) == IF ReadBar(b) = 0 THEN b ELSE WriteBar(b, Space - 1)

Probed(b) ==
  IF ReadBar(b) = 0 THEN b ELSE WriteBar(WriteBar(b, Space - 1), ReadBar(b))

-----------------------------------------------------------------------------
(***************************************************************************)
(* SelectDrivers.                                                          *)
(***************************************************************************)

\* The header of a device that is not there reads all ones, so all its functions
\* are tried, too.
DeviceHasFunctions(d) ==
  bus[d].multi \/ bus[d].functions[1].kind = "none"

NumFunctions(d) ==
  IF DeviceHasFunctions(d) THEN Len(bus[d].functions) ELSE 1

Supported == {"ata", "rtl8139"}

\* The line the constructor of a driver registers for.
Line(fn) == IF fn.kind = "ata" THEN 14 ELSE fn.line

\* AddDriver drops the driver when the table is full; its constructor has entered
\* it as a handler all the same.
AddDriver(fn) ==
  /\ handlers' = [handlers EXCEPT ![Line(fn)] = at]
  /\ drivers' = IF Len(drivers) < MAX_DRIVERS
                  THEN Append(drivers, [type |-> fn.kind, at |-> at,
                                        io_base |-> PortBase(fn.bars[1])])
                  ELSE drivers

\* One turn of the innermost loop.
SelectDrivers ==
  /\ stage = "scan"
  /\ at[1] <= Len(bus)
  /\ LET d == at[1]
         f == at[2]
         fn == bus[d].functions[f]
     IN  /\ bus' = [bus EXCEPT ![d].functions[f].bars =
                      [i \in DOMAIN fn.bars |-> Probed(fn.bars[i])]]
         /\ IF fn.kind \in Supported THEN AddDriver(fn)
                                     ELSE UNCHANGED <<drivers, handlers>>
         /\ at' = IF f < NumFunctions(d) THEN <<d, f + 1>> ELSE <<d + 1, 1>>
  /\ UNCHANGED <<stage, disk, active, partition_lba, global_fat32, global_nic>>

ActivateAll ==
  /\ stage = "scan"
  /\ at[1] > Len(bus)
  /\ active' = {drivers[i].at : i \in DOMAIN drivers}
  /\ stage' = "disk"
  /\ UNCHANGED <<bus, disk, at, drivers, handlers, partition_lba, global_fat32,
                 global_nic>>
-----------------------------------------------------------------------------
(***************************************************************************)
(* The volume.  A sector is described by what is looked at: signed, the    *)
(* signature of a boot record, parts, its partition entries, and fat, that *)
(* its bytes_per_sector is 512.                                            *)
(***************************************************************************)

\* The places of the drivers of a type in the table.
OfType(t) == {i \in DOMAIN drivers : drivers[i].type = t}

\* Read28 fails behind the end of the disk; no caller looks at its result.
Buffer(lba) == IF lba \in DOMAIN disk THEN {disk[lba]} ELSE Garbage

PartitionCount(s) == Len(SelectSeq(s.parts, LAMBDA p : p.type # 0))

Volume(next, lba, volume) ==
  /\ stage' = next
  /\ partition_lba' = lba
  /\ global_fat32' = volume
  /\ UNCHANGED <<bus, disk, at, drivers, handlers, active, global_nic>>

NoDisk == stage = "disk" /\ OfType("ata") = {} /\ Volume("nic", 0, <<>>)

\* MBRParser::Read, PartitionCount and GetPartition(0).
ReadMBR ==
  /\ stage = "disk"
  /\ OfType("ata") # {}
  /\ \E s \in Buffer(0) :
       IF s.signed /\ PartitionCount(s) > 0
         THEN Volume("partition", s.parts[1].lba, <<>>)
         ELSE Volume("raw", 0, <<>>)

\* FAT32::Mount of the partition; an object that cannot be mounted is deleted.
MountPartition ==
  /\ stage = "partition"
  /\ \E s \in Buffer(partition_lba) :
       IF s.fat THEN Volume("nic", 0, <<partition_lba>>) ELSE Volume("raw", 0, <<>>)

\* The fallback: a volume that starts at LBA 0.
MountRaw ==
  /\ stage = "raw"
  /\ \E s \in Buffer(0) : Volume("nic", 0, IF s.fat THEN <<0>> ELSE <<>>)
-----------------------------------------------------------------------------
\* The first RTL8139 gets the network stack, the scheduler the timer, and
\* interrupts are let in.
AttachNic ==
  /\ stage = "nic"
  /\ \/ OfType("rtl8139") = {} /\ global_nic' = <<>>
     \/ \E i \in OfType("rtl8139") :
          /\ \A j \in OfType("rtl8139") : i <= j
          /\ global_nic' = drivers[i].at
  /\ handlers' = [handlers EXCEPT ![0] = Timer]
  /\ stage' = "on"
  /\ UNCHANGED <<bus, disk, at, drivers, active, partition_lba, global_fat32>>

DevicesNext ==
  \/ SelectDrivers \/ ActivateAll
  \/ NoDisk \/ ReadMBR \/ MountPartition \/ MountRaw
  \/ AttachNic
-----------------------------------------------------------------------------
(***************************************************************************)
(* Properties.                                                             *)
(***************************************************************************)

\* The functions a full scan should find drivers for, and the first of a kind.
Cards == {x \in (1..Len(bus)) \X (1..8) :
            /\ x[2] \in DOMAIN bus[x[1]].functions
            /\ x[2] = 1 \/ DeviceHasFunctions(x[1])
            /\ bus[x[1]].functions[x[2]].kind \in Supported}

Card(x) == bus[x[1]].functions[x[2]]

IsFirst(x, kind) ==
  /\ x \in Cards /\ Card(x).kind = kind
  /\ \A y \in Cards : Card(y).kind = kind =>
       x[1] < y[1] \/ (x[1] = y[1] /\ x[2] <= y[2])

\* Who has a claim to a line.
Claims(l) ==
  {x \in Cards : Line(Card(x)) = l} \cup
  (CASE l = 0 -> {Timer} [] l = 1 -> {Keyboard} [] l = 12 -> {Mouse} [] OTHER -> {})

\* The volume of the first partition, or else the one that fills the disk, if the
\* disk has these sectors.
FirstVolume ==
  LET part == disk[0].parts[1].lba
      parted == disk[0].signed /\ PartitionCount(disk[0]) > 0
  IN  IF parted /\ disk[part].fat THEN <<part>>
      ELSE IF disk[0].fat THEN <<0>> ELSE <<>>

Readable == 0 \in DOMAIN disk /\ disk[0].parts[1].lba \in DOMAIN disk

\* When interrupts are let in, the scan has left every base address register as it
\* was and knows its size; a line that one device has a claim to is served by it,
\* the timer's, the keyboard's and the mouse's too; the network stack is on the
\* first card, which is activated and reached at its ports; and the first volume
\* of a disk whose sectors can be read is mounted (pci.cpp:34-120, driver.cpp:14-22,
\* kernel.cpp:144-213).  The table of drivers must have room for all.
DevicesAttached ==
  stage = "on" /\ Cardinality(Cards) <= MAX_DRIVERS =>
    /\ bus \in Buses
    /\ \A x \in Cards : \A i \in DOMAIN Card(x).bars :
         ReadBar(Card(x).bars[i]) # 0 => BarSize(Card(x).bars[i]) = Card(x).bars[i].size
    /\ \A l \in DOMAIN handlers : Cardinality(Claims(l)) = 1 => handlers[l] \in Claims(l)
    /\ IF \E x \in Cards : IsFirst(x, "rtl8139")
         THEN /\ IsFirst(global_nic, "rtl8139") /\ global_nic \in active
              /\ \E i \in DOMAIN drivers : /\ drivers[i].at = global_nic
                                           /\ drivers[i].io_base = Card(global_nic).bars[1].value
         ELSE global_nic = <<>>
    /\ (\E x \in Cards : Card(x).kind = "ata") /\ Readable => global_fat32 = FirstVolume
=============================================================================
