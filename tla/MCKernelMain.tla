---------------------------- MODULE MCKernelMain ----------------------------
(***************************************************************************)
(* Machines with up to two regions of memory: with and without a hole      *)
(* below CAP, too small, and with the longest region out of reach.  Their  *)
(* buses have one or two cards, on lines of their own or shared, behind    *)
(* other functions; their disks have partitions or none.                   *)
(***************************************************************************)
EXTENDS KernelMain, TLC

MCRegions ==
  {[usable |-> TRUE, base |-> 0, length |-> 1],
   [usable |-> TRUE, base |-> 1, length |-> 12],
   [usable |-> TRUE, base |-> 1, length |-> 20],
   [usable |-> FALSE, base |-> 1, length |-> 20],
   [usable |-> TRUE, base |-> 14, length |-> 12],
   [usable |-> TRUE, base |-> 31, length |-> 4]}

MCMaps == UNION {[1..n -> MCRegions] : n \in 0..2}

Io(base) == [io |-> TRUE, size |-> 8, value |-> base]
Mem(base) == [io |-> FALSE, size |-> 32, value |-> base]
Unused == [io |-> FALSE, size |-> 0, value |-> 0]

None == [kind |-> "none", line |-> 0, bars |-> <<>>]
Other == [kind |-> "other", line |-> 0, bars |-> <<Unused, Mem(96)>>]
Ide == [kind |-> "ata", line |-> 0, bars |-> <<Unused>>]
Nic(line, base) == [kind |-> "rtl8139", line |-> line, bars |-> <<Io(base), Mem(64)>>]

Device(multi, f1, f2) == [multi |-> multi, functions |-> <<f1, f2>>]

MCBuses ==
  {<<Device(FALSE, None, None), Device(TRUE, Other, Ide), Device(FALSE, Nic(11, 8), None)>>,
   <<Device(FALSE, Nic(11, 16), Ide), Device(FALSE, Nic(10, 8), None)>>,
   <<Device(TRUE, Nic(11, 8), Nic(11, 24)), Device(FALSE, Ide, None)>>,
   <<Device(FALSE, Other, Nic(9, 8)), Device(FALSE, None, Ide)>>}

Sector(signed, fat, type, lba) ==
  [signed |-> signed, fat |-> fat,
   parts |-> <<[type |-> type, lba |-> lba], [type |-> 1, lba |-> 2]>>]

Plain == Sector(FALSE, FALSE, 0, 0)
Volumes == {Sector(TRUE, TRUE, 0, 0), Plain}

\* A first partition, with a volume or without; an empty first entry; a volume that
\* fills the disk and has text where the entries would be, which may point outside.
MCDisks ==
  {0 :> Sector(TRUE, FALSE, 1, 1) @@ 1 :> v @@ 2 :> Plain : v \in Volumes} \cup
  {0 :> Sector(TRUE, FALSE, 0, 0) @@ 1 :> Plain,
   0 :> Sector(TRUE, TRUE, 7, 1) @@ 1 :> Plain,
   0 :> Sector(TRUE, TRUE, 7, 9) @@ 1 :> Plain,
   0 :> Plain @@ 1 :> Plain}
=============================================================================
