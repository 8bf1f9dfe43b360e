----------------------------- MODULE KernelMain -----------------------------
(***************************************************************************)
(* kernelMain from the memory map to the first process, and the processes  *)
(* after it: the layout of memory (module Boot), paging (module Paging),   *)
(* then the devices (module Devices), in this order.                       *)
(***************************************************************************)
EXTENDS Paging, Devices

MainInit == Init /\ DevicesInit

\* Memory first ...
Memory ==
  /\ \/ LayoutNext /\ UNCHANGED frames
     \/ StartPaging \/ Stray
  /\ UNCHANGED devices

\* ... then the devices ...
Attach == boot = "run" /\ DevicesNext /\ UNCHANGED vars

\* ... then the shell, and the processes it starts.
Processes ==
  /\ stage = "on"
  /\ \E p \in Pids : CreateProcess(p) \/ Destroy(p)
  /\ UNCHANGED devices

MainNext == Memory \/ Attach \/ Processes

MainSpec == MainInit /\ [][MainNext]_<<vars, devices>>
=============================================================================
