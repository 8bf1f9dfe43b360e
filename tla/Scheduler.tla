------------------------------ MODULE Scheduler ------------------------------
(***************************************************************************)
(* The process core of the kernel: the process table, the round-robin      *)
(* Schedule on the PIT interrupt, the saved kernel contexts, and every     *)
(* system call that creates, blocks, wakes or ends a process.              *)
(*                                                                         *)
(* int 0x80 is a trap gate (interrupts.cpp:71, type 0xEF), so interrupts   *)
(* stay on inside system calls and the timer may preempt them between any  *)
(* two statements; one kernel step below is one statement of the source    *)
(* that touches shared state.  IRQ handlers run behind interrupt gates     *)
(* (0x8E) and are atomic, and so is what follows a cli.                    *)
(***************************************************************************)
EXTENDS Integers

CONSTANTS
  MaxProcs,   \* MAX_PROCESSES of scheduler.h (16)
  KbCap,      \* characters the keyboard ring can hold
  WaitTicks,  \* timer ticks a network wait lasts
  Calls,      \* the system calls the user programs make
  Execers     \* the slots whose programs call exec

Slots == 1..MaxProcs

AllCalls == {"work", "read", "waitpid", "net", "exec", "exit"}

ASSUME SchedulerAssumption ==
  /\ MaxProcs \in Nat \ {0}
  /\ KbCap \in Nat \ {0}
  /\ WaitTicks \in Nat
  /\ Calls \subseteq AllCalls
  /\ Execers \subseteq Slots

\* Values of wait_pid that name no process.
NoWait   == -1
KeyWait  == -2
NetWait  == -3

PidRange == 0..(MaxProcs + 1)

VARIABLES
  process_count,  \* slots in use
  current_index,  \* slot of the active process, 0 for the code's -1
  state,          \* Process::state by slot, "NULL" for an empty slot
  pid,            \* Process::pid by slot
  wait_pid,       \* Process::wait_pid by slot
  saved,          \* what cpu_state.esp of a slot points to (see Frame)
  pc,             \* where the thread of control of a slot stands
  loc,            \* local variable of the system call: a target slot or a new pid
  ticks,          \* ticks left until TimedOut, by slot
  cpu,            \* the slot whose thread the CPU executes, 0 for kernelMain
  tss,            \* owner of the kernel stack the TSS names
  cr3,            \* owner of the loaded page directory
  kb,             \* characters in the keyboard ring
  rx              \* udp_rx_ready / tcp_rx_ready

vars == <<process_count, current_index, state, pid, wait_pid, saved, pc, loc,
          ticks, cpu, tss, cr3, kb, rx>>

table == <<process_count, pid>>
devices == <<kb, rx>>
space == <<tss, cr3>>

\* "base": the frame at the top of the kernel stack, written by the last entry
\* from ring 3.  "deep": a live interrupt frame inside a system call.  "stale":
\* the address of a deep frame that has been popped.  "foreign": a frame on
\* another process's kernel stack.
Frames == {"base", "deep", "stale", "foreign"}

ReadPoints == {"r_test", "r_block", "r_wait", "r_loop", "r_cli", "r_deq"}
WaitPoints == {"w_block", "w_wait", "w_loop", "w_cli"}
NetPoints  == {"n_block", "n_wait", "n_loop", "n_cli", "n_take"}
ExecPoints == {"x_pid", "x_check", "x_store"}
ExitPoints == {"e_dead", "e_wake", "e_sched", "e_switch"}
Points == {"user", "work", "wild"} \cup ReadPoints \cup WaitPoints
            \cup NetPoints \cup ExecPoints \cup ExitPoints

Init ==
  /\ process_count = 1
  /\ current_index = 0
  /\ state = [i \in Slots |-> IF i = 1 THEN "READY" ELSE "NULL"]
  /\ pid = [i \in Slots |-> IF i = 1 THEN 1 ELSE 0]
  /\ wait_pid = [i \in Slots |-> NoWait]
  /\ saved = [i \in Slots |-> "base"]
  /\ pc = [i \in Slots |-> "user"]
  /\ loc = [i \in Slots |-> 0]
  /\ ticks = [i \in Slots |-> 0]
  /\ cpu = 0
  /\ tss = 0
  /\ cr3 = 0
  /\ kb = 0
  /\ rx = FALSE

-----------------------------------------------------------------------------
(***************************************************************************)
(* Scheduler::Schedule.  Its loop probes the slots current_index + 1,      *)
(* current_index + 2, ... cyclically and stops at the first READY one.     *)
(***************************************************************************)

WasRunning == current_index # 0 /\ state[current_index] = "RUNNING"

\* A variant in which Schedule forgets to demote the running process.
YieldedNever == state

Yielded ==
  IF WasRunning THEN [state EXCEPT ![current_index] = "READY"] ELSE state

\* A variant that always searches from the first slot.
SlotFromStart(turn) == ((turn - 1) % process_count) + 1

Slot(turn) == ((current_index - 1 + turn) % process_count) + 1

IsReadyTurn(turn) == Yielded[Slot(turn)] = "READY"

IsNextTurn(turn) ==
  /\ IsReadyTurn(turn)
  /\ \A earlier \in 1..(turn - 1) : ~IsReadyTurn(earlier)

NoneReady == \A turn \in 1..process_count : ~IsReadyTurn(turn)

\* The frame the esp argument points to when the timer interrupts the CPU.
Frame ==
  CASE cpu # current_index \/ pc[cpu] = "wild" -> "foreign"
    [] cpu = current_index /\ pc[cpu] = "user" -> "base"
    [] OTHER -> "deep"

\* cpu_state.esp after the assignment in Schedule, which only a RUNNING
\* process gets.
SavedBy(frame) ==
  IF WasRunning THEN [saved EXCEPT ![current_index] = frame] ELSE saved

\* Variants that do not record the new process, or do not update the TSS.
SelectNoIndex(next) ==
  /\ UNCHANGED current_index
  /\ state' = [Yielded EXCEPT ![next] = "RUNNING"]
  /\ cr3' = next
  /\ tss' = next

SelectNoTSS(next) ==
  /\ current_index' = next
  /\ state' = [Yielded EXCEPT ![next] = "RUNNING"]
  /\ cr3' = next
  /\ UNCHANGED tss

\* The chosen process is marked and its address space and kernel stack loaded.
Select(next) ==
  /\ current_index' = next
  /\ state' = [Yielded EXCEPT ![next] = "RUNNING"]
  /\ cr3' = next
  /\ tss' = next

\* iret through a frame: a live deep frame continues the thread where it was,
\* the base frame always leads back to ring 3, anything else is undefined.
Restored(next, frames) ==
  CASE frames[next] = "base" -> "user"
    [] frames[next] = "deep" -> pc[next]
    [] OTHER -> "wild"

\* Schedule returns next->cpu_state.esp and the stub loads it.
Resume(next, frames) ==
  /\ cpu' = next
  /\ pc' = [pc EXCEPT ![next] = Restored(next, frames)]
  /\ saved' = [frames EXCEPT ![next] = IF @ = "deep" THEN "stale" ELSE @]

\* Schedule returns its own argument: the interrupted thread goes on.
Continue == UNCHANGED <<cpu, pc, saved>>

\* A variant without the test that sends a process woken in its own hlt loop
\* back to the interrupted context.
SwitchToSaved(next) == Select(next) /\ Resume(next, SavedBy(Frame))

SwitchTo(next) ==
  /\ Select(next)
  /\ IF ~WasRunning /\ next = current_index
       THEN Continue
       ELSE Resume(next, SavedBy(Frame))

\* SchedulerTimer::HandleInterrupt, on every PIT tick.
Timer ==
  /\ process_count \in Slots
  /\ ticks' = [i \in Slots |-> IF ticks[i] > 0 THEN ticks[i] - 1 ELSE 0]
  /\ \/ \E turn \in 1..process_count : IsNextTurn(turn) /\ SwitchTo(Slot(turn))
     \/ NoneReady /\ Continue /\ UNCHANGED <<current_index, state, space>>
  /\ UNCHANGED <<table, wait_pid, loc, devices>>

-----------------------------------------------------------------------------
\* Scheduler::WakeParent: every process blocked on this id becomes READY.
Woken(i, id) == state[i] = "BLOCKED" /\ wait_pid[i] = id

WakeParent(id) ==
  /\ state' = [i \in Slots |-> IF Woken(i, id) THEN "READY" ELSE state[i]]
  /\ wait_pid' = [i \in Slots |-> IF Woken(i, id) THEN NoWait ELSE wait_pid[i]]

\* A key reaches KeyboardBuffer::Enqueue, which drops it when the ring is full,
\* and KeyboardBuffer::WakeWaiters.
Key ==
  /\ kb' = IF kb < KbCap THEN kb + 1 ELSE kb
  /\ WakeParent(KeyWait)
  /\ UNCHANGED <<table, current_index, saved, pc, loc, ticks, cpu, space, rx>>

\* The NIC interrupt delivers a datagram to OnReceive.  Nobody is woken.
Packet ==
  /\ ~rx
  /\ rx' = TRUE
  /\ UNCHANGED <<table, current_index, state, wait_pid, saved, pc, loc, ticks,
                 cpu, space, kb>>

-----------------------------------------------------------------------------
(***************************************************************************)
(* System calls, statement by statement, of the process the CPU executes.  *)
(* GetActive() is processes[current_index].                                *)
(***************************************************************************)

At(p, point) == cpu = p /\ pc[p] = point

Goto(p, point) == pc' = [pc EXCEPT ![p] = point]

sched == <<current_index, saved, cpu, space>>

\* int 0x80.  A program may make any of its calls at any time.
Enter(p) ==
  /\ At(p, "user")
  /\ UNCHANGED <<table, sched, state, wait_pid, devices>>
  /\ \/ /\ "work" \in Calls
        /\ Goto(p, "work")
        /\ UNCHANGED <<loc, ticks>>
     \/ /\ "read" \in Calls
        /\ Goto(p, "r_test")
        /\ UNCHANGED <<loc, ticks>>
     \/ /\ "waitpid" \in Calls
        /\ \E target \in Slots :
             /\ target <= process_count
             /\ \A i \in 1..(target - 1) : pid[i] # pid[target]
             /\ loc' = [loc EXCEPT ![p] = target]
        /\ Goto(p, "w_block")
        /\ UNCHANGED ticks
     \/ /\ "net" \in Calls
        /\ Goto(p, IF rx THEN "n_take" ELSE "n_block")
        /\ ticks' = [ticks EXCEPT ![p] = WaitTicks]
        /\ UNCHANGED loc
     \/ /\ "exec" \in Calls
        /\ p \in Execers
        /\ Goto(p, "x_pid")
        /\ UNCHANGED <<loc, ticks>>
     \/ /\ "exit" \in Calls
        /\ Goto(p, "e_dead")
        /\ UNCHANGED <<loc, ticks>>

\* A system call that neither blocks nor touches the process table returns.
Work(p) ==
  /\ At(p, "work")
  /\ Goto(p, "user")
  /\ UNCHANGED <<table, sched, state, wait_pid, loc, ticks, devices>>

\* GetActive()->state = s and GetActive()->wait_pid = id, two statements.
SetState(p, from, s, to) ==
  /\ At(p, from)
  /\ Goto(p, to)
  /\ state' = [state EXCEPT ![current_index] = s]
  /\ UNCHANGED <<table, sched, wait_pid, loc, ticks, devices>>

SetWait(p, from, id, to) ==
  /\ At(p, from)
  /\ Goto(p, to)
  /\ wait_pid' = [wait_pid EXCEPT ![current_index] = id]
  /\ UNCHANGED <<table, sched, state, loc, ticks, devices>>

\* sti; while (cond) hlt;
LeaveLoop(p, from, cond, to) ==
  /\ At(p, from)
  /\ cond
  /\ Goto(p, to)
  /\ UNCHANGED <<table, sched, state, wait_pid, loc, ticks, devices>>

\* cli; p->state = RUNNING; p->wait_pid = -1.
Unblock(p) ==
  /\ state' = [state EXCEPT ![p] = "RUNNING"]
  /\ wait_pid' = [wait_pid EXCEPT ![p] = NoWait]

ReadTest(p) ==
  /\ At(p, "r_test")
  /\ Goto(p, IF kb = 0 THEN "r_block" ELSE "r_deq")
  /\ UNCHANGED <<table, sched, state, wait_pid, loc, ticks, devices>>

\* Interrupts are off from cli to iret: the whole tail of sys_read is one step.
\* It takes characters until the count is reached, a newline or an empty ring.
ReadTail(p) ==
  /\ At(p, "r_cli")
  /\ Unblock(p)
  /\ Goto(p, "user")
  /\ \E left \in 0..KbCap : left <= kb /\ (kb > 0 => left < kb) /\ kb' = left
  /\ UNCHANGED <<table, sched, loc, ticks, rx>>

\* The ring was not empty at entry: Dequeue runs with interrupts on.
ReadDequeue(p) ==
  /\ At(p, "r_deq")
  /\ \/ kb > 0 /\ kb' = kb - 1 /\ pc' \in {pc, [pc EXCEPT ![p] = "user"]}
     \/ kb = 0 /\ kb' = kb /\ Goto(p, "user")
  /\ UNCHANGED <<table, sched, state, wait_pid, loc, ticks, rx>>

\* A variant whose hlt loop tests the ring the wrong way round, and one of the
\* network wait that ignores the timeout.
SysReadWrongTest(p) ==
  \/ ReadTest(p)
  \/ SetState(p, "r_block", "BLOCKED", "r_wait")
  \/ SetWait(p, "r_wait", KeyWait, "r_loop")
  \/ LeaveLoop(p, "r_loop", kb = 0, "r_cli")
  \/ ReadTail(p)
  \/ ReadDequeue(p)

SysRead(p) ==
  \/ ReadTest(p)
  \/ SetState(p, "r_block", "BLOCKED", "r_wait")
  \/ SetWait(p, "r_wait", KeyWait, "r_loop")
  \/ LeaveLoop(p, "r_loop", kb > 0, "r_cli")
  \/ ReadTail(p)
  \/ ReadDequeue(p)

WaitpidTail(p) ==
  /\ At(p, "w_cli")
  /\ Unblock(p)
  /\ Goto(p, "user")
  /\ UNCHANGED <<table, sched, loc, ticks, devices>>

SysWaitpid(p) ==
  \/ SetState(p, "w_block", "BLOCKED", "w_wait")
  \/ At(p, "w_wait") /\ SetWait(p, "w_wait", pid[loc[p]], "w_loop")
  \/ At(p, "w_loop") /\ LeaveLoop(p, "w_loop", state[loc[p]] = "DEAD", "w_cli")
  \/ WaitpidTail(p)

\* sys_net_recv_udp, sys_net_tcp_recv and the wait of sys_net_tcp_connect.
NetTail(p) ==
  /\ At(p, "n_cli")
  /\ Unblock(p)
  /\ Goto(p, "user")
  /\ rx' = FALSE
  /\ UNCHANGED <<table, sched, loc, ticks, kb>>

NetTake(p) ==
  /\ At(p, "n_take")
  /\ Goto(p, "user")
  /\ rx' = FALSE
  /\ UNCHANGED <<table, sched, state, wait_pid, loc, ticks, kb>>

SysNetNoTimeout(p) ==
  \/ SetState(p, "n_block", "BLOCKED", "n_wait")
  \/ SetWait(p, "n_wait", NetWait, "n_loop")
  \/ LeaveLoop(p, "n_loop", rx, "n_cli")
  \/ NetTail(p)
  \/ NetTake(p)

SysNet(p) ==
  \/ SetState(p, "n_block", "BLOCKED", "n_wait")
  \/ SetWait(p, "n_wait", NetWait, "n_loop")
  \/ LeaveLoop(p, "n_loop", rx \/ ticks[p] = 0, "n_cli")
  \/ NetTail(p)
  \/ NetTake(p)

\* A variant that returns the largest pid itself.
IsLastPID(n) ==
  /\ \A i \in Slots : pid[i] <= n
  /\ \E i \in Slots : pid[i] = n

\* Scheduler::NextPID: one more than the largest pid in the table (an empty
\* slot has pid 0).
IsNextPID(n) ==
  /\ \A i \in Slots : pid[i] < n
  /\ \E i \in Slots : pid[i] = n - 1

ExecPid(p) ==
  /\ At(p, "x_pid")
  /\ \E n \in PidRange : IsNextPID(n) /\ loc' = [loc EXCEPT ![p] = n]
  /\ Goto(p, "x_check")
  /\ UNCHANGED <<table, sched, state, wait_pid, ticks, devices>>

\* Scheduler::AddProcess: a full table drops the child and exec still returns
\* its pid.
AddProcessFull == process_count >= MaxProcs

ExecCheck(p) ==
  /\ At(p, "x_check")
  /\ Goto(p, IF AddProcessFull THEN "user" ELSE "x_store")
  /\ UNCHANGED <<table, sched, state, wait_pid, loc, ticks, devices>>

\* processes[process_count++] = child.  Past the end of the array the store hits
\* no slot but the members behind it: nothing is defined from then on, and Timer
\* and exit's Schedule are disabled.
ExecStore(p) ==
  /\ At(p, "x_store")
  /\ process_count' = process_count + 1
  /\ IF process_count + 1 \in Slots
       THEN /\ state' = [state EXCEPT ![process_count + 1] = "READY"]
            /\ pid' = [pid EXCEPT ![process_count + 1] = loc[p]]
       ELSE UNCHANGED <<state, pid>>
  /\ Goto(p, "user")
  /\ UNCHANGED <<sched, wait_pid, loc, ticks, devices>>

SysExec(p) == ExecPid(p) \/ ExecCheck(p) \/ ExecStore(p)

ExitWake(p) ==
  /\ At(p, "e_wake")
  /\ WakeParent(pid[current_index])
  /\ Goto(p, "e_sched")
  /\ UNCHANGED <<table, sched, loc, ticks, devices>>

\* Schedule(esp) called by the exit system call, with interrupts on: the next
\* process is marked in one step and its context loaded in another.  (A dead
\* process preempted before that mark is never resumed, so the statements that
\* lead to it need no steps of their own.)  With nothing READY the call returns
\* to the dead process.
ExitSchedule(p) ==
  /\ At(p, "e_sched")
  /\ process_count \in Slots
  /\ \/ /\ \E turn \in 1..process_count :
             IsNextTurn(turn) /\ Select(Slot(turn))
        /\ Goto(p, "e_switch")
     \/ /\ NoneReady
        /\ Goto(p, "user")
        /\ UNCHANGED <<current_index, state, space>>
  /\ UNCHANGED <<table, wait_pid, saved, loc, ticks, cpu, devices>>

ExitSwitch(p) ==
  /\ At(p, "e_switch")
  /\ Resume(current_index, saved)
  /\ UNCHANGED <<table, current_index, state, wait_pid, loc, ticks, space, devices>>

SysExit(p) ==
  \/ SetState(p, "e_dead", "DEAD", "e_wake")
  \/ ExitWake(p)
  \/ ExitSchedule(p)
  \/ ExitSwitch(p)

Kernel(p) ==
  Work(p) \/ SysRead(p) \/ SysWaitpid(p) \/ SysNet(p) \/ SysExec(p) \/ SysExit(p)

Next ==
  \/ Timer
  \/ Key
  \/ Packet
  \/ \E p \in Slots : Enter(p) \/ Kernel(p)

\* The PIT keeps ticking and the CPU keeps executing kernel code; no program
\* has to make a call, no key has to be pressed and no packet has to arrive.
Fairness ==
  /\ WF_vars(Timer)
  /\ WF_vars(\E p \in Slots : Kernel(p))

Spec == Init /\ [][Next]_vars /\ Fairness
-----------------------------------------------------------------------------
(***************************************************************************)
(* Properties.                                                             *)
(***************************************************************************)

\* Every variable keeps its type.
TypeOK ==
  /\ process_count \in Nat \ {0}
  /\ current_index \in 0..MaxProcs
  /\ state \in [Slots -> {"NULL", "RUNNING", "READY", "BLOCKED", "DEAD"}]
  /\ pid \in [Slots -> PidRange]
  /\ wait_pid \in [Slots -> PidRange \cup {NoWait, KeyWait, NetWait}]
  /\ saved \in [Slots -> Frames]
  /\ pc \in [Slots -> Points]
  /\ loc \in [Slots -> PidRange]
  /\ ticks \in [Slots -> 0..WaitTicks]
  /\ cpu \in 0..MaxProcs
  /\ tss \in 0..MaxProcs
  /\ cr3 \in 0..MaxProcs
  /\ kb \in 0..KbCap
  /\ rx \in BOOLEAN

\* GetActive() is the process whose code the CPU executes, in ring 3 and at
\* every statement of a system call; every system call relies on it to find
\* its own process (syscall.cpp:126, 153, 162, 491).  The one exception is the
\* end of exit, where the next process is already marked.
ActiveIsCaller ==
  cpu # current_index => cpu # 0 /\ pc[cpu] = "e_switch" /\ state[cpu] = "DEAD"

\* At most one process is RUNNING, and it is the active one: Schedule demotes
\* the old one before it promotes the next, and the blocking system calls put
\* only their caller back to RUNNING (scheduler.cpp:41-58, syscall.cpp:135).
RunningIsCurrent ==
  \A i \in Slots : state[i] = "RUNNING" => i = current_index

\* A process that executes in ring 3 does so with its own page directory
\* loaded and with its own kernel stack in the TSS, so its next interrupt
\* cannot land on another process's stack (scheduler.cpp:59-61).
OwnStackInRing3 ==
  cpu # 0 /\ pc[cpu] = "user" => tss = cpu /\ cr3 = cpu

\* Only its own statements move a thread of control: the timer interrupts it
\* and hands the CPU back exactly where it was, and while another process has
\* the CPU it stays where it is.  What Schedule returns to the interrupt stub
\* is always the context the process was interrupted in (scheduler.cpp:39-66).
ContextPreserved ==
  [][/\ Timer => pc' = pc
     /\ \A p \in Slots : cpu # p => pc'[p] = pc[p]]_vars

\* No two processes have the same pid, which FindProcess and WakeParent assume
\* (scheduler.cpp:77-100).  This needs that execs of two processes do not overlap:
\* NextPID and the store into the table are separate statements.
UniquePids ==
  \A i, j \in Slots : pid[i] = pid[j] /\ pid[i] # 0 => i = j

\* The round robin starves nobody: a READY process is dispatched.
ReadyRuns ==
  \A p \in Slots : state[p] = "READY" ~> state[p] = "RUNNING"

\* A reader with input waiting leaves sys_read.
ReadReturns ==
  \A p \in Slots : pc[p] = "r_loop" /\ kb > 0 ~> pc[p] = "user"

\* A process in waitpid whose target has exited leaves waitpid.
WaitpidReturns ==
  \A p \in Slots :
    pc[p] = "w_loop" /\ state[loc[p]] = "DEAD" ~> pc[p] # "w_loop"

\* A network wait ends, by data or by its timeout.
NetReturns == \A p \in Slots : pc[p] = "n_loop" ~> pc[p] = "user"
=============================================================================
