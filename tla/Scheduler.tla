----------------------------- MODULE Scheduler -----------------------------
(***************************************************************************)
(* The scheduler (kernel/src/scheduler.rs), the interrupt entry points     *)
(* that drive it (kernel/src/interrupts/idt.rs) and the system calls that  *)
(* create, replace, end, signal and await processes                        *)
(* (kernel/src/syscalls/mod.rs), on the process table of Processes.        *)
(*                                                                         *)
(* There is one CPU.  Every gate of the IDT is an interrupt gate, so       *)
(* system calls and handlers run with interrupts off: one of them is one   *)
(* step, up to a point where it gives the CPU away (exit, waitpid, a read  *)
(* of the console) or turns interrupts on again (fork).  The variable cpu  *)
(* is the program point the CPU is at:                                     *)
(*   boot, idle   kernel_main before and after start_scheduler             *)
(*   user         ring 3, in the process current_pid                       *)
(*   forkwin      sys_fork, interrupts on, child stack not built           *)
(*   forkbuild    sys_fork, interrupts on, holding KERNEL_STACKS           *)
(*   wait, read   the polling loops of sys_waitpid and sys_read            *)
(*   sleep        the hlt loop of sys_nanosleep                            *)
(*   halted       hlt_loop after exit or a page fault, interrupts off      *)
(*   panic        the panic handler                                        *)
(*   wild         on a kernel stack that holds somebody else's context     *)
(* A continuation is a program point with its argument and the debt of an  *)
(* end-of-interrupt command: what runs when schedule() returns, at once or *)
(* after the process was switched back in.                                 *)
(***************************************************************************)
EXTENDS Processes

CONSTANTS DefaultSlice,  \* Scheduler::default_slice, in ticks
          MaxSpawns,     \* user processes spawned by kernel_main
          Calls,         \* the calls user programs make
          Signums,       \* the signal numbers programs pass to kill
          MaxSleep,      \* bound: the longest sleep a program asks for
          AutoEoi        \* external: does the interrupt controller
                         \* acknowledge by itself?  pic8259 programs FALSE

ASSUME DefaultSliceAssumption == DefaultSlice \in Nat \ {0}
ASSUME MaxSpawnsAssumption == MaxSpawns \in Nat
ASSUME SignumsAssumption == Signums \subseteq 1..255
ASSUME MaxSleepAssumption == MaxSleep \in Nat
ASSUME AutoEoiAssumption == AutoEoi \in BOOLEAN

VARIABLES processes,     \* ProcessTable::processes
          next_pid,      \* ProcessTable::next_pid
          current_pid,   \* ProcessTable::current_pid
          stacks,        \* KERNEL_STACKS: the saved context of each slot
          current_slice, \* Scheduler::current_slice
          cpu,           \* the program point and its argument
          isr            \* the timer interrupt is in service at the PIC

vars == <<processes, next_pid, current_pid, stacks, current_slice, cpu, isr>>

AnyChild == -1

Points == {"boot", "idle", "user", "forkwin", "forkbuild", "wait", "read",
           "sleep", "halted", "panic", "wild"}
Args   == Int

At(point, arg) == [at |-> point, arg |-> arg]

Continuation == [at : Points, arg : Args, irq : BOOLEAN]

Cont(c, irq) == [at |-> c.at, arg |-> c.arg, irq |-> irq]

(***************************************************************************)
(* ProcessKernelStack: initialised, and the context saved_rsp points to.   *)
(* owner is the process that context belongs to, 0 once it was resumed:    *)
(* the code keeps no such field, saved_rsp just goes stale, and            *)
(* initialised is not reset when the slot is freed.                        *)
(***************************************************************************)
StackWith(initialised, owner) ==
  [initialised |-> initialised, owner |-> owner, cont |-> Cont(At("user", 0), FALSE)]

NoStack         == StackWith(FALSE, 0)
FreshStack(pid) == StackWith(TRUE, pid)
Spent(stack)    == StackWith(stack.initialised, 0)

-----------------------------------------------------------------------------
(***************************************************************************)
(* Going on at continuation c with the in-service bit i: the tail of the   *)
(* timer handler sends the end-of-interrupt command.                       *)
(***************************************************************************)
Resume(c, i) ==
  /\ cpu' = At(c.at, c.arg)
  /\ isr' = (i /\ ~c.irq)

(***************************************************************************)
(* find_next_ready: the distance, forward from the slot of after, of the   *)
(* first Ready process.  PID 0 stands for None.                            *)
(***************************************************************************)
StartSlot(t, after) == IF Present(t, after) THEN SlotOf(t, after) ELSE 0

\* Mutant: the scan ends one slot too early.
ReadyOneShort(t, after) ==
  {i \in 1 .. NSlots - 2 : LET p == t[(StartSlot(t, after) + i) % NSlots]
                           IN p.pid # 0 /\ p.state = "Ready"}

ReadyAt(t, after) ==
  {i \in 1..NSlots : LET p == t[(StartSlot(t, after) + i) % NSlots]
                     IN p.pid # 0 /\ p.state = "Ready"}

FindNextReady(t, after) ==
  IF ReadyAt(t, after) = {} THEN 0
  ELSE t[(StartSlot(t, after) + Min(ReadyAt(t, after))) % NSlots].pid

(***************************************************************************)
(* do_context_switch from current_pid to new, with the table t, the stacks *)
(* k and the in-service bit i; c is what follows the call.  While a fork   *)
(* holds KERNEL_STACKS the try_lock fails and nothing is switched.  A      *)
(* process without a context is parked as Blocked.                         *)
(***************************************************************************)
StacksLocked == cpu.at = "forkbuild"

\* Mutant: the process that loses the CPU stays Running.
NotDemoted(t, new) == SetState(t, new, "Running")

SwitchedStates(t, new) ==
  LET old == IF current_pid # 0 /\ Proc(t, current_pid).state = "Running"
             THEN SetState(t, current_pid, "Ready") ELSE t
  IN SetState(old, new, "Running")

SavedStacks(t, k, new, c) ==
  LET saved == IF current_pid = 0 THEN k
               ELSE [k EXCEPT ![SlotOf(t, current_pid)].owner = current_pid,
                              ![SlotOf(t, current_pid)].cont = c]
  IN [saved EXCEPT ![SlotOf(t, new)] = Spent(@)]

DoContextSwitch(t, k, new, c, i, slice) ==
  LET s == SlotOf(t, new) IN
  IF StacksLocked \/ ~k[s].initialised
  THEN /\ processes' = IF ~StacksLocked /\ t[s].state = "Ready"
                       THEN SetState(t, new, "Blocked") ELSE t
       /\ stacks' = k
       /\ current_slice' = slice
       /\ UNCHANGED current_pid
       /\ Resume(c, i)
  ELSE /\ processes' = SwitchedStates(t, new)
       /\ stacks' = SavedStacks(t, k, new, c)
       /\ current_pid' = new
       /\ current_slice' = DefaultSlice
       /\ IF k[s].owner = new
          THEN Resume(k[s].cont, i)
          ELSE cpu' = At("wild", 0) /\ isr' = i

(***************************************************************************)
(* schedule: no Ready process, the current one, or another one.  (Here and *)
(* below, \E over a singleton names a value that TLC evaluates once.)      *)
(***************************************************************************)
Schedule(t, c, i, slice) ==
  \E new \in {FindNextReady(t, current_pid)} :
  IF new \in {0, current_pid}
  THEN /\ processes' = t
       /\ current_slice' = IF new = 0 THEN slice ELSE DefaultSlice
       /\ UNCHANGED <<current_pid, stacks>>
       /\ Resume(c, i)
  ELSE DoContextSwitch(t, stacks, new, c, i, slice)

(***************************************************************************)
(* switch_to_next: as schedule, but the slice is left alone when the       *)
(* current process is the next one.                                        *)
(***************************************************************************)
SwitchToNext(t, c) ==
  \E new \in {FindNextReady(t, current_pid)} :
  IF new \in {0, current_pid}
  THEN /\ processes' = t
       /\ UNCHANGED <<current_slice, current_pid, stacks>>
       /\ Resume(c, isr)
  ELSE DoContextSwitch(t, stacks, new, c, isr, current_slice)

-----------------------------------------------------------------------------
(***************************************************************************)
(* Boot.  boot_service allocates its processes, which stay Blocked;        *)
(* kernel_main spawns user processes, starts the scheduler and idles.      *)
(***************************************************************************)
Init ==
  /\ processes = [s \in Slots |-> IF s < NServices
                                  THEN NewProcess(s + 1, 0, "Blocked") ELSE Empty]
  /\ next_pid = NServices + 1
  /\ current_pid = 0
  /\ stacks = [s \in Slots |-> NoStack]
  /\ current_slice = DefaultSlice
  /\ cpu = At("boot", 0)
  /\ isr = FALSE

SpawnUserProcess ==
  /\ cpu.at = "boot"
  /\ next_pid <= NServices + MaxSpawns
  /\ next_pid <= MaxPid
  /\ FreeSlots(processes) # {}
  /\ processes' = Alloc(processes, next_pid, 0, "Ready")
  /\ stacks' = [stacks EXCEPT ![NextFree(processes)] = FreshStack(next_pid)]
  /\ next_pid' = next_pid + 1
  /\ UNCHANGED <<current_pid, current_slice, cpu, isr>>

StartScheduler ==
  /\ cpu.at = "boot"
  /\ next_pid > NServices + 1
  /\ cpu' = At("idle", 0)
  /\ UNCHANGED <<processes, next_pid, current_pid, stacks, current_slice, isr>>

-----------------------------------------------------------------------------
(***************************************************************************)
(* The timer interrupt (timer_interrupt_handler and on_timer_tick).  It is *)
(* taken when interrupts are on and none is in service, and it is          *)
(* acknowledged only after on_timer_tick has come back.  A sleeping        *)
(* program would see the tick count advance.                               *)
(***************************************************************************)
InterruptsEnabled == cpu.at \in {"idle", "user", "forkwin", "forkbuild"}

Interrupted ==
  Cont(IF cpu.at = "sleep" /\ cpu.arg > 0 THEN At("sleep", cpu.arg - 1) ELSE cpu, TRUE)

\* Mutant: the unsigned slice wraps below zero (at a smaller width).
SliceWraps == (current_slice - 1) % 2^16

SliceAfterTick == IF current_slice > 0 THEN current_slice - 1 ELSE 0

TakeTimerIrq == InterruptsEnabled /\ ~isr

TickExpired ==
  /\ TakeTimerIrq
  /\ SliceAfterTick = 0
  /\ Schedule(processes, Interrupted, ~AutoEoi, 0)
  /\ UNCHANGED next_pid

TickDeliver ==
  /\ TakeTimerIrq
  /\ SliceAfterTick > 0
  /\ current_pid # 0
  /\ \E t \in {DeliverPending(processes, current_pid)} :
     IF Proc(t, current_pid).state = "Zombie"
     THEN Schedule(t, Interrupted, ~AutoEoi, SliceAfterTick)
     ELSE /\ processes' = t
          /\ current_slice' = SliceAfterTick
          /\ UNCHANGED <<current_pid, stacks>>
          /\ Resume(Interrupted, ~AutoEoi)
  /\ UNCHANGED next_pid

TickIdle ==
  /\ TakeTimerIrq
  /\ SliceAfterTick > 0
  /\ current_pid = 0
  /\ current_slice' = SliceAfterTick
  /\ Resume(Interrupted, ~AutoEoi)
  /\ UNCHANGED <<processes, next_pid, current_pid, stacks>>

TimerTick == TickExpired \/ TickDeliver \/ TickIdle

-----------------------------------------------------------------------------
(***************************************************************************)
(* System calls and faults of the current process.  Calls that fail before *)
(* they change anything return an error and are stuttering steps.          *)
(***************************************************************************)
Calling(call) == cpu.at = "user" /\ call \in Calls

SysExit ==
  /\ Calling("exit")
  /\ \E t \in {MarkExit(processes, current_pid, 0)} :
     SwitchToNext(t, Cont(At("halted", 0), FALSE))
  /\ UNCHANGED next_pid

PageFault ==
  /\ Calling("fault")
  /\ \E t \in {MarkExit(processes, current_pid, 139)} :
     SwitchToNext(t, Cont(At("halted", 0), FALSE))
  /\ UNCHANGED next_pid

(***************************************************************************)
(* Protection, opcode, divide and stack faults panic, whoever causes them. *)
(***************************************************************************)
FatalFault ==
  /\ Calling("fatal")
  /\ cpu' = At("panic", 0)
  /\ UNCHANGED <<processes, next_pid, current_pid, stacks, current_slice, isr>>

SysKill(pid, signum) ==
  /\ Calling("kill")
  /\ MayControl(processes, current_pid)
  /\ processes' = SendSignal(processes, pid, signum)
  /\ UNCHANGED <<next_pid, current_pid, stacks, current_slice, cpu, isr>>

(***************************************************************************)
(* sys_fork: the child is entered in the table as Ready with interrupts    *)
(* off; they are turned on again before its kernel stack is built.         *)
(***************************************************************************)
SysFork ==
  /\ Calling("fork")
  /\ next_pid <= MaxPid
  /\ FreeSlots(processes) # {}
  /\ processes' = Alloc(processes, next_pid, current_pid, "Ready")
  /\ next_pid' = next_pid + 1
  /\ cpu' = At("forkwin", NextFree(processes))
  /\ UNCHANGED <<current_pid, stacks, current_slice, isr>>

ForkLockStacks ==
  /\ cpu.at = "forkwin"
  /\ cpu' = At("forkbuild", cpu.arg)
  /\ UNCHANGED <<processes, next_pid, current_pid, stacks, current_slice, isr>>

\* Mutant: sys_fork returns without building the child's stack.
ForkWithoutStack ==
  /\ cpu.at = "forkbuild"
  /\ cpu' = At("user", 0)
  /\ UNCHANGED <<processes, next_pid, current_pid, stacks, current_slice, isr>>

\* Mutant: the child's context is written without its registers, so that the
\* context of the slot's previous owner is what will be resumed.
ForkKeepsOldContext ==
  /\ cpu.at = "forkbuild"
  /\ stacks' = [stacks EXCEPT ![cpu.arg].initialised = TRUE]
  /\ cpu' = At("user", 0)
  /\ UNCHANGED <<processes, next_pid, current_pid, current_slice, isr>>

ForkBuildStack ==
  /\ cpu.at = "forkbuild"
  /\ stacks' = [stacks EXCEPT ![cpu.arg] = FreshStack(processes[cpu.arg].pid)]
  /\ cpu' = At("user", 0)
  /\ UNCHANGED <<processes, next_pid, current_pid, current_slice, isr>>

(***************************************************************************)
(* sys_exec once the new image is loaded: the process becomes Ready, its   *)
(* context starts over, and restart_current switches to itself.            *)
(***************************************************************************)
SysExec ==
  /\ Calling("exec")
  /\ LET k == [stacks EXCEPT ![SlotOf(processes, current_pid)] =
                 FreshStack(current_pid)]
     IN DoContextSwitch(SetState(processes, current_pid, "Ready"), k,
                        current_pid, Cont(cpu, FALSE), isr, current_slice)
  /\ UNCHANGED next_pid

(***************************************************************************)
(* sys_waitpid looks at the first child in the table that matches: a       *)
(* zombie is freed and its PID returned, a living child means yield_now    *)
(* and another look, and no child is an error.                             *)
(***************************************************************************)
SysWaitpid(pid) ==
  /\ Calling("waitpid")
  /\ cpu' = At("wait", pid)
  /\ UNCHANGED <<processes, next_pid, current_pid, stacks, current_slice, isr>>

Matching ==
  {s \in Slots : /\ processes[s].pid # 0
                 /\ processes[s].parent_pid = current_pid
                 /\ cpu.arg \in {AnyChild, processes[s].pid}}

FirstChild == processes[Min(Matching)]

\* Mutant: a living child is freed as well.
WaitReapAny ==
  /\ cpu.at = "wait"
  /\ Matching # {}
  /\ processes' = Free(processes, FirstChild.pid)
  /\ cpu' = At("user", 0)
  /\ UNCHANGED <<next_pid, current_pid, stacks, current_slice, isr>>

WaitReap ==
  /\ cpu.at = "wait"
  /\ Matching # {}
  /\ FirstChild.state = "Zombie"
  /\ processes' = Free(processes, FirstChild.pid)
  /\ cpu' = At("user", 0)
  /\ UNCHANGED <<next_pid, current_pid, stacks, current_slice, isr>>

\* Mutant: waitpid polls without giving the CPU away.
WaitSpin ==
  /\ cpu.at = "wait"
  /\ Matching # {}
  /\ FirstChild.state # "Zombie"
  /\ UNCHANGED vars

WaitYield ==
  /\ cpu.at = "wait"
  /\ Matching # {}
  /\ FirstChild.state # "Zombie"
  /\ Schedule(processes, Cont(cpu, FALSE), isr, current_slice)
  /\ UNCHANGED next_pid

WaitNoChild ==
  /\ cpu.at = "wait"
  /\ Matching = {}
  /\ cpu' = At("user", 0)
  /\ UNCHANGED <<processes, next_pid, current_pid, stacks, current_slice, isr>>

(***************************************************************************)
(* sys_read of the console: poll the serial port, yield while it is empty. *)
(***************************************************************************)
SysReadStdin ==
  /\ Calling("read")
  /\ cpu' = At("read", 0)
  /\ UNCHANGED <<processes, next_pid, current_pid, stacks, current_slice, isr>>

ReadByte ==
  /\ cpu.at = "read"
  /\ cpu' = At("user", 0)
  /\ UNCHANGED <<processes, next_pid, current_pid, stacks, current_slice, isr>>

ReadYield ==
  /\ cpu.at = "read"
  /\ Schedule(processes, Cont(cpu, FALSE), isr, current_slice)
  /\ UNCHANGED next_pid

(***************************************************************************)
(* sys_nanosleep halts until the tick count has advanced far enough.       *)
(***************************************************************************)
SysNanosleep(ticks) ==
  /\ Calling("nanosleep")
  /\ cpu' = At("sleep", ticks)
  /\ UNCHANGED <<processes, next_pid, current_pid, stacks, current_slice, isr>>

NanosleepReturn ==
  /\ cpu.at = "sleep"
  /\ cpu.arg = 0
  /\ cpu' = At("user", 0)
  /\ UNCHANGED <<processes, next_pid, current_pid, stacks, current_slice, isr>>

(***************************************************************************)
(* A heap allocation of a system call fails: alloc_error runs handle_oom   *)
(* and panics whatever it returns.                                         *)
(***************************************************************************)
AllocError ==
  /\ Calling("oom")
  /\ processes' = HandleOom(processes)
  /\ cpu' = At("panic", 0)
  /\ UNCHANGED <<next_pid, current_pid, stacks, current_slice, isr>>

(***************************************************************************)
(* The states in which the CPU executes nothing more: hlt with interrupts  *)
(* off (after exit, in sleep or in a panic) and a corrupted context.       *)
(***************************************************************************)
Stopped ==
  /\ cpu.at \in {"halted", "panic", "wild"} \/ (cpu.at = "sleep" /\ cpu.arg > 0)
  /\ UNCHANGED vars

-----------------------------------------------------------------------------
SystemCall ==
  \/ SysExit \/ PageFault \/ FatalFault \/ SysFork \/ SysExec
  \/ SysReadStdin \/ AllocError
  \/ \E pid \in Pids \ {0}, signum \in Signums : SysKill(pid, signum)
  \/ \E pid \in (Pids \ {0}) \union {AnyChild} : SysWaitpid(pid)
  \/ \E ticks \in 0..MaxSleep : SysNanosleep(ticks)

KernelStep ==
  \/ ForkLockStacks \/ ForkBuildStack
  \/ WaitReap \/ WaitYield \/ WaitNoChild
  \/ ReadByte \/ ReadYield \/ NanosleepReturn

Next ==
  \/ SpawnUserProcess \/ StartScheduler
  \/ TimerTick \/ SystemCall \/ KernelStep
  \/ Stopped

Spec == Init /\ [][Next]_vars

=============================================================================
