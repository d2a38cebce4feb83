--------------------------- MODULE ContextProofs ---------------------------
(***************************************************************************)
(* What every step of the scheduler does to a process, and what the kernel *)
(* guarantees about saved contexts as it is built, for every size of the   *)
(* table and every history.                                                *)
(*                                                                         *)
(* The first part derives three action properties from CoreInv.  The       *)
(* second part needs an invariant of its own, ContextInv, because the      *)
(* guarantees about contexts rest on an accident of the code: the first    *)
(* switch out of the timer handler loses the end-of-interrupt command, so  *)
(* that no tick can reach the window in which fork has published a child   *)
(* that has no stack.                                                      *)
(***************************************************************************)
EXTENDS SchedulerProofs

-----------------------------------------------------------------------------
(***************************************************************************)
(* The effect of schedule and switch_to_next on the table: a process is    *)
(* replaced by nobody, a dead one is left alone and not dispatched, and    *)
(* nobody dies.                                                            *)
(***************************************************************************)
Rescheduled(t) ==
  /\ SamePids(t, processes')
  /\ \A s \in Slots : t[s].state = "Zombie" => processes'[s] = t[s]
  /\ \A s \in Slots : processes'[s].state = "Zombie" => t[s].state = "Zombie"
  /\ \A s \in Slots : t[s].state = "Zombie" /\ t[s].pid # current_pid
                        => current_pid' # t[s].pid

LEMMA SwitchEffect ==
  ASSUME NEW t, TableOK(t, next_pid), NEW k,
         NEW new \in Pids \ {0}, Present(t, new),
         t[SlotOf(t, new)].state = "Ready",
         current_pid \in Pids, current_pid # 0 => Present(t, current_pid),
         \A s \in Slots : t[s].state = "Running" => t[s].pid = current_pid,
         NEW c, NEW i, NEW slice, DoContextSwitch(t, k, new, c, i, slice)
  PROVE  Rescheduled(t)
<1> DEFINE n == SlotOf(t, new)
<1>1. /\ n \in Slots /\ t[n].pid = new
      /\ \A s \in Slots : t[s].pid = new => s = n
  BY PresentSlot
<1>2. \A s \in Slots : t[s].state = "Zombie" => t[s].pid # new
  BY <1>1
<1>3. \A s \in Slots : t[s] \in Process
  BY DEF TableOK
<1>4. CASE StacksLocked \/ ~k[n].initialised
  <2>1. /\ processes' = IF ~StacksLocked /\ t[n].state = "Ready"
                        THEN SetState(t, new, "Blocked") ELSE t
        /\ current_pid' = current_pid
    BY <1>4 DEF DoContextSwitch
  <2>2. "Blocked" \in States \ {"Free"}
    BY DEF States
  <2>3. CASE processes' = t
    BY <2>1, <2>3 DEF Rescheduled, SamePids, TableOK
  <2>4. CASE processes' = SetState(t, new, "Blocked")
    <3>1. /\ SamePids(t, processes')
          /\ \A s \in Slots : processes'[s] =
               IF t[s].pid = new THEN [t[s] EXCEPT !.state = "Blocked"] ELSE t[s]
      BY <2>2, <2>4, SetStateOK
    <3>2. \A s \in Slots : t[s].pid = new => processes'[s].state = "Blocked"
      BY <1>3, <3>1 DEF Process
    <3> QED BY <1>2, <2>1, <3>1, <3>2 DEF Rescheduled
  <2> QED BY <2>1, <2>3, <2>4
<1>5. CASE ~(StacksLocked \/ ~k[n].initialised)
  <2>1. processes' = SwitchedStates(t, new) /\ current_pid' = new
    BY <1>5 DEF DoContextSwitch
  <2>2. /\ SamePids(t, processes') /\ OwnerOK(processes', new)
        /\ \A s \in Slots : t[s].pid \notin {new, current_pid} => processes'[s] = t[s]
        /\ \A s \in Slots : t[s].pid # new /\ t[s].state # "Running" => processes'[s] = t[s]
        /\ \A s \in Slots : t[s].pid = current_pid /\ t[s].pid # new
                                /\ t[s].state = "Running"
                              => processes'[s] = [t[s] EXCEPT !.state = "Ready"]
    BY <2>1, SwitchedStatesOK
  <2>3. \A s \in Slots : t[s].pid = current_pid /\ t[s].pid # new
                           /\ t[s].state = "Running" => processes'[s].state = "Ready"
    BY <1>3, <2>2 DEF Process
  <2>4. \A s \in Slots : t[s].pid = new => processes'[s].state # "Zombie"
    <3>1. processes' = SetState(IF current_pid # 0 /\ Proc(t, current_pid).state = "Running"
                                THEN SetState(t, current_pid, "Ready") ELSE t, new, "Running")
      BY <2>1 DEF SwitchedStates
    <3> DEFINE old == IF current_pid # 0 /\ Proc(t, current_pid).state = "Running"
                      THEN SetState(t, current_pid, "Ready") ELSE t
    <3>2. SamePids(t, old)
      <4>1. "Ready" \in States \ {"Free"}
        BY DEF States
      <4>2. current_pid # 0 => SamePids(t, SetState(t, current_pid, "Ready"))
        BY <4>1, SetStateOK
      <4>3. SamePids(t, t)
        BY DEF SamePids, TableOK
      <4> QED BY <4>2, <4>3
    <3>3. TableOK(old, next_pid) /\ Present(old, new) /\ "Running" \in States \ {"Free"}
      <4> HIDE DEF old
      <4> QED BY <3>2, SamePidsOK DEF Present, SamePids, States
    <3>4. processes' = SetState(old, new, "Running")
      BY <3>1
    <3> HIDE DEF old
    <3>5. \A s \in Slots : processes'[s] = IF old[s].pid = new
                             THEN [old[s] EXCEPT !.state = "Running"] ELSE old[s]
      BY <3>3, <3>4, SetStateOK
    <3> QED BY <3>2, <3>5 DEF SamePids, Process
  <2> QED BY <1>2, <2>1, <2>2, <2>3, <2>4 DEF Rescheduled
<1> QED BY <1>4, <1>5

LEMMA ScheduleEffect ==
  ASSUME NEW t, TableOK(t, next_pid), current_pid \in Pids, OwnerOK(t, current_pid),
         NEW c, NEW i, NEW slice,
         Schedule(t, c, i, slice) \/ SwitchToNext(t, c)
  PROVE  Rescheduled(t)
<1> DEFINE new == FindNextReady(t, current_pid)
<1>1. CASE new \in {0, current_pid}
  <2>1. processes' = t /\ current_pid' = current_pid
    BY <1>1 DEF Schedule, SwitchToNext
  <2> QED BY <2>1 DEF Rescheduled, SamePids, TableOK
<1>2. CASE new \notin {0, current_pid}
  <2>1. PICK j, l : DoContextSwitch(t, stacks, new, c, j, l)
    BY <1>2 DEF Schedule, SwitchToNext
  <2>2. new \in Pids \ {0} /\ Present(t, new)
        /\ \E s \in Slots : t[s].pid = new /\ t[s].state = "Ready"
    BY <1>2, NextReadyOK DEF Present
  <2>3. current_pid # 0 => Present(t, current_pid)
    BY DEF OwnerOK, Present
  <2>4. \A s \in Slots : t[s].state = "Running" => t[s].pid = current_pid
    BY DEF OwnerOK
  <2> HIDE DEF new
  <2>5. t[SlotOf(t, new)].state = "Ready"
    BY <2>2, PresentSlot
  <2> QED BY <2>1, <2>2, <2>3, <2>4, <2>5, SwitchEffect
<1> QED BY <1>1, <1>2

-----------------------------------------------------------------------------
(***************************************************************************)
(* The bodies of the three action properties, for one slot.                *)
(***************************************************************************)
Reaped(s) ==
  processes[s].pid # 0 /\ processes'[s].pid # processes[s].pid =>
    \/ cpu'.at = "panic"
    \/ /\ processes[s].state = "Zombie"
       /\ processes[s].parent_pid = current_pid
       /\ cpu.at = "wait" /\ cpu.arg \in {AnyChild, processes[s].pid}

Dead(s) ==
  processes[s].state = "Zombie" /\ processes[s].pid # current_pid =>
    \/ processes'[s].state = "Free"
    \/ /\ processes'[s].state = "Zombie"
       /\ processes'[s].exit_code = processes[s].exit_code
       /\ current_pid' # processes[s].pid

EndsItself(s) ==
  /\ current_pid # 0
  /\ Present(processes, current_pid)
  /\ Proc(processes, current_pid).parent_pid # 0
  /\ processes[s].state # "Zombie" /\ processes'[s].state = "Zombie"
  => processes[s].pid = current_pid

StepOK == \A s \in Slots : Reaped(s) /\ Dead(s) /\ EndsItself(s)

(***************************************************************************)
(* A step that first strikes the current process (exit, fault, a delivered *)
(* signal, or nothing at all) and then reschedules.                        *)
(***************************************************************************)
LEMMA StrikeAndSwitch ==
  ASSUME TableOK(processes, next_pid), NEW t, Struck(processes, t, current_pid),
         Rescheduled(t)
  PROVE  StepOK
BY DEF TableOK, Struck, SamePids, Rescheduled, StepOK, Reaped, Dead, EndsItself

LEMMA StrikeOnly ==
  ASSUME TableOK(processes, next_pid), Struck(processes, processes', current_pid),
         current_pid' = current_pid
  PROVE  StepOK
BY DEF TableOK, Struck, SamePids, StepOK, Reaped, Dead, EndsItself

LEMMA TableKept ==
  ASSUME TableOK(processes, next_pid), UNCHANGED <<processes, current_pid>>
  PROVE  StepOK
<1>1. Struck(processes, processes', current_pid)
  BY StruckRefl
<1> QED BY <1>1, StrikeOnly

LEMMA AllocEffect ==
  ASSUME TableOK(processes, next_pid), next_pid \in 1..MaxPid, FreeSlots(processes) # {},
         NEW parent \in Pids, parent < next_pid,
         processes' = Alloc(processes, next_pid, parent, "Ready"),
         current_pid' = current_pid
  PROVE  StepOK
<1> DEFINE f == NextFree(processes)
<1>1. f \in Slots /\ processes[f].pid = 0 /\ processes[f].state = "Free"
  BY NextFreeSlot DEF TableOK
<1>2. "Ready" \in States \ {"Free"}
  BY DEF States
<1>3. /\ \A s \in Slots \ {f} : processes'[s] = processes[s]
      /\ processes'[f] = NewProcess(next_pid, parent, "Ready")
  BY <1>2, AllocOK
<1>4. processes'[f].state = "Ready"
  BY <1>3 DEF NewProcess
<1> HIDE DEF f
<1> QED BY <1>1, <1>3, <1>4 DEF StepOK, Reaped, Dead, EndsItself

LEMMA TickEffect ==
  ASSUME CoreInv, TimerTick
  PROVE  StepOK
<1>1. cpu.at # "panic"
  BY DEF TimerTick, TickExpired, TickDeliver, TickIdle, TakeTimerIrq, InterruptsEnabled
<1>2. TableOK(processes, next_pid) /\ RestOK
  BY <1>1, CoreRest
<1>3. current_pid \in Pids /\ OwnerOK(processes, current_pid)
  BY <1>2 DEF RestOK
<1>4. CASE TickExpired
  <2>1. Schedule(processes, Interrupted, ~AutoEoi, 0)
    BY <1>4 DEF TickExpired
  <2>2. Rescheduled(processes)
    BY <1>2, <1>3, <2>1, ScheduleEffect
  <2>3. Struck(processes, processes, current_pid)
    BY <1>2, StruckRefl
  <2> QED BY <1>2, <2>2, <2>3, StrikeAndSwitch
<1>5. CASE TickDeliver
  <2> DEFINE t == DeliverPending(processes, current_pid)
  <2>1. current_pid # 0
    BY <1>5 DEF TickDeliver
  <2>2. Struck(processes, t, current_pid)
    BY <1>2, <2>1, CurrentPresent, DeliverPendingOK
  <2>3. TableOK(t, next_pid) /\ OwnerOK(t, current_pid)
    BY <1>2, <1>3, <2>2, SamePidsOK, StruckOwner DEF Struck
  <2>4. \/ Schedule(t, Interrupted, ~AutoEoi, SliceAfterTick)
        \/ processes' = t /\ UNCHANGED current_pid
    BY <1>5 DEF TickDeliver
  <2> HIDE DEF t
  <2>5. CASE Schedule(t, Interrupted, ~AutoEoi, SliceAfterTick)
    <3>1. Rescheduled(t)
      BY <1>3, <2>3, <2>5, ScheduleEffect
    <3> QED BY <1>2, <2>2, <3>1, StrikeAndSwitch
  <2>6. CASE processes' = t /\ UNCHANGED current_pid
    BY <1>2, <2>2, <2>6, StrikeOnly
  <2> QED BY <2>4, <2>5, <2>6
<1>6. CASE TickIdle
  BY <1>2, <1>6, TableKept DEF TickIdle
<1> QED BY <1>4, <1>5, <1>6 DEF TimerTick

LEMMA CallEffect ==
  ASSUME CoreInv, SystemCall
  PROVE  StepOK
<1>1. cpu.at = "user"
  BY DEF SystemCall, SysExit, PageFault, FatalFault, SysFork, SysExec, SysReadStdin,
         AllocError, SysKill, SysWaitpid, SysNanosleep, Calling
<1>2. TableOK(processes, next_pid) /\ next_pid \in 1 .. MaxPid + 1 /\ RestOK
  BY <1>1, CoreRest
<1>3. current_pid \in Pids \ {0} /\ Present(processes, current_pid)
  BY <1>1, <1>2, CurrentPresent DEF RestOK
<1>4. OwnerOK(processes, current_pid)
  BY <1>2 DEF RestOK
<1>5. ASSUME NEW code \in Int,
             SwitchToNext(MarkExit(processes, current_pid, code), Cont(At("halted", 0), FALSE))
      PROVE  StepOK
  <2> DEFINE t == MarkExit(processes, current_pid, code)
  <2>1. Struck(processes, t, current_pid)
    BY <1>2, <1>3, MarkExitOK
  <2>2. TableOK(t, next_pid) /\ OwnerOK(t, current_pid)
    BY <1>2, <1>4, <2>1, SamePidsOK, StruckOwner DEF Struck
  <2>3. SwitchToNext(t, Cont(At("halted", 0), FALSE))
    BY <1>5
  <2> HIDE DEF t
  <2>4. Rescheduled(t)
    BY <1>3, <2>2, <2>3, ScheduleEffect
  <2> QED BY <1>2, <2>1, <2>4, StrikeAndSwitch
<1>6. CASE SysExit
  <2>1. SwitchToNext(MarkExit(processes, current_pid, 0), Cont(At("halted", 0), FALSE))
    BY <1>6 DEF SysExit
  <2>2. 0 \in Int
    OBVIOUS
  <2> QED BY <1>5, <2>1, <2>2, Zenon
<1>7. CASE PageFault
  <2>1. SwitchToNext(MarkExit(processes, current_pid, 139), Cont(At("halted", 0), FALSE))
    BY <1>7 DEF PageFault
  <2>2. 139 \in Int
    OBVIOUS
  <2> QED BY <1>5, <2>1, <2>2, Zenon
<1>8. CASE FatalFault \/ SysReadStdin
  BY <1>2, <1>8, TableKept DEF FatalFault, SysReadStdin
<1>9. CASE SysFork
  <2>1. next_pid \in 1..MaxPid /\ current_pid \in Pids /\ current_pid < next_pid
    BY <1>2, <1>3, <1>9, MaxPidAssumption DEF SysFork, Pids, TableOK, Present
  <2> QED BY <1>2, <1>9, <2>1, AllocEffect DEF SysFork
<1>10. CASE SysExec
  <2> DEFINE k == [stacks EXCEPT ![SlotOf(processes, current_pid)] = FreshStack(current_pid)]
             t == SetState(processes, current_pid, "Ready")
  <2>1. DoContextSwitch(t, k, current_pid, Cont(cpu, FALSE), isr, current_slice)
    BY <1>10 DEF SysExec
  <2>2. "Ready" \in States \ {"Free"}
    BY DEF States
  <2>3. /\ SamePids(processes, t)
        /\ \A s \in Slots : t[s] = IF processes[s].pid = current_pid
                     THEN [processes[s] EXCEPT !.state = "Ready"] ELSE processes[s]
    BY <1>2, <1>3, <2>2, SetStateOK
  <2>4. TableOK(t, next_pid) /\ Present(t, current_pid)
    BY <1>2, <1>3, <2>3, SamePidsOK DEF Present, SamePids
  <2>5. \A s \in Slots : /\ processes[s].pid = current_pid => t[s].state = "Ready"
                         /\ processes[s].pid # current_pid => t[s] = processes[s]
    BY <1>2, <2>3 DEF TableOK, Process
  <2>6. \A s \in Slots : t[s].state = "Running" => t[s].pid = current_pid
    BY <1>4, <2>5, <2>3 DEF OwnerOK, SamePids
  <2> HIDE DEF t, k
  <2>7. t[SlotOf(t, current_pid)].state = "Ready"
    BY <1>3, <2>3, <2>4, <2>5, PresentSlot DEF SamePids
  <2>8. Rescheduled(t)
    BY <1>3, <2>1, <2>4, <2>6, <2>7, SwitchEffect
  <2> QED BY <2>3, <2>5, <2>8 DEF Rescheduled, SamePids, StepOK, Reaped, Dead, EndsItself
<1>11. CASE AllocError
  <2>1. cpu'.at = "panic" /\ processes' = HandleOom(processes) /\ current_pid' = current_pid
    BY <1>11 DEF AllocError, At
  <2>2. Empty.state = "Free"
    BY DEF Empty, NewProcess
  <2>3. \A s \in Slots : \/ processes'[s] = Empty
                         \/ processes'[s] = processes[s] /\ processes[s].state # "Zombie"
    <3>1. CASE Zombies(processes) # {}
      BY <2>1, <3>1 DEF HandleOom, ReapZombies, Zombies
    <3>2. CASE Zombies(processes) = {}
      <4>1. \A s \in Slots : processes[s].state # "Zombie"
        BY <3>2 DEF Zombies
      <4>2. \/ processes' = processes
            \/ processes' = [processes EXCEPT ![Min(OomVictims(processes))] = Empty]
        BY <2>1, <3>2 DEF HandleOom
      <4> QED BY <1>2, <4>1, <4>2 DEF TableOK
    <3> QED BY <3>1, <3>2
  <2> QED BY <2>1, <2>2, <2>3 DEF StepOK, Reaped, Dead, EndsItself
<1>12. ASSUME NEW pid \in Pids \ {0}, NEW signum \in Signums, SysKill(pid, signum)
       PROVE  StepOK
  <2>1. /\ processes' = SendSignal(processes, pid, signum) /\ signum \in 1..255
        /\ current_pid' = current_pid /\ Proc(processes, current_pid).parent_pid = 0
    BY <1>12, SignumsAssumption DEF SysKill, MayControl
  <2>2. /\ Struck(processes, processes', pid)
        /\ \A s \in Slots : processes[s].state = "Zombie" =>
              processes'[s].exit_code = processes[s].exit_code
    <3> DEFINE u == SendSignal(processes, pid, signum)
    <3>1. signum \in 1..255 /\ pid \in Pids \ {0} /\ TableOK(processes, next_pid)
      BY <1>2, <2>1
    <3>2. /\ Struck(processes, u, pid)
          /\ \A s \in Slots : processes[s].state = "Zombie" =>
                u[s].exit_code = processes[s].exit_code
      BY <3>1, SendSignalOK, Zenon
    <3> QED BY <2>1, <3>2
  <2> QED BY <2>1, <2>2 DEF Struck, SamePids, StepOK, Reaped, Dead, EndsItself
<1>13. ASSUME NEW pid, SysWaitpid(pid)
       PROVE  StepOK
  BY <1>2, <1>13, TableKept DEF SysWaitpid
<1>14. ASSUME NEW ticks, SysNanosleep(ticks)
       PROVE  StepOK
  BY <1>2, <1>14, TableKept DEF SysNanosleep
<1> QED BY <1>6, <1>7, <1>8, <1>9, <1>10, <1>11, <1>12, <1>13, <1>14 DEF SystemCall

LEMMA KernelEffect ==
  ASSUME CoreInv, KernelStep
  PROVE  StepOK
<1>1. cpu.at \in {"forkwin", "forkbuild", "wait", "read", "sleep"}
  BY DEF KernelStep, ForkLockStacks, ForkBuildStack, WaitReap, WaitYield, WaitNoChild,
         ReadByte, ReadYield, NanosleepReturn
<1>2. TableOK(processes, next_pid) /\ RestOK
  BY <1>1, CoreRest
<1>3. current_pid \in Pids /\ OwnerOK(processes, current_pid)
  BY <1>2 DEF RestOK
<1>4. ASSUME Schedule(processes, Cont(cpu, FALSE), isr, current_slice)
      PROVE  StepOK
  <2>1. Rescheduled(processes)
    BY <1>2, <1>3, <1>4, ScheduleEffect
  <2>2. Struck(processes, processes, current_pid)
    BY <1>2, StruckRefl
  <2> QED BY <1>2, <2>1, <2>2, StrikeAndSwitch
<1>5. CASE WaitReap
  <2> DEFINE m == Min(Matching)
  <2>1. /\ m \in Matching /\ m \in Slots
        /\ processes' = [processes EXCEPT ![m] = Empty]
    BY <1>2, <1>5, FirstChildOK DEF WaitReap, Free
  <2>2. /\ processes[m].state = "Zombie" /\ processes[m].parent_pid = current_pid
        /\ cpu.at = "wait" /\ cpu.arg \in {AnyChild, processes[m].pid}
        /\ current_pid' = current_pid
    BY <1>5, <2>1 DEF WaitReap, FirstChild, Matching
  <2> HIDE DEF m
  <2>3. /\ \A s \in Slots \ {m} : processes'[s] = processes[s]
        /\ processes'[m] = Empty /\ Empty.state = "Free"
    BY <1>2, <2>1 DEF TableOK, Empty, NewProcess
  <2> QED BY <2>1, <2>2, <2>3 DEF StepOK, Reaped, Dead, EndsItself
<1>6. CASE WaitYield \/ ReadYield
  BY <1>4, <1>6 DEF WaitYield, ReadYield
<1>7. CASE ForkLockStacks \/ ForkBuildStack \/ WaitNoChild \/ ReadByte \/ NanosleepReturn
  BY <1>2, <1>7, TableKept
  DEF ForkLockStacks, ForkBuildStack, WaitNoChild, ReadByte, NanosleepReturn
<1> QED BY <1>5, <1>6, <1>7 DEF KernelStep

LEMMA StepEffect == CoreInv /\ [Next]_vars => [StepOK]_vars
<1> SUFFICES ASSUME CoreInv, Next
             PROVE  StepOK \/ UNCHANGED vars
  OBVIOUS
<1>1. TableOK(processes, next_pid) /\ next_pid \in 1 .. MaxPid + 1
  BY DEF CoreInv
<1>2. CASE SpawnUserProcess
  <2>1. next_pid \in 1..MaxPid /\ 0 \in Pids /\ 0 < next_pid
    BY <1>1, <1>2, MaxPidAssumption DEF SpawnUserProcess, Pids
  <2> QED BY <1>1, <1>2, <2>1, AllocEffect DEF SpawnUserProcess
<1>3. CASE StartScheduler
  BY <1>1, <1>3, TableKept DEF StartScheduler
<1>4. CASE Stopped
  BY <1>4 DEF Stopped
<1> QED BY <1>2, <1>3, <1>4, TickEffect, CallEffect, KernelEffect DEF Next

(***************************************************************************)
(* Only waitpid of its parent, once it is dead, or the panic of the        *)
(* out-of-memory path takes a process out of the table: whatever fork,     *)
(* exit, kill, exec and the scheduler do in between.                       *)
(***************************************************************************)
THEOREM OnlyParentReaps == Spec => ReapedByParent
<1>1. Init => CoreInv
  BY InitOK
<1>2. CoreInv /\ [Next]_vars => [\A s \in Slots : Reaped(s)]_vars
  BY StepEffect DEF StepOK
<1> QED BY <1>1, <1>2, CoreStep, PTL DEF Spec, ReapedByParent, Reaped

(***************************************************************************)
(* Death is final: a zombie that has left the CPU is never dispatched,     *)
(* revived or given another exit code, by signals, by the scheduler or by  *)
(* the reuse of slots.                                                     *)
(***************************************************************************)
THEOREM DeathIsFinal == Spec => DeadStayDead
<1>1. Init => CoreInv
  BY InitOK
<1>2. CoreInv /\ [Next]_vars => [\A s \in Slots : Dead(s)]_vars
  BY StepEffect DEF StepOK
<1> QED BY <1>1, <1>2, CoreStep, PTL DEF Spec, DeadStayDead, Dead

(***************************************************************************)
(* A forked process ends nobody but itself: the check of perm.rs in kill   *)
(* is the only way to strike another process.                              *)
(***************************************************************************)
THEOREM ForkedEndOnlyThemselves == Spec => UserEndsOnlyItself
<1>1. Init => CoreInv
  BY InitOK
<1>2. CoreInv /\ [Next]_vars => [\A s \in Slots : EndsItself(s)]_vars
  BY StepEffect DEF StepOK
<1> QED BY <1>1, <1>2, CoreStep, PTL DEF Spec, UserEndsOnlyItself, EndsItself

-----------------------------------------------------------------------------
(***************************************************************************)
(* The contexts that wait in KERNEL_STACKS, for the controller as pic8259  *)
(* programs it.  Everybody Ready can be resumed, at a point that is not    *)
(* the hlt_loop of an exit; no saved context owes an end-of-interrupt      *)
(* command, so that the in-service bit stays set once a process runs; and  *)
(* whoever is on the CPU has a stack to be saved on.                       *)
(***************************************************************************)
HasContext(t, k, s) ==
  k[s].initialised /\ k[s].owner = t[s].pid /\ k[s].cont.at # "halted"

ForkWindow(s) == cpu.at \in {"forkwin", "forkbuild"} /\ cpu.arg = s

SavedOK(k) == \A s \in Slots : k[s].cont.irq = FALSE /\ k[s].cont.at # "wild"

HasStack(t, k, pid) == \A s \in Slots : pid # 0 /\ t[s].pid = pid => k[s].initialised

ReadyHave(t, k) == \A s \in Slots : t[s].state = "Ready" => HasContext(t, k, s)

ContextInv ==
  /\ current_pid # 0 => isr = TRUE
  /\ SavedOK(stacks)
  /\ HasStack(processes, stacks, current_pid)
  /\ \A s \in Slots : processes[s].state = "Ready" =>
                        HasContext(processes, stacks, s) \/ ForkWindow(s)
  /\ cpu.at # "wild"
  /\ cpu.at = "halted" => \A s \in Slots : processes[s].state # "Ready"

LEMMA ContextInvImplies ==
  ContextInv => /\ RunnableHasContext /\ NeverWild /\ HaltedMeansNoneReady
                /\ current_pid # 0 => isr
BY DEF ContextInv, RunnableHasContext, NeverWild, HaltedMeansNoneReady, HasContext,
       ForkWindow

(***************************************************************************)
(* do_context_switch to a Ready process: its context is resumed, and the   *)
(* one that is saved makes the old process resumable.                      *)
(***************************************************************************)
LEMMA SwitchContext ==
  ASSUME NEW t, TableOK(t, next_pid), NEW k, StacksOK(k), SavedOK(k), ReadyHave(t, k),
         NEW new \in Pids \ {0}, Present(t, new), t[SlotOf(t, new)].state = "Ready",
         current_pid \in Pids, current_pid # 0 => Present(t, current_pid),
         \A s \in Slots : t[s].state = "Running" => t[s].pid = current_pid,
         HasStack(t, k, current_pid), ~StacksLocked,
         NEW c, ContOK(c), current_pid # 0 => c.irq = FALSE /\ c.at # "wild",
         \A s \in Slots : t[s].pid = current_pid /\ current_pid # new
                             /\ c.at = "halted" => t[s].state = "Zombie",
         NEW slice, DoContextSwitch(t, k, new, c, TRUE, slice)
  PROVE  ContextInv'
<1> DEFINE n == SlotOf(t, new)
<1>1. /\ n \in Slots /\ t[n].pid = new
      /\ \A s \in Slots : t[s].pid = new => s = n
  BY PresentSlot
<1>2. k[n].initialised /\ k[n].owner = new /\ k[n].cont.at # "halted"
  BY <1>1 DEF ReadyHave, HasContext
<1>3. k[n].cont.irq = FALSE /\ k[n].cont.at # "wild"
  BY <1>1 DEF SavedOK
<1>4. /\ processes' = SwitchedStates(t, new)
      /\ stacks' = SavedStacks(t, k, new, c)
      /\ current_pid' = new
      /\ cpu' = At(k[n].cont.at, k[n].cont.arg) /\ isr' = (TRUE /\ ~k[n].cont.irq)
  BY <1>2 DEF DoContextSwitch, Resume
<1> HIDE DEF n
<1>5. isr' = TRUE /\ cpu'.at # "wild" /\ cpu'.at # "halted"
  BY <1>2, <1>3, <1>4 DEF At
<1>6. /\ SamePids(t, processes') /\ OwnerOK(processes', new)
      /\ \A s \in Slots : t[s].pid \notin {new, current_pid} => processes'[s] = t[s]
      /\ \A s \in Slots : t[s].pid # new /\ t[s].state # "Running" => processes'[s] = t[s]
  BY <1>4, SwitchedStatesOK
<1>7. /\ StacksOK(stacks')
      /\ \A s \in Slots : t[s].pid = new => stacks'[s] = Spent(stacks'[s])
      /\ \A s \in Slots : t[s].pid # new /\ current_pid # 0 /\ t[s].pid = current_pid =>
           stacks'[s].owner = current_pid /\ stacks'[s].cont = c
      /\ \A s \in Slots : t[s].pid # new /\ ~(current_pid # 0 /\ t[s].pid = current_pid) =>
           stacks'[s] = k[s]
      /\ \A s \in Slots : stacks'[s].initialised = k[s].initialised
  BY <1>4, SavedStacksOK
<1>8. \A s \in Slots : stacks'[s] \in Stack /\ k[s] \in Stack
  BY <1>7 DEF StacksOK
<1>9. \A s \in Slots : t[s].pid = new =>
        stacks'[s].cont.irq = FALSE /\ stacks'[s].cont.at # "wild"
  <2>1. ASSUME NEW s \in Slots, t[s].pid = new
        PROVE  stacks'[s].cont.irq = FALSE /\ stacks'[s].cont.at # "wild"
    <3>1. stacks'[s] = Spent(stacks'[s]) /\ stacks'[s] \in Stack
      BY <1>7, <1>8, <2>1
    <3>2. Spent(stacks'[s]).cont.at = "user" /\ Spent(stacks'[s]).cont.irq = FALSE
      BY <3>1, SpentOK
    <3> QED BY <3>1, <3>2
  <2> QED BY <2>1
<1>10. SavedOK(stacks')
  BY <1>7, <1>9 DEF SavedOK
<1>11. HasStack(processes', stacks', new)
  <2>1. \A s \in Slots : processes'[s].pid = new => s = n
    BY <1>1, <1>6 DEF SamePids
  <2>2. stacks'[n].initialised = k[n].initialised
    BY <1>1, <1>7
  <2> QED BY <1>2, <2>1, <2>2, Zenon DEF HasStack
<1>12. ASSUME NEW s \in Slots, processes'[s].state = "Ready"
       PROVE  HasContext(processes', stacks', s)
  <2>1. t[s].pid # new
    <3>1. PICK u \in Slots : processes'[u].pid = new
                             /\ processes'[u].state \in {"Running", "Zombie"}
      BY <1>6 DEF OwnerOK
    <3> QED BY <1>1, <1>6, <1>12, <3>1 DEF SamePids
  <2>2. CASE current_pid # 0 /\ t[s].pid = current_pid
    <3>1. k[s].initialised /\ stacks'[s].initialised = k[s].initialised
      BY <1>7, <2>2 DEF HasStack
    <3>2. c.at # "halted"
      BY <1>6, <1>12, <2>1, <2>2
    <3> QED BY <1>6, <1>7, <2>1, <2>2, <3>1, <3>2 DEF HasContext, SamePids
  <2>3. CASE ~(current_pid # 0 /\ t[s].pid = current_pid)
    <3>1. processes'[s] = t[s]
      <4>1. t[s].pid = current_pid => t[s].state # "Running"
        BY <2>3 DEF TableOK
      <4> QED BY <1>6, <2>1, <4>1
    <3>2. HasContext(t, k, s)
      BY <1>12, <3>1 DEF ReadyHave
    <3> QED BY <1>7, <2>1, <2>3, <3>1, <3>2 DEF HasContext
  <2> QED BY <2>2, <2>3
<1> QED BY <1>4, <1>5, <1>10, <1>11, <1>12 DEF ContextInv

(***************************************************************************)
(* schedule and switch_to_next, returning to c when nobody else is Ready:  *)
(* to the hlt_loop only for a dead process, which is never the next one.   *)
(***************************************************************************)
LEMMA ScheduleContext ==
  ASSUME NEW t, TableOK(t, next_pid), StacksOK(stacks), SavedOK(stacks),
         ReadyHave(t, stacks), current_pid \in Pids, OwnerOK(t, current_pid),
         HasStack(t, stacks, current_pid), ~StacksLocked,
         NEW c, ContOK(c), current_pid # 0 => c.irq = FALSE, c.at # "wild",
         c.at = "halted" => \A s \in Slots : t[s].pid = current_pid => t[s].state = "Zombie",
         NEW slice,
         Schedule(t, c, TRUE, slice) \/ (SwitchToNext(t, c) /\ isr = TRUE)
  PROVE  ContextInv'
<1> DEFINE new == FindNextReady(t, current_pid)
<1>1. /\ new = 0 => \A s \in Slots : t[s].state # "Ready"
      /\ new # 0 => /\ new \in Pids \ {0}
                    /\ \E s \in Slots : t[s].pid = new /\ t[s].state = "Ready"
  BY NextReadyOK
<1>2. CASE new \in {0, current_pid}
  <2>1. /\ processes' = t /\ current_pid' = current_pid /\ stacks' = stacks
        /\ cpu' = At(c.at, c.arg) /\ isr' = (TRUE /\ ~c.irq)
    BY <1>2 DEF Schedule, SwitchToNext, Resume
  <2>2. cpu'.at = c.at /\ (current_pid # 0 => isr' = TRUE)
    BY <2>1 DEF At
  <2>3. c.at = "halted" => \A s \in Slots : t[s].state # "Ready"
    <3> HIDE DEF new
    <3>1. CASE new = 0
      BY <1>1, <3>1
    <3>2. CASE new = current_pid /\ new # 0
      <4>1. PICK s \in Slots : t[s].pid = current_pid /\ t[s].state = "Ready"
        BY <1>1, <3>2
      <4> QED BY <4>1
    <3> QED BY <1>2, <3>1, <3>2
  <2> QED BY <2>1, <2>2, <2>3 DEF ContextInv, ReadyHave
<1>3. CASE new \notin {0, current_pid}
  <2>1. PICK l : DoContextSwitch(t, stacks, new, c, TRUE, l)
    BY <1>3 DEF Schedule, SwitchToNext
  <2>2. Present(t, new) /\ (current_pid # 0 => Present(t, current_pid))
    BY <1>1, <1>3 DEF OwnerOK, Present
  <2>3. \A s \in Slots : t[s].state = "Running" => t[s].pid = current_pid
    BY DEF OwnerOK
  <2> HIDE DEF new
  <2>4. new \in Pids \ {0}
    BY <1>1, <1>3
  <2>5. t[SlotOf(t, new)].state = "Ready"
    BY <1>1, <1>3, <2>2, <2>4, PresentSlot
  <2> QED BY <2>1, <2>2, <2>3, <2>4, <2>5, SwitchContext
<1> QED BY <1>2, <1>3

LEMMA ContextInit == Init => ContextInv
<1> SUFFICES ASSUME Init PROVE ContextInv
  OBVIOUS
<1>1. current_pid = 0 /\ cpu.at = "boot"
  BY DEF Init, At
<1>2. NoStack.cont.at = "user" /\ NoStack.cont.irq = FALSE
  BY DEF NoStack, StackWith, Cont, At
<1>3. \A s \in Slots : stacks[s] = NoStack
  BY DEF Init
<1>4. \A s \in Slots : processes[s].state # "Ready"
  BY DEF Init, NewProcess, Empty
<1> QED BY <1>1, <1>2, <1>3, <1>4 DEF ContextInv, SavedOK, HasStack

LEMMA ContextBoot ==
  ASSUME CoreInv, ContextInv, SpawnUserProcess \/ StartScheduler
  PROVE  ContextInv'
<1>1. cpu.at = "boot"
  BY DEF SpawnUserProcess, StartScheduler
<1>2. TableOK(processes, next_pid) /\ next_pid \in 1 .. MaxPid + 1 /\ RestOK
  BY <1>1, CoreRest
<1>3. current_pid = 0 /\ StacksOK(stacks)
  BY <1>1, <1>2 DEF RestOK
<1>4. CASE SpawnUserProcess
  <2> USE <1>4 DEF SpawnUserProcess
  <2> DEFINE f == NextFree(processes)
             st == FreshStack(next_pid)
  <2>1. next_pid \in 1..MaxPid /\ 0 \in Pids /\ 0 < next_pid /\ next_pid \in Pids
        /\ "Ready" \in States \ {"Free"}
    BY <1>2, MaxPidAssumption DEF Pids, States
  <2>2. /\ \A s \in Slots \ {f} : processes'[s] = processes[s]
        /\ processes'[f] = NewProcess(next_pid, 0, "Ready")
    BY <1>2, <2>1, AllocOK
  <2>3. processes'[f].pid = next_pid
    BY <2>2 DEF NewProcess
  <2>4. f \in Slots
    BY NextFreeSlot
  <2>5. st.cont.at = "user" /\ st.owner = next_pid /\ st.initialised /\ st.cont.irq = FALSE
    BY <2>1, FreshStackOK
  <2>6. stacks' = [stacks EXCEPT ![f] = st] /\ UNCHANGED <<current_pid, cpu, isr>>
    OBVIOUS
  <2> HIDE DEF f, st
  <2>7. stacks'[f] = st /\ \A s \in Slots \ {f} : stacks'[s] = stacks[s]
    BY <1>3, <2>4, <2>6 DEF StacksOK
  <2>8. SavedOK(stacks')
    BY <2>5, <2>7 DEF ContextInv, SavedOK
  <2>9. \A s \in Slots : processes'[s].state = "Ready" => HasContext(processes', stacks', s)
    BY <1>1, <2>2, <2>3, <2>5, <2>7 DEF ContextInv, HasContext, ForkWindow
  <2> QED BY <1>1, <1>3, <2>6, <2>8, <2>9 DEF ContextInv, HasStack
<1>5. CASE StartScheduler
  <2>1. cpu'.at = "idle" /\ UNCHANGED <<processes, current_pid, stacks, isr>>
    BY <1>5 DEF StartScheduler, At
  <2>2. \A s \in Slots : processes[s].state = "Ready" => HasContext(processes, stacks, s)
    BY <1>1 DEF ContextInv, ForkWindow
  <2> QED BY <2>1, <2>2 DEF ContextInv, HasContext
<1> QED BY <1>4, <1>5

(***************************************************************************)
(* Without automatic acknowledgement a tick is taken only in the idle      *)
(* loop, before the first process was dispatched.                          *)
(***************************************************************************)
LEMMA ContextTick ==
  ASSUME ~AutoEoi, CoreInv, ContextInv, TimerTick
  PROVE  ContextInv'
<1>1. ~isr /\ cpu.at \in {"idle", "user", "forkwin", "forkbuild"}
  BY DEF TimerTick, TickExpired, TickDeliver, TickIdle, TakeTimerIrq, InterruptsEnabled
<1>2. TableOK(processes, next_pid) /\ RestOK
  BY <1>1, CoreRest
<1>3. current_pid = 0
  BY <1>1 DEF ContextInv
<1>4. cpu.at = "idle"
  BY <1>1, <1>2, <1>3 DEF RestOK
<1>5. ContOK(Interrupted) /\ Interrupted.at = "idle"
  BY <1>2, <1>4, ContinuationsOK DEF Interrupted, Cont
<1>6. ReadyHave(processes, stacks)
  BY <1>4 DEF ContextInv, ForkWindow, ReadyHave
<1>7. CASE TickExpired
  <2>1. Schedule(processes, Interrupted, TRUE, 0)
    BY <1>7 DEF TickExpired
  <2>2. StacksOK(stacks) /\ current_pid \in Pids /\ OwnerOK(processes, current_pid)
    BY <1>2 DEF RestOK
  <2>3. ~StacksLocked
    BY <1>4 DEF StacksLocked
  <2>4. SavedOK(stacks) /\ HasStack(processes, stacks, current_pid)
    BY DEF ContextInv
  <2> QED BY <1>2, <1>3, <1>5, <1>6, <2>1, <2>2, <2>3, <2>4, ScheduleContext
<1>8. CASE TickDeliver
  BY <1>3, <1>8 DEF TickDeliver
<1>9. CASE TickIdle
  <2>1. cpu'.at = "idle" /\ UNCHANGED <<processes, current_pid, stacks>>
    BY <1>5, <1>9 DEF TickIdle, Resume, At
  <2> QED BY <1>3, <1>6, <2>1 DEF ContextInv, ReadyHave, HasContext
<1> QED BY <1>7, <1>8, <1>9 DEF TimerTick

(***************************************************************************)
(* A process that is struck loses no context, and nobody becomes Ready.    *)
(***************************************************************************)
LEMMA StruckContext ==
  ASSUME NEW t, NEW u, NEW pid, NEW k, Struck(t, u, pid)
  PROVE  /\ ReadyHave(t, k) => ReadyHave(u, k)
         /\ \A cur : HasStack(t, k, cur) => HasStack(u, k, cur)
<1>1. ReadyHave(t, k) => ReadyHave(u, k)
  BY DEF Struck, SamePids, ReadyHave, HasContext
<1>2. \A cur : HasStack(t, k, cur) => HasStack(u, k, cur)
  BY DEF Struck, SamePids, HasStack
<1> QED BY <1>1, <1>2

LEMMA ContextCall ==
  ASSUME CoreInv, ContextInv, SystemCall
  PROVE  ContextInv'
<1>1. cpu.at = "user"
  BY DEF SystemCall, SysExit, PageFault, FatalFault, SysFork, SysExec, SysReadStdin,
         AllocError, SysKill, SysWaitpid, SysNanosleep, Calling
<1>2. TableOK(processes, next_pid) /\ next_pid \in 1 .. MaxPid + 1 /\ RestOK
  BY <1>1, CoreRest
<1>3. current_pid \in Pids \ {0} /\ Present(processes, current_pid)
  BY <1>1, <1>2, CurrentPresent DEF RestOK
<1>4. StacksOK(stacks) /\ OwnerOK(processes, current_pid) /\ ~StacksLocked
  BY <1>1, <1>2 DEF RestOK, StacksLocked
<1>5. /\ isr = TRUE /\ SavedOK(stacks) /\ HasStack(processes, stacks, current_pid)
      /\ ReadyHave(processes, stacks)
  BY <1>1, <1>3 DEF ContextInv, ForkWindow, ReadyHave
<1>6. ContOK(Cont(At("halted", 0), FALSE)) /\ ContOK(Cont(cpu, FALSE))
  BY <1>2, <1>3, ContinuationsOK
<1>7. ASSUME NEW code \in Int,
             SwitchToNext(MarkExit(processes, current_pid, code), Cont(At("halted", 0), FALSE))
      PROVE  ContextInv'
  <2> DEFINE t == MarkExit(processes, current_pid, code)
             c == Cont(At("halted", 0), FALSE)
  <2>1. Struck(processes, t, current_pid) /\ t[SlotOf(processes, current_pid)].state = "Zombie"
    BY <1>2, <1>3, MarkExitOK
  <2>2. TableOK(t, next_pid) /\ OwnerOK(t, current_pid)
    BY <1>2, <1>4, <2>1, SamePidsOK, StruckOwner DEF Struck
  <2>3. SwitchToNext(t, c)
    BY <1>7
  <2>4. c.irq = FALSE /\ c.at = "halted"
    BY DEF Cont, At
  <2> HIDE DEF t, c
  <2>5. ReadyHave(t, stacks) /\ HasStack(t, stacks, current_pid)
    BY <1>5, <2>1, StruckContext
  <2>6. \A s \in Slots : t[s].pid = current_pid => t[s].state = "Zombie"
    <3>1. \A s \in Slots : t[s].pid = current_pid => s = SlotOf(processes, current_pid)
      BY <1>2, <1>3, <2>1, PresentSlot DEF Struck, SamePids
    <3> QED BY <2>1, <3>1
  <2>7. ContOK(c)
    BY <1>6 DEF c
  <2> QED BY <1>3, <1>4, <1>5, <2>2, <2>3, <2>4, <2>5, <2>6, <2>7, ScheduleContext
<1>8. CASE SysExit
  <2>1. SwitchToNext(MarkExit(processes, current_pid, 0), Cont(At("halted", 0), FALSE))
    BY <1>8 DEF SysExit
  <2>2. 0 \in Int
    OBVIOUS
  <2> QED BY <1>7, <2>1, <2>2, Zenon
<1>9. CASE PageFault
  <2>1. SwitchToNext(MarkExit(processes, current_pid, 139), Cont(At("halted", 0), FALSE))
    BY <1>9 DEF PageFault
  <2>2. 139 \in Int
    OBVIOUS
  <2> QED BY <1>7, <2>1, <2>2, Zenon
<1>10. ASSUME NEW p, p \in {"wait", "read", "sleep", "panic", "user"}, cpu'.at = p,
              UNCHANGED <<current_pid, stacks, isr>>,
              ReadyHave(processes', stacks), HasStack(processes', stacks, current_pid)
       PROVE  ContextInv'
  BY <1>5, <1>10 DEF ContextInv, ReadyHave, HasContext, HasStack, SavedOK
<1>11. CASE FatalFault \/ SysReadStdin
  <2>1. cpu'.at \in {"read", "panic"} /\ UNCHANGED <<processes, current_pid, stacks, isr>>
    BY <1>11 DEF FatalFault, SysReadStdin, At
  <2>2. ReadyHave(processes', stacks) /\ HasStack(processes', stacks, current_pid)
    BY <1>5, <2>1
  <2> QED BY <1>10, <2>1, <2>2
<1>12. CASE SysFork
  <2> USE <1>12 DEF SysFork
  <2> DEFINE f == NextFree(processes)
  <2>1. next_pid \in 1..MaxPid /\ current_pid \in Pids /\ current_pid < next_pid
        /\ "Ready" \in States \ {"Free"}
    BY <1>2, <1>3, MaxPidAssumption DEF Pids, States, TableOK, Present
  <2>2. /\ \A s \in Slots \ {f} : processes'[s] = processes[s]
        /\ processes'[f] = NewProcess(next_pid, current_pid, "Ready")
    BY <1>2, <2>1, AllocOK
  <2>3. processes'[f].pid # current_pid
    BY <2>1, <2>2 DEF NewProcess, Pids
  <2>4. cpu'.at = "forkwin" /\ cpu'.arg = f /\ UNCHANGED <<current_pid, stacks, isr>>
    BY DEF At
  <2> HIDE DEF f
  <2>5. \A s \in Slots : processes'[s].state = "Ready" =>
                         HasContext(processes', stacks', s) \/ ForkWindow(s)'
    BY <1>5, <2>2, <2>4 DEF ReadyHave, HasContext, ForkWindow
  <2>6. HasStack(processes', stacks', current_pid')
    BY <1>5, <2>2, <2>3, <2>4 DEF HasStack
  <2> QED BY <1>5, <2>4, <2>5, <2>6 DEF ContextInv, SavedOK
<1>13. CASE SysExec
  <2> DEFINE f == SlotOf(processes, current_pid)
             k == [stacks EXCEPT ![f] = FreshStack(current_pid)]
             t == SetState(processes, current_pid, "Ready")
             c == Cont(cpu, FALSE)
  <2>1. DoContextSwitch(t, k, current_pid, c, TRUE, current_slice)
    BY <1>5, <1>13 DEF SysExec
  <2>2. "Ready" \in States \ {"Free"}
    BY DEF States
  <2>3. /\ SamePids(processes, t)
        /\ \A s \in Slots : t[s] = IF processes[s].pid = current_pid
                     THEN [processes[s] EXCEPT !.state = "Ready"] ELSE processes[s]
    BY <1>2, <1>3, <2>2, SetStateOK
  <2>4. TableOK(t, next_pid) /\ Present(t, current_pid)
    BY <1>2, <1>3, <2>3, SamePidsOK DEF Present, SamePids
  <2>5. \A s \in Slots : /\ processes[s].pid = current_pid => t[s].state = "Ready"
                         /\ processes[s].pid # current_pid => t[s] = processes[s]
                         /\ t[s].pid = processes[s].pid
    BY <1>2, <2>3, ZenonT(30) DEF TableOK, Process, SamePids
  <2>6. \A s \in Slots : t[s].state = "Running" => t[s].pid = current_pid
    BY <1>4, <2>5 DEF OwnerOK
  <2>7. f \in Slots /\ \A s \in Slots : processes[s].pid = current_pid <=> s = f
    BY <1>2, <1>3, PresentSlot
  <2> DEFINE st == FreshStack(current_pid)
  <2>8. /\ st \in Stack /\ PointOK(st.cont) /\ st.cont.at = "user"
        /\ st.initialised /\ st.owner = current_pid /\ st.cont.irq = FALSE
    BY <1>3, FreshStackOK
  <2>9. c.irq = FALSE /\ c.at = "user" /\ ContOK(c)
    BY <1>1, <1>6 DEF Cont
  <2> HIDE DEF f, st, c, t
  <2>10. /\ StacksOK(k) /\ k[f] = st
         /\ \A s \in Slots \ {f} : k[s] = stacks[s]
    BY <1>4, <2>7, <2>8 DEF StacksOK, st
  <2> HIDE DEF k
  <2>11. SavedOK(k)
    BY <1>5, <2>8, <2>10 DEF SavedOK
  <2>12. ReadyHave(t, k)
    BY <1>5, <2>5, <2>7, <2>8, <2>10 DEF ReadyHave, HasContext
  <2>13. HasStack(t, k, current_pid)
    BY <2>5, <2>7, <2>8, <2>10 DEF HasStack
  <2>14. t[SlotOf(t, current_pid)].state = "Ready"
    BY <1>3, <2>4, <2>5, PresentSlot
  <2> QED BY <1>3, <1>4, <2>1, <2>4, <2>6, <2>9, <2>10, <2>11, <2>12, <2>13, <2>14,
             SwitchContext
<1>14. CASE AllocError
  <2>1. cpu'.at = "panic" /\ processes' = HandleOom(processes)
        /\ UNCHANGED <<current_pid, stacks, isr>>
    BY <1>14 DEF AllocError, At
  <2>2. Empty.state = "Free" /\ Empty.pid = 0
    BY DEF Empty, NewProcess
  <2>3. \A s \in Slots : processes'[s] \in {Empty, processes[s]}
    <3>1. CASE Zombies(processes) # {}
      BY <2>1, <3>1 DEF HandleOom, ReapZombies
    <3>2. CASE Zombies(processes) = {}
      <4>1. \/ processes' = processes
            \/ processes' = [processes EXCEPT ![Min(OomVictims(processes))] = Empty]
        BY <2>1, <3>2 DEF HandleOom
      <4> QED BY <1>2, <4>1 DEF TableOK
    <3> QED BY <3>1, <3>2
  <2>4. ReadyHave(processes', stacks) /\ HasStack(processes', stacks, current_pid)
    BY <1>3, <1>5, <2>2, <2>3 DEF ReadyHave, HasContext, HasStack
  <2> QED BY <1>10, <2>1, <2>4
<1>15. ASSUME NEW pid \in Pids \ {0}, NEW signum \in Signums, SysKill(pid, signum)
       PROVE  ContextInv'
  <2>1. /\ processes' = SendSignal(processes, pid, signum) /\ signum \in 1..255
        /\ UNCHANGED <<current_pid, stacks, isr, cpu>>
    BY <1>15, SignumsAssumption DEF SysKill
  <2>2. Struck(processes, processes', pid)
    BY <1>2, <2>1, SendSignalOK
  <2>3. ReadyHave(processes', stacks) /\ HasStack(processes', stacks, current_pid)
    BY <1>5, <2>2, StruckContext
  <2> QED BY <1>1, <1>10, <2>1, <2>3
<1>16. ASSUME NEW pid, SysWaitpid(pid)
       PROVE  ContextInv'
  BY <1>5, <1>10, <1>16 DEF SysWaitpid, At
<1>17. ASSUME NEW ticks, SysNanosleep(ticks)
       PROVE  ContextInv'
  BY <1>5, <1>10, <1>17 DEF SysNanosleep, At
<1> QED BY <1>8, <1>9, <1>11, <1>12, <1>13, <1>14, <1>15, <1>16, <1>17 DEF SystemCall

LEMMA ContextKernel ==
  ASSUME CoreInv, ContextInv, KernelStep
  PROVE  ContextInv'
<1>1. cpu.at \in {"forkwin", "forkbuild", "wait", "read", "sleep"}
  BY DEF KernelStep, ForkLockStacks, ForkBuildStack, WaitReap, WaitYield, WaitNoChild,
         ReadByte, ReadYield, NanosleepReturn
<1>2. TableOK(processes, next_pid) /\ RestOK
  BY <1>1, CoreRest
<1>3. current_pid \in Pids \ {0} /\ Present(processes, current_pid)
  BY <1>1, <1>2, CurrentPresent DEF RestOK
<1>4. StacksOK(stacks) /\ OwnerOK(processes, current_pid)
  BY <1>2 DEF RestOK
<1>5. isr = TRUE /\ SavedOK(stacks) /\ HasStack(processes, stacks, current_pid)
  BY <1>3 DEF ContextInv
<1>6. ASSUME cpu.at \in {"wait", "read", "sleep"}
      PROVE  ReadyHave(processes, stacks)
  BY <1>6 DEF ContextInv, ForkWindow, ReadyHave
<1>7. ASSUME cpu.at \in {"wait", "read"},
             Schedule(processes, Cont(cpu, FALSE), isr, current_slice)
      PROVE  ContextInv'
  <2> DEFINE c == Cont(cpu, FALSE)
  <2>1. ContOK(c) /\ c.irq = FALSE /\ c.at \in {"wait", "read"}
    BY <1>2, <1>7, ContinuationsOK DEF Cont
  <2>2. Schedule(processes, c, TRUE, current_slice) /\ ~StacksLocked
    BY <1>5, <1>7 DEF StacksLocked
  <2> HIDE DEF c
  <2> QED BY <1>2, <1>3, <1>4, <1>5, <1>6, <1>7, <2>1, <2>2, ScheduleContext
<1>8. CASE WaitYield \/ ReadYield
  BY <1>7, <1>8 DEF WaitYield, ReadYield
<1>9. CASE WaitNoChild \/ ReadByte \/ NanosleepReturn
  <2>1. cpu.at \in {"wait", "read", "sleep"} /\ cpu'.at = "user"
        /\ UNCHANGED <<processes, current_pid, stacks, isr>>
    BY <1>9 DEF WaitNoChild, ReadByte, NanosleepReturn, At
  <2> QED BY <1>5, <1>6, <2>1 DEF ContextInv, ReadyHave, HasContext
<1>10. CASE WaitReap
  <2> DEFINE m == Min(Matching)
  <2>1. m \in Slots /\ processes' = [processes EXCEPT ![m] = Empty]
    BY <1>2, <1>10, FirstChildOK DEF WaitReap, Free
  <2>2. cpu.at = "wait" /\ cpu'.at = "user" /\ UNCHANGED <<current_pid, stacks, isr>>
    BY <1>10 DEF WaitReap, At
  <2> HIDE DEF m
  <2>3. /\ \A s \in Slots : processes'[s] \in {Empty, processes[s]}
        /\ Empty.state = "Free" /\ Empty.pid = 0
    BY <1>2, <2>1 DEF TableOK, Empty, NewProcess
  <2>4. ReadyHave(processes', stacks) /\ HasStack(processes', stacks, current_pid)
    BY <1>3, <1>5, <1>6, <2>2, <2>3 DEF ReadyHave, HasContext, HasStack
  <2> QED BY <1>5, <2>2, <2>4 DEF ContextInv, ReadyHave, HasContext
<1>11. CASE ForkLockStacks
  <2>1. cpu.at = "forkwin" /\ cpu'.at = "forkbuild" /\ cpu'.arg = cpu.arg
        /\ UNCHANGED <<processes, current_pid, stacks, isr>>
    BY <1>11 DEF ForkLockStacks, At
  <2> QED BY <2>1 DEF ContextInv, HasContext, ForkWindow
<1>12. CASE ForkBuildStack
  <2> DEFINE f == cpu.arg
             st == FreshStack(processes[f].pid)
  <2>1. /\ cpu.at = "forkbuild" /\ cpu'.at = "user"
        /\ stacks' = [stacks EXCEPT ![f] = st]
        /\ UNCHANGED <<processes, current_pid, isr>>
    BY <1>12 DEF ForkBuildStack, At
  <2>2. f \in Slots /\ processes[f].pid \in Pids
    BY <1>2, <2>1 DEF RestOK, PointOK, TableOK, Process
  <2>3. /\ st.cont.at = "user" /\ st.owner = processes[f].pid
        /\ st.initialised /\ st.cont.irq = FALSE
    BY <2>2, FreshStackOK
  <2> HIDE DEF st, f
  <2>4. stacks'[f] = st /\ \A s \in Slots \ {f} : stacks'[s] = stacks[s]
    BY <1>4, <2>1, <2>2 DEF StacksOK
  <2>5. SavedOK(stacks')
    BY <1>5, <2>3, <2>4 DEF SavedOK
  <2>6. HasStack(processes', stacks', current_pid')
    BY <1>5, <2>1, <2>3, <2>4 DEF HasStack
  <2>7. \A s \in Slots : processes'[s].state = "Ready" => HasContext(processes', stacks', s)
    BY <2>1, <2>3, <2>4 DEF ContextInv, HasContext, ForkWindow, f
  <2> QED BY <1>5, <2>1, <2>5, <2>6, <2>7 DEF ContextInv
<1> QED BY <1>8, <1>9, <1>10, <1>11, <1>12 DEF KernelStep

LEMMA ContextStep == ~AutoEoi /\ CoreInv /\ ContextInv /\ [Next]_vars => ContextInv'
<1> SUFFICES ASSUME ~AutoEoi, CoreInv, ContextInv, [Next]_vars
             PROVE  ContextInv'
  OBVIOUS
<1>1. CASE UNCHANGED vars
  BY <1>1 DEF vars, ContextInv, SavedOK, HasStack, HasContext, ForkWindow
<1>2. CASE Next
  BY <1>1, <1>2, ContextBoot, ContextTick, ContextCall, ContextKernel DEF Next, Stopped
<1> QED BY <1>1, <1>2

LEMMA ContextsKept == Spec => [](~AutoEoi => ContextInv)
<1>1. Init => CoreInv /\ (~AutoEoi => ContextInv)
  BY InitOK, ContextInit
<1>2. CoreInv /\ (~AutoEoi => ContextInv) /\ [Next]_vars
        => CoreInv' /\ (~AutoEoi => ContextInv)'
  BY CoreStep, ContextStep
<1> QED BY <1>1, <1>2, PTL DEF Spec

-----------------------------------------------------------------------------
(***************************************************************************)
(* Why the kernel does not preempt, for every number of slots, processes   *)
(* and ticks: with a controller that does not acknowledge by itself, the   *)
(* first tick that dispatches a process is never acknowledged, and no      *)
(* timer interrupt is taken again.                                         *)
(***************************************************************************)
THEOREM TicksEnd == Spec => [](~AutoEoi /\ current_pid # 0 => ~TakeTimerIrq)
<1>1. (~AutoEoi => ContextInv) => (~AutoEoi /\ current_pid # 0 => ~TakeTimerIrq)
  BY ContextInvImplies DEF TakeTimerIrq
<1> QED BY <1>1, ContextsKept, PTL

(***************************************************************************)
(* As built, every Ready process has an initialised kernel stack with its  *)
(* own context, except the child of the fork in progress: for any number   *)
(* of forks, exits, execs and reused slots.                                *)
(***************************************************************************)
THEOREM ReadyCanRun == Spec => [](~AutoEoi => RunnableHasContext)
<1>1. (~AutoEoi => ContextInv) => (~AutoEoi => RunnableHasContext)
  BY ContextInvImplies
<1> QED BY <1>1, ContextsKept, PTL

(***************************************************************************)
(* As built, do_context_switch never resumes a context that belongs to     *)
(* another process.                                                        *)
(***************************************************************************)
THEOREM NoWildSwitch == Spec => [](~AutoEoi => NeverWild)
<1>1. (~AutoEoi => ContextInv) => (~AutoEoi => NeverWild)
  BY ContextInvImplies
<1> QED BY <1>1, ContextsKept, PTL

(***************************************************************************)
(* As built, an exit leaves the CPU halted only when nobody is Ready: a    *)
(* dead process's hlt_loop is never resumed in place of a living one.      *)
(***************************************************************************)
THEOREM HaltsOnlyWhenIdle == Spec => [](~AutoEoi => HaltedMeansNoneReady)
<1>1. (~AutoEoi => ContextInv) => (~AutoEoi => HaltedMeansNoneReady)
  BY ContextInvImplies
<1> QED BY <1>1, ContextsKept, PTL

=============================================================================
