-------------------------- MODULE SchedulerProps ---------------------------
(***************************************************************************)
(* What the process and scheduling core of the kernel must satisfy, and    *)
(* the statements of its documentation that it does not.                   *)
(***************************************************************************)
EXTENDS Scheduler

(***************************************************************************)
(* Type invariant: PIDs stay within the bound, a fork in progress refers   *)
(* to a slot of the table, and the slice never exceeds the default.        *)
(***************************************************************************)
TypeOK ==
  /\ processes \in [Slots -> Process]
  /\ next_pid \in 1 .. MaxPid + 1
  /\ current_pid \in Pids
  /\ stacks \in [Slots -> [initialised : BOOLEAN, owner : Pids, cont : Continuation]]
  /\ current_slice \in 0 .. DefaultSlice
  /\ cpu \in [at : Points, arg : Args]
  /\ isr \in BOOLEAN
  /\ cpu.at \in {"forkwin", "forkbuild"} => cpu.arg \in Slots
  /\ \A s \in Slots : stacks[s].cont.at \in {"forkwin", "forkbuild"}
                        => stacks[s].cont.arg \in Slots

(***************************************************************************)
(* The table never holds two processes with one PID, a slot is empty       *)
(* exactly when it is Free, no PID is handed out twice, and a process is   *)
(* younger than its parent, so that waiting never runs in a circle.        *)
(***************************************************************************)
TableWellFormed ==
  /\ \A s \in Slots : processes[s].pid = 0 <=> processes[s].state = "Free"
  /\ \A s \in Slots : processes[s].pid < next_pid
  /\ \A s \in Slots : processes[s].pid # 0 => processes[s].parent_pid < processes[s].pid
  /\ \A s, u \in Slots : s # u /\ processes[s].pid = processes[u].pid
                           => processes[s].pid = 0

(***************************************************************************)
(* Once a process was dispatched, current_pid names a process of the table *)
(* that is Running, or dead and still on the CPU; nobody else is Running.  *)
(* user_trampoline and sys_fork unwrap that entry.  After a panic in the   *)
(* out-of-memory path the entry may have been reaped.                      *)
(***************************************************************************)
CurrentOwnsCpu ==
  cpu.at # "panic" =>
    /\ current_pid = 0 <=> cpu.at \in {"boot", "idle"}
    /\ current_pid # 0 =>
         \E s \in Slots : /\ processes[s].pid = current_pid
                          /\ processes[s].state \in {"Running", "Zombie"}
    /\ \A s \in Slots : processes[s].state = "Running"
                          => processes[s].pid = current_pid

(***************************************************************************)
(* Every Ready process has an initialised kernel stack that holds its own  *)
(* context, but for the child of the fork that is just building it.        *)
(***************************************************************************)
RunnableHasContext ==
  \A s \in Slots :
    processes[s].state = "Ready" =>
      \/ stacks[s].initialised /\ stacks[s].owner = processes[s].pid
      \/ cpu.at \in {"forkwin", "forkbuild"} /\ cpu.arg = s

(***************************************************************************)
(* do_context_switch never resumes a context that belongs to a process     *)
(* other than the one it dispatches ("new_rsp must point to a valid kernel *)
(* stack with a saved context").                                           *)
(***************************************************************************)
NeverWild == cpu.at # "wild"

(***************************************************************************)
(* The kernel stops in hlt_loop after an exit only if nobody is Ready: the *)
(* wrap-around scan of find_next_ready misses no process.                  *)
(***************************************************************************)
HaltedMeansNoneReady ==
  cpu.at = "halted" => \A s \in Slots : processes[s].state # "Ready"

-----------------------------------------------------------------------------
(***************************************************************************)
(* A process leaves the table only when its own parent, in waitpid, finds  *)
(* it dead, or in the panic of the out-of-memory path.                     *)
(***************************************************************************)
ReapedByParent ==
  [][\A s \in Slots :
       processes[s].pid # 0 /\ processes'[s].pid # processes[s].pid =>
         \/ cpu'.at = "panic"
         \/ /\ processes[s].state = "Zombie"
            /\ processes[s].parent_pid = current_pid
            /\ cpu.at = "wait" /\ cpu.arg \in {AnyChild, processes[s].pid}]_vars

(***************************************************************************)
(* A dead process that is off the CPU stays dead, keeps its exit code and  *)
(* is never dispatched again, until its slot is freed.                     *)
(***************************************************************************)
DeadStayDead ==
  [][\A s \in Slots :
       processes[s].state = "Zombie" /\ processes[s].pid # current_pid =>
         \/ processes'[s].state = "Free"
         \/ /\ processes'[s].state = "Zombie"
            /\ processes'[s].exit_code = processes[s].exit_code
            /\ current_pid' # processes[s].pid]_vars

(***************************************************************************)
(* A forked process (privilege User) never ends another process: what it   *)
(* does can only make itself a zombie.                                     *)
(***************************************************************************)
UserEndsOnlyItself ==
  [][\A s \in Slots :
       /\ current_pid # 0
       /\ Present(processes, current_pid)
       /\ Proc(processes, current_pid).parent_pid # 0
       /\ processes[s].state # "Zombie" /\ processes'[s].state = "Zombie"
       => processes[s].pid = current_pid]_vars

-----------------------------------------------------------------------------
(***************************************************************************)
(* Liveness.  ExitingPrograms: the CPU goes on executing kernel code and   *)
(* programs do not compute for ever (as long as ring 3 is entered again    *)
(* and again, some program exits).  No timer tick is counted on.           *)
(***************************************************************************)
ExitingPrograms == Spec /\ WF_vars(KernelStep) /\ SF_vars(SysExit)

HasState(pid, state) ==
  \E s \in Slots : processes[s].pid = pid /\ processes[s].state = state

(***************************************************************************)
(* waitpid comes back: a process that waits for a child, on the CPU or     *)
(* switched out in its polling loop, stops waiting when programs exit.     *)
(***************************************************************************)
Waiting(pid) ==
  \/ current_pid = pid /\ cpu.at = "wait"
  \/ \E s \in Slots : /\ processes[s].pid = pid
                      /\ stacks[s].owner = pid /\ stacks[s].cont.at = "wait"

WaitEnds == \A pid \in Pids \ {0} : Waiting(pid) ~> ~Waiting(pid)

-----------------------------------------------------------------------------
(***************************************************************************)
(* Statements of the documentation that the code does not satisfy.         *)
(***************************************************************************)

(***************************************************************************)
(* FairSpec is all that the hardware and the kernel can be asked for: the  *)
(* kernel boots and goes on executing, and a timer tick that can be taken  *)
(* again and again is taken (the controller latches a tick that arrives    *)
(* while interrupts are off).                                              *)
(***************************************************************************)
FairSpec == Spec /\ WF_vars(StartScheduler) /\ WF_vars(KernelStep) /\ SF_vars(TimerTick)

(***************************************************************************)
(* "Preemptive round-robin scheduler": a Ready process is dispatched or    *)
(* killed eventually, also if the program on the CPU never calls the       *)
(* kernel.  (on_timer_tick switches stacks before the tick it runs in is   *)
(* acknowledged, so no second tick ever comes.)                            *)
(***************************************************************************)
NoStarvation ==
  \A pid \in Pids \ {0} : HasState(pid, "Ready") ~> ~HasState(pid, "Ready")

(***************************************************************************)
(* sys_nanosleep: "Sleeps for req_ticks PIT timer ticks", so a sleep ends. *)
(***************************************************************************)
SleepEnds == cpu.at = "sleep" ~> cpu.at # "sleep"

=============================================================================
