----------------------------- MODULE Processes -----------------------------
(***************************************************************************)
(* The process table of the kernel (kernel/src/process.rs), the signal     *)
(* operations on it (kernel/src/signal.rs), the out-of-memory handler      *)
(* (kernel/src/oom.rs) and the privilege check (kernel/src/perm.rs).       *)
(*                                                                         *)
(* The table is a function from slots to process records.  The operators   *)
(* take the table t they work on as an argument, because one system call   *)
(* applies several of them in a row before anybody else can look.          *)
(* Descriptor tables, names and address spaces are modelled elsewhere.     *)
(***************************************************************************)
EXTENDS Integers, FiniteSets, FiniteSetsExt

CONSTANTS NSlots,     \* MAX_PROCESSES
          MaxPid,     \* bound: the largest PID the model hands out
          NServices   \* processes allocated by boot_service and never run

ASSUME NSlotsAssumption == NSlots \in Nat \ {0}
ASSUME MaxPidAssumption == MaxPid \in Nat
ASSUME NServicesAssumption == NServices \in 0..NSlots /\ NServices <= MaxPid

Slots  == 0 .. NSlots - 1
Pids   == 0 .. MaxPid          \* 0: the kernel, or an empty slot
States == {"Free", "Ready", "Running", "Blocked", "Zombie"}

SIGKILL == 9
SIGTERM == 15

Process == [pid : Pids, parent_pid : Pids, state : States,
            pending_signals : SUBSET (0..31), exit_code : Int]

(***************************************************************************)
(* Process::empty and the first free slot of ProcessTable::alloc.          *)
(***************************************************************************)
NewProcess(pid, parent, state) ==
  [pid |-> pid, parent_pid |-> parent, state |-> state,
   pending_signals |-> {}, exit_code |-> 0]

Empty == NewProcess(0, 0, "Free")

Used(t)     == {s \in Slots : t[s].pid # 0}
FreeSlots(t) == Slots \ Used(t)
NextFree(t) == Min(FreeSlots(t))

(***************************************************************************)
(* ProcessTable::get, get_mut and find_slot: the first slot with that PID. *)
(* Callers test Present first, the None of the code.                       *)
(***************************************************************************)
Present(t, pid) == \E s \in Slots : t[s].pid = pid
SlotOf(t, pid)  == Min({s \in Slots : t[s].pid = pid})
Proc(t, pid)    == t[SlotOf(t, pid)]

Alloc(t, pid, parent, state) ==
  [t EXCEPT ![NextFree(t)] = NewProcess(pid, parent, state)]

\* Mutant: the slot is marked Free but keeps its PID.
FreeKeepsPid(t, pid) == [t EXCEPT ![SlotOf(t, pid)].state = "Free"]

Free(t, pid) == [t EXCEPT ![SlotOf(t, pid)] = Empty]

SetState(t, pid, state) == [t EXCEPT ![SlotOf(t, pid)].state = state]

MarkExit(t, pid, code) ==
  [t EXCEPT ![SlotOf(t, pid)].state = "Zombie",
            ![SlotOf(t, pid)].exit_code = code]

Zombies(t) == {s \in Slots : t[s].state = "Zombie"}

ReapZombies(t) == [s \in Slots |-> IF s \in Zombies(t) THEN Empty ELSE t[s]]

-----------------------------------------------------------------------------
(***************************************************************************)
(* Signals.  The bit is 1 << (signum - 1) in a u32: the release build that *)
(* build.sh produces reduces the shift count modulo 32.                    *)
(***************************************************************************)
SignalBit(signum) == (signum - 1) % 32

Terminate(t, s, signum) ==
  [t EXCEPT ![s].pending_signals = {},
            ![s].state = "Zombie",
            ![s].exit_code = 128 + signum]

\* Mutant: a dead process is terminated once more.
SendSignalToDead(t, pid, signum) ==
  LET s == SlotOf(t, pid) IN
  CASE ~Present(t, pid) -> t
    [] Present(t, pid) /\ signum \in {SIGKILL, SIGTERM} -> Terminate(t, s, signum)
    [] OTHER -> [t EXCEPT ![s].pending_signals = @ \union {SignalBit(signum)}]

SendSignal(t, pid, signum) ==
  LET s == SlotOf(t, pid) IN
  CASE ~Present(t, pid) -> t
    [] Present(t, pid) /\ signum \in {SIGKILL, SIGTERM} ->
         IF t[s].state \in {"Free", "Zombie"} THEN t
         ELSE Terminate(t, s, signum)
    [] OTHER -> [t EXCEPT ![s].pending_signals = @ \union {SignalBit(signum)}]

DeliverPending(t, pid) ==
  LET s == SlotOf(t, pid)
      pending == t[s].pending_signals
  IN CASE SignalBit(SIGKILL) \in pending -> Terminate(t, s, SIGKILL)
       [] SignalBit(SIGTERM) \in pending /\ SignalBit(SIGKILL) \notin pending ->
            Terminate(t, s, SIGTERM)
       [] OTHER -> [t EXCEPT ![s].pending_signals =
                      @ \ {SignalBit(SIGKILL), SignalBit(SIGTERM)}]

(***************************************************************************)
(* perm.rs: a process spawned by the kernel (parent 0) is a system         *)
(* process, a forked one a user process without ProcessControl.            *)
(***************************************************************************)
\* Mutant: every process may send signals.
AnyoneMayControl(t, pid) == TRUE

MayControl(t, pid) == Proc(t, pid).parent_pid = 0

(***************************************************************************)
(* oom.rs: zombies are reaped; without zombies the first Ready process     *)
(* with a PID above 2 is killed and reaped; otherwise nothing is found.    *)
(***************************************************************************)
OomVictims(t) == {s \in Slots : t[s].pid > 2 /\ t[s].state = "Ready"}

HandleOom(t) ==
  IF Zombies(t) # {} THEN ReapZombies(t)
  ELSE IF OomVictims(t) # {} THEN [t EXCEPT ![Min(OomVictims(t))] = Empty]
  ELSE t

=============================================================================
