-------------------------- MODULE SchedulerProofs --------------------------
(***************************************************************************)
(* The process table and the scheduler, for every number of slots, every   *)
(* PID bound, every slice, every set of calls and signals, and both kinds  *)
(* of interrupt controller.                                                *)
(*                                                                         *)
(* The inductive invariant CoreInv joins what cannot be proved apart: the  *)
(* table is well formed, so that SlotOf finds the slot of a PID; the       *)
(* current process owns the CPU, so that a switch demotes the one Running  *)
(* process; and each saved continuation is one at which a process may be   *)
(* resumed.  The lemmas follow the code: the operators of the table, the   *)
(* scan of find_next_ready, the context switch, then one per action.       *)
(***************************************************************************)
EXTENDS SchedulerProps, Least

LEMMA SlotsNat == Slots \subseteq Nat /\ 0 \in Slots
BY NSlotsAssumption DEF Slots

LEMMA SlotOfPresent ==
  ASSUME NEW t, NEW pid, Present(t, pid)
  PROVE  SlotOf(t, pid) \in Slots /\ t[SlotOf(t, pid)].pid = pid
<1> DEFINE S == {s \in Slots : t[s].pid = pid}
<1>1. S \in SUBSET Nat /\ S # {}
  BY SlotsNat DEF Present
<1>2. Min(S) \in S
  BY <1>1, MinOfNat
<1> QED BY <1>2 DEF SlotOf

LEMMA NextFreeSlot ==
  ASSUME NEW t, FreeSlots(t) # {}
  PROVE  NextFree(t) \in Slots /\ t[NextFree(t)].pid = 0
<1>1. FreeSlots(t) \in SUBSET Nat
  BY SlotsNat DEF FreeSlots
<1>2. NextFree(t) \in FreeSlots(t)
  BY <1>1, MinOfNat DEF NextFree
<1> QED BY <1>2 DEF FreeSlots, Used

LEMMA RingSlot ==
  ASSUME NEW a \in Nat
  PROVE  a % NSlots \in Slots
BY NSlotsAssumption DEF Slots

LEMMA RingCovers ==
  ASSUME NEW b \in Slots, NEW s \in Slots
  PROVE  \E i \in 1..NSlots : (b + i) % NSlots = s
<1>1. CASE s > b
  <2>1. s - b \in 1..NSlots /\ b + (s - b) = s
    BY <1>1, NSlotsAssumption DEF Slots
  <2>2. s % NSlots = s
    BY NSlotsAssumption DEF Slots
  <2> QED BY <2>1, <2>2
<1>2. CASE s <= b
  <2>1. s - b + NSlots \in 1..NSlots /\ b + (s - b + NSlots) = s + NSlots
    BY <1>2, NSlotsAssumption DEF Slots
  <2>2. (s + NSlots) % NSlots = s
    BY NSlotsAssumption DEF Slots
  <2> QED BY <2>1, <2>2
<1> QED BY <1>1, <1>2, NSlotsAssumption DEF Slots

-----------------------------------------------------------------------------
(***************************************************************************)
(* The inductive invariant, in parts that also make sense for the tables   *)
(* and stacks that occur in the middle of a step.                          *)
(***************************************************************************)
TableOK(t, np) ==
  /\ t \in [Slots -> Process]
  /\ \A s \in Slots : t[s].pid = 0 <=> t[s].state = "Free"
  /\ \A s \in Slots : t[s].pid < np
  /\ \A s \in Slots : t[s].pid # 0 => t[s].parent_pid < t[s].pid
  /\ \A s, u \in Slots : s # u /\ t[s].pid = t[u].pid => t[s].pid = 0

OwnerOK(t, cur) ==
  /\ cur # 0 => \E s \in Slots : t[s].pid = cur /\ t[s].state \in {"Running", "Zombie"}
  /\ \A s \in Slots : t[s].state = "Running" => t[s].pid = cur

PointOK(c) ==
  /\ c.at \in Points \ {"panic"} /\ c.arg \in Args
  /\ c.at \in {"forkwin", "forkbuild"} => c.arg \in Slots

Stack == [initialised : BOOLEAN, owner : Pids, cont : Continuation]

StacksOK(k) ==
  /\ k \in [Slots -> Stack]
  /\ \A s \in Slots : PointOK(k[s].cont) /\ k[s].cont.at \notin {"boot", "idle"}

CoreInv ==
  /\ TableOK(processes, next_pid)
  /\ next_pid \in 1 .. MaxPid + 1
  /\ current_pid \in Pids
  /\ StacksOK(stacks)
  /\ current_slice \in 0 .. DefaultSlice
  /\ cpu \in [at : Points, arg : Args]
  /\ isr \in BOOLEAN
  /\ cpu.at # "panic" => /\ PointOK(cpu)
                         /\ current_pid = 0 <=> cpu.at \in {"boot", "idle"}
                         /\ OwnerOK(processes, current_pid)

LEMMA CoreInvImplies == CoreInv => TypeOK /\ TableWellFormed /\ CurrentOwnsCpu
BY DEF CoreInv, TypeOK, TableWellFormed, CurrentOwnsCpu, TableOK, OwnerOK,
       PointOK, StacksOK, Stack

(***************************************************************************)
(* The operators of process.rs and signal.rs.                              *)
(***************************************************************************)
SamePids(t, u) ==
  /\ u \in [Slots -> Process]
  /\ \A s \in Slots : /\ u[s].pid = t[s].pid
                      /\ u[s].parent_pid = t[s].parent_pid
                      /\ u[s].state = "Free" <=> t[s].state = "Free"

LEMMA SamePidsOK ==
  ASSUME NEW t, NEW u, NEW np, TableOK(t, np), SamePids(t, u)
  PROVE  TableOK(u, np)
BY DEF TableOK, SamePids

LEMMA AllocOK ==
  ASSUME NEW t, NEW np \in 1..MaxPid, TableOK(t, np), FreeSlots(t) # {},
         NEW parent \in Pids, parent < np, NEW st \in States \ {"Free"}
  PROVE  /\ TableOK(Alloc(t, np, parent, st), np + 1)
         /\ \A s \in Slots \ {NextFree(t)} : Alloc(t, np, parent, st)[s] = t[s]
         /\ Alloc(t, np, parent, st)[NextFree(t)] = NewProcess(np, parent, st)
<1> DEFINE f == NextFree(t)
           p == NewProcess(np, parent, st)
           u == Alloc(t, np, parent, st)
<1>1. f \in Slots /\ t[f].pid = 0
  BY NextFreeSlot
<1>2. p \in Process /\ p.pid = np /\ p.parent_pid = parent /\ p.state = st
  <2>1. np \in Pids /\ st \in States /\ {} \in SUBSET (0..31) /\ 0 \in Int
    BY MaxPidAssumption DEF Pids
  <2> QED BY <2>1 DEF Process, NewProcess
<1>3. u = [t EXCEPT ![f] = p] /\ t \in [Slots -> Process]
  BY DEF Alloc, TableOK
<1>4. u[f] = p /\ u \in [Slots -> Process] /\ \A s \in Slots \ {f} : u[s] = t[s]
  <2> HIDE DEF p, u, f
  <2> QED BY <1>1, <1>2, <1>3
<1>5. \A s \in Slots : t[s].pid \in Pids
  BY <1>3 DEF Process
<1>6. TableOK(u, np + 1)
  <2> HIDE DEF p, u, f
  <2> QED BY <1>1, <1>2, <1>4, <1>5 DEF TableOK, Pids
<1> QED BY <1>4, <1>6

(***************************************************************************)
(* Replacing the record of a used slot by one with the same PIDs.          *)
(***************************************************************************)
LEMMA UpdateOK ==
  ASSUME NEW t, NEW np, TableOK(t, np), NEW f \in Slots, t[f].pid # 0,
         NEW p \in Process, p.pid = t[f].pid, p.parent_pid = t[f].parent_pid,
         p.state # "Free"
  PROVE  /\ SamePids(t, [t EXCEPT ![f] = p])
         /\ [t EXCEPT ![f] = p][f] = p
         /\ \A s \in Slots \ {f} : [t EXCEPT ![f] = p][s] = t[s]
<1>1. t \in [Slots -> Process] /\ t[f].state # "Free"
  BY DEF TableOK
<1> QED BY <1>1 DEF SamePids

LEMMA PresentSlot ==
  ASSUME NEW t, NEW np, TableOK(t, np), NEW pid \in Pids \ {0}, Present(t, pid)
  PROVE  /\ SlotOf(t, pid) \in Slots /\ t[SlotOf(t, pid)].pid = pid
         /\ t[SlotOf(t, pid)] \in Process
         /\ t[SlotOf(t, pid)].state # "Free"
         /\ \A s \in Slots : t[s].pid = pid => s = SlotOf(t, pid)
<1>1. SlotOf(t, pid) \in Slots /\ t[SlotOf(t, pid)].pid = pid
  BY SlotOfPresent
<1> QED BY <1>1 DEF TableOK

LEMMA SetStateOK ==
  ASSUME NEW t, NEW np, TableOK(t, np), NEW pid \in Pids \ {0}, Present(t, pid),
         NEW st \in States \ {"Free"}
  PROVE  /\ SamePids(t, SetState(t, pid, st))
         /\ \A s \in Slots : SetState(t, pid, st)[s] =
              IF t[s].pid = pid THEN [t[s] EXCEPT !.state = st] ELSE t[s]
<1> DEFINE f == SlotOf(t, pid)
           p == [t[f] EXCEPT !.state = st]
<1>1. f \in Slots /\ t[f].pid = pid /\ t[f] \in Process
      /\ \A s \in Slots : t[s].pid = pid => s = f
  BY PresentSlot
<1>2. p \in Process /\ p.pid = t[f].pid /\ p.parent_pid = t[f].parent_pid /\ p.state = st
  BY <1>1 DEF Process
<1>3. SetState(t, pid, st) = [t EXCEPT ![f] = p]
  BY DEF SetState
<1> HIDE DEF f
<1>4. /\ SamePids(t, [t EXCEPT ![f] = p])
      /\ [t EXCEPT ![f] = p][f] = p
      /\ \A s \in Slots \ {f} : [t EXCEPT ![f] = p][s] = t[s]
  <2> HIDE DEF p
  <2> QED BY <1>1, <1>2, UpdateOK
<1> QED BY <1>1, <1>3, <1>4

(***************************************************************************)
(* What mark_exit, the signal operations and DeliverPending have in        *)
(* common: they change at most the process pid, and a changed state is     *)
(* Zombie.                                                                 *)
(***************************************************************************)
Struck(t, u, pid) ==
  /\ SamePids(t, u)
  /\ \A s \in Slots : t[s].pid # pid => u[s] = t[s]
  /\ \A s \in Slots : u[s].state \in {t[s].state, "Zombie"}

LEMMA StruckSlot ==
  ASSUME NEW t, NEW np, TableOK(t, np), NEW pid \in Pids \ {0}, Present(t, pid),
         NEW p \in Process, p.pid = pid,
         p.parent_pid = t[SlotOf(t, pid)].parent_pid,
         p.state \in {t[SlotOf(t, pid)].state, "Zombie"}
  PROVE  /\ Struck(t, [t EXCEPT ![SlotOf(t, pid)] = p], pid)
         /\ [t EXCEPT ![SlotOf(t, pid)] = p][SlotOf(t, pid)] = p
<1> DEFINE f == SlotOf(t, pid)
<1>1. f \in Slots /\ t[f].pid = pid /\ t[f] \in Process /\ t[f].state # "Free"
  BY PresentSlot
<1>2. p.state # "Free"
  BY <1>1
<1> HIDE DEF f
<1>3. /\ SamePids(t, [t EXCEPT ![f] = p])
      /\ [t EXCEPT ![f] = p][f] = p
      /\ \A s \in Slots \ {f} : [t EXCEPT ![f] = p][s] = t[s]
  BY <1>1, <1>2, UpdateOK DEF f
<1> QED BY <1>1, <1>3 DEF Struck, f

LEMMA MarkExitOK ==
  ASSUME NEW t, NEW np, TableOK(t, np), NEW pid \in Pids \ {0}, Present(t, pid),
         NEW code \in Int
  PROVE  /\ Struck(t, MarkExit(t, pid, code), pid)
         /\ MarkExit(t, pid, code)[SlotOf(t, pid)].state = "Zombie"
<1> DEFINE f == SlotOf(t, pid)
           p == [t[f] EXCEPT !.state = "Zombie", !.exit_code = code]
<1>1. f \in Slots /\ t[f].pid = pid /\ t[f] \in Process
  BY PresentSlot
<1>2. p \in Process /\ p.pid = pid /\ p.parent_pid = t[f].parent_pid /\ p.state = "Zombie"
  BY <1>1 DEF Process, States
<1>3. MarkExit(t, pid, code) = [t EXCEPT ![f] = p]
  BY <1>1 DEF MarkExit, TableOK
<1> HIDE DEF p
<1>4. p.state \in {t[f].state, "Zombie"}
  BY <1>2
<1>5. /\ Struck(t, [t EXCEPT ![f] = p], pid)
      /\ [t EXCEPT ![f] = p][f] = p
  BY <1>2, <1>4, StruckSlot
<1> QED BY <1>2, <1>3, <1>5

LEMMA TerminateOK ==
  ASSUME NEW t, NEW np, TableOK(t, np), NEW pid \in Pids \ {0}, Present(t, pid),
         NEW signum \in Nat
  PROVE  /\ Struck(t, Terminate(t, SlotOf(t, pid), signum), pid)
         /\ Terminate(t, SlotOf(t, pid), signum)[SlotOf(t, pid)].state = "Zombie"
<1> DEFINE f == SlotOf(t, pid)
           p == [t[f] EXCEPT !.pending_signals = {}, !.state = "Zombie",
                             !.exit_code = 128 + signum]
<1>1. f \in Slots /\ t[f].pid = pid /\ t[f] \in Process
  BY PresentSlot
<1>2. p \in Process /\ p.pid = pid /\ p.parent_pid = t[f].parent_pid /\ p.state = "Zombie"
  <2>1. {} \in SUBSET (0..31) /\ 128 + signum \in Int /\ "Zombie" \in States
    BY DEF States
  <2> QED BY <1>1, <2>1 DEF Process
<1>3. Terminate(t, f, signum) = [t EXCEPT ![f] = p]
  BY <1>1 DEF Terminate, TableOK
<1> HIDE DEF p
<1>4. p.state \in {t[f].state, "Zombie"}
  BY <1>2
<1>5. /\ Struck(t, [t EXCEPT ![f] = p], pid)
      /\ [t EXCEPT ![f] = p][f] = p
  BY <1>2, <1>4, StruckSlot
<1> QED BY <1>2, <1>3, <1>5

LEMMA PendOK ==
  ASSUME NEW t, NEW np, TableOK(t, np), NEW pid \in Pids \ {0}, Present(t, pid),
         NEW bits \in SUBSET (0..31)
  PROVE  /\ Struck(t, [t EXCEPT ![SlotOf(t, pid)].pending_signals = bits], pid)
         /\ [t EXCEPT ![SlotOf(t, pid)].pending_signals = bits][SlotOf(t, pid)] =
              [t[SlotOf(t, pid)] EXCEPT !.pending_signals = bits]
<1> DEFINE f == SlotOf(t, pid)
           p == [t[f] EXCEPT !.pending_signals = bits]
<1>1. f \in Slots /\ t[f].pid = pid /\ t[f] \in Process
  BY PresentSlot
<1>2. p \in Process /\ p.pid = pid /\ p.parent_pid = t[f].parent_pid
      /\ p.state = t[f].state
  BY <1>1 DEF Process
<1>3. [t EXCEPT ![f].pending_signals = bits] = [t EXCEPT ![f] = p]
  OBVIOUS
<1> HIDE DEF p
<1>4. p.state \in {t[f].state, "Zombie"}
  BY <1>2
<1>5. /\ Struck(t, [t EXCEPT ![f] = p], pid)
      /\ [t EXCEPT ![f] = p][f] = p
  BY <1>2, <1>4, StruckSlot
<1> QED BY <1>3, <1>5 DEF p

LEMMA StruckRefl ==
  ASSUME NEW t, NEW np, TableOK(t, np), NEW pid
  PROVE  Struck(t, t, pid)
BY DEF Struck, SamePids, TableOK

(***************************************************************************)
(* A signal changes only its target, and leaves the exit code of a dead    *)
(* one alone.                                                              *)
(***************************************************************************)
LEMMA SendSignalOK ==
  ASSUME NEW t, NEW np, TableOK(t, np), NEW pid \in Pids \ {0}, NEW signum \in 1..255
  PROVE  /\ Struck(t, SendSignal(t, pid, signum), pid)
         /\ \A s \in Slots : t[s].state = "Zombie" =>
              SendSignal(t, pid, signum)[s].exit_code = t[s].exit_code
<1> DEFINE f == SlotOf(t, pid)
           u == SendSignal(t, pid, signum)
           bits == t[f].pending_signals \union {SignalBit(signum)}
<1>1. CASE ~Present(t, pid)
  <2>1. u = t
    BY <1>1 DEF SendSignal
  <2> QED BY <2>1, StruckRefl
<1>2. CASE Present(t, pid) /\ signum \in {SIGKILL, SIGTERM}
           /\ t[f].state \in {"Free", "Zombie"}
  <2>1. u = t
    BY <1>2 DEF SendSignal
  <2> QED BY <2>1, StruckRefl
<1>3. CASE Present(t, pid) /\ signum \in {SIGKILL, SIGTERM}
           /\ t[f].state \notin {"Free", "Zombie"}
  <2>1. u = Terminate(t, f, signum)
    BY <1>3 DEF SendSignal
  <2>2. Struck(t, u, pid)
    BY <1>3, <2>1, TerminateOK
  <2>3. \A s \in Slots : t[s].pid = pid => s = f
    BY <1>3, PresentSlot
  <2> QED BY <1>3, <2>2, <2>3 DEF Struck
<1>4. CASE Present(t, pid) /\ signum \notin {SIGKILL, SIGTERM}
  <2>1. f \in Slots /\ t[f] \in Process
    BY <1>4, PresentSlot
  <2>2. bits \in SUBSET (0..31)
    BY <2>1 DEF SignalBit, Process
  <2>3. u = [t EXCEPT ![f].pending_signals = bits]
    BY <1>4 DEF SendSignal
  <2>4. Struck(t, u, pid) /\ u[f] = [t[f] EXCEPT !.pending_signals = bits]
    <3> HIDE DEF bits, u
    <3>1. Struck(t, [t EXCEPT ![f].pending_signals = bits], pid)
          /\ [t EXCEPT ![f].pending_signals = bits][f] =
              [t[f] EXCEPT !.pending_signals = bits]
      BY <1>4, <2>2, PendOK
    <3> QED BY <2>3, <3>1
  <2>5. u[f].exit_code = t[f].exit_code
    BY <2>1, <2>4 DEF Process
  <2>6. \A s \in Slots : t[s].pid = pid => s = f
    BY <1>4, PresentSlot
  <2> QED BY <2>4, <2>5, <2>6 DEF Struck
<1> QED BY <1>1, <1>2, <1>3, <1>4

LEMMA DeliverPendingOK ==
  ASSUME NEW t, NEW np, TableOK(t, np), NEW pid \in Pids \ {0}, Present(t, pid)
  PROVE  Struck(t, DeliverPending(t, pid), pid)
<1> DEFINE f == SlotOf(t, pid)
           u == DeliverPending(t, pid)
           pending == t[f].pending_signals
           bits == pending \ {SignalBit(SIGKILL), SignalBit(SIGTERM)}
<1>0. f \in Slots /\ t[f] \in Process
  BY PresentSlot
<1>1. CASE SignalBit(SIGKILL) \in pending
  <2>1. u = Terminate(t, f, SIGKILL)
    BY <1>1 DEF DeliverPending
  <2> QED BY <2>1, TerminateOK DEF SIGKILL
<1>2. CASE SignalBit(SIGTERM) \in pending /\ SignalBit(SIGKILL) \notin pending
  <2>1. u = Terminate(t, f, SIGTERM)
    BY <1>2 DEF DeliverPending
  <2> QED BY <2>1, TerminateOK DEF SIGTERM
<1>3. CASE SignalBit(SIGTERM) \notin pending /\ SignalBit(SIGKILL) \notin pending
  <2>1. u = [t EXCEPT ![f].pending_signals = bits]
    BY <1>3 DEF DeliverPending
  <2>2. bits \in SUBSET (0..31)
    BY <1>0 DEF Process
  <2> HIDE DEF bits, u
  <2>3. Struck(t, u, pid)
    BY <2>1, <2>2, PendOK
  <2> QED BY <2>3 DEF u
<1> QED BY <1>1, <1>2, <1>3

LEMMA FreeOK ==
  ASSUME NEW t, NEW np \in Nat \ {0}, TableOK(t, np), NEW f \in Slots
  PROVE  /\ TableOK([t EXCEPT ![f] = Empty], np)
         /\ [t EXCEPT ![f] = Empty][f].pid = 0
         /\ \A s \in Slots \ {f} : [t EXCEPT ![f] = Empty][s] = t[s]
<1>1. Empty \in Process /\ Empty.pid = 0 /\ Empty.state = "Free"
  <2>1. 0 \in Pids /\ "Free" \in States /\ {} \in SUBSET (0..31) /\ 0 \in Int
    BY MaxPidAssumption DEF Pids, States
  <2> QED BY <2>1 DEF Process, Empty, NewProcess
<1>2. t \in [Slots -> Process]
  BY DEF TableOK
<1> DEFINE u == [t EXCEPT ![f] = Empty]
<1>3. u \in [Slots -> Process] /\ u[f] = Empty /\ \A s \in Slots \ {f} : u[s] = t[s]
  BY <1>1, <1>2
<1>4. TableOK(u, np)
  <2> HIDE DEF u
  <2> QED BY <1>1, <1>3 DEF TableOK
<1> QED BY <1>1, <1>3, <1>4

LEMMA HandleOomOK ==
  ASSUME NEW t, NEW np \in Nat \ {0}, TableOK(t, np)
  PROVE  TableOK(HandleOom(t), np)
<1>1. CASE Zombies(t) # {}
  <2>1. HandleOom(t) = [s \in Slots |-> IF s \in Zombies(t) THEN Empty ELSE t[s]]
    BY <1>1 DEF HandleOom, ReapZombies
  <2>2. Empty \in Process /\ Empty.pid = 0 /\ Empty.state = "Free"
    <3>1. 0 \in Pids /\ "Free" \in States /\ {} \in SUBSET (0..31) /\ 0 \in Int
      BY MaxPidAssumption DEF Pids, States
    <3> QED BY <3>1 DEF Process, Empty, NewProcess
  <2> QED BY <2>1, <2>2 DEF TableOK
<1>2. CASE Zombies(t) = {} /\ OomVictims(t) # {}
  <2>1. OomVictims(t) \in SUBSET Nat
    BY SlotsNat DEF OomVictims
  <2>2. Min(OomVictims(t)) \in Slots
    BY <1>2, <2>1, MinOfNat DEF OomVictims
  <2>3. HandleOom(t) = [t EXCEPT ![Min(OomVictims(t))] = Empty]
    BY <1>2 DEF HandleOom
  <2>4. TableOK([t EXCEPT ![Min(OomVictims(t))] = Empty], np)
    BY <2>2, FreeOK
  <2> QED BY <2>3, <2>4
<1>3. CASE Zombies(t) = {} /\ OomVictims(t) = {}
  BY <1>3 DEF HandleOom
<1> QED BY <1>1, <1>2, <1>3

-----------------------------------------------------------------------------
(***************************************************************************)
(* The scan of find_next_ready returns a Ready process, and misses none.   *)
(***************************************************************************)
LEMMA NextReadyOK ==
  ASSUME NEW t, NEW np, TableOK(t, np), NEW after
  PROVE  /\ FindNextReady(t, after) = 0 => \A s \in Slots : t[s].state # "Ready"
         /\ FindNextReady(t, after) # 0 =>
              /\ FindNextReady(t, after) \in Pids \ {0}
              /\ \E s \in Slots : /\ t[s].pid = FindNextReady(t, after)
                                  /\ t[s].state = "Ready"
<1> DEFINE b == StartSlot(t, after)
           R == ReadyAt(t, after)
<1>1. b \in Slots
  BY SlotOfPresent, SlotsNat DEF StartSlot
<1>2. ASSUME NEW s \in Slots, t[s].state = "Ready"
      PROVE  R # {}
  <2>1. PICK i \in 1..NSlots : (b + i) % NSlots = s
    BY <1>1, RingCovers
  <2>2. t[s].pid # 0
    BY <1>2 DEF TableOK
  <2> QED BY <1>2, <2>1, <2>2 DEF ReadyAt
<1>3. CASE R = {}
  BY <1>2, <1>3 DEF FindNextReady
<1>4. CASE R # {}
  <2> DEFINE m == Min(R)
             s == (b + m) % NSlots
  <2>1. R \in SUBSET Nat
    BY DEF ReadyAt
  <2>2. m \in R
    BY <1>4, <2>1, MinOfNat
  <2>3. s \in Slots
    <3>1. b + m \in Nat
      <4> HIDE DEF b, m, R
      <4> QED BY <1>1, <2>1, <2>2, SlotsNat
    <3> HIDE DEF b, m
    <3> QED BY <3>1, RingSlot
  <2>4. t[s].pid # 0 /\ t[s].state = "Ready"
    <3> HIDE DEF m
    <3> QED BY <2>2 DEF ReadyAt
  <2>5. FindNextReady(t, after) = t[s].pid
    BY <1>4 DEF FindNextReady
  <2>6. t[s].pid \in Pids
    BY <2>3 DEF TableOK, Process
  <2> QED BY <2>3, <2>4, <2>5, <2>6
<1> QED BY <1>3, <1>4

(***************************************************************************)
(* The states after a context switch: the new process is Running and, of   *)
(* the others, only the old one changes, from Running to Ready.            *)
(***************************************************************************)
LEMMA SwitchedStatesOK ==
  ASSUME NEW t, NEW np, TableOK(t, np), NEW new \in Pids \ {0}, Present(t, new),
         current_pid \in Pids, current_pid # 0 => Present(t, current_pid),
         \A s \in Slots : t[s].state = "Running" => t[s].pid = current_pid
  PROVE  /\ SamePids(t, SwitchedStates(t, new))
         /\ OwnerOK(SwitchedStates(t, new), new)
         /\ \A s \in Slots : t[s].pid \notin {new, current_pid} =>
                              SwitchedStates(t, new)[s] = t[s]
         /\ \A s \in Slots : t[s].pid # new /\ t[s].state # "Running" =>
                              SwitchedStates(t, new)[s] = t[s]
         /\ \A s \in Slots : t[s].pid = current_pid /\ t[s].pid # new
                                /\ t[s].state = "Running"
                              => SwitchedStates(t, new)[s] = [t[s] EXCEPT !.state = "Ready"]
<1> DEFINE old == IF current_pid # 0 /\ Proc(t, current_pid).state = "Running"
                  THEN SetState(t, current_pid, "Ready") ELSE t
           u == SwitchedStates(t, new)
<1>1. u = SetState(old, new, "Running")
  BY DEF SwitchedStates
<1>2. /\ SamePids(t, old)
      /\ \A s \in Slots : old[s] = IF current_pid # 0 /\ t[s].state = "Running"
                                   THEN [t[s] EXCEPT !.state = "Ready"] ELSE t[s]
  <2>1. CASE current_pid # 0 /\ Proc(t, current_pid).state = "Running"
    <3>1. old = SetState(t, current_pid, "Ready")
      BY <2>1
    <3>2. current_pid \in Pids \ {0} /\ "Ready" \in States \ {"Free"}
      BY <2>1 DEF States
    <3>3. /\ SamePids(t, old)
          /\ \A s \in Slots : old[s] = IF t[s].pid = current_pid
                                       THEN [t[s] EXCEPT !.state = "Ready"] ELSE t[s]
      BY <2>1, <3>1, <3>2, SetStateOK
    <3>4. \A s \in Slots : t[s].pid = current_pid <=> t[s].state = "Running"
      <4>1. \A s \in Slots : t[s].pid = current_pid => s = SlotOf(t, current_pid)
        BY <2>1, <3>2, PresentSlot
      <4> QED BY <2>1, <4>1 DEF Proc
    <3> HIDE DEF old
    <3> QED BY <2>1, <3>3, <3>4
  <2>2. CASE ~(current_pid # 0 /\ Proc(t, current_pid).state = "Running")
    <3>1. old = t
      BY <2>2
    <3>2. \A s \in Slots : current_pid # 0 => t[s].state # "Running"
      <4>1. ASSUME NEW s \in Slots, current_pid # 0, t[s].state = "Running"
            PROVE  FALSE
        <5>1. t[s].pid = current_pid
          BY <4>1
        <5>2. s = SlotOf(t, current_pid)
          BY <4>1, <5>1, PresentSlot
        <5> QED BY <2>2, <4>1, <5>2 DEF Proc
      <4> QED BY <4>1
    <3>3. SamePids(t, t)
      BY DEF SamePids, TableOK
    <3> QED BY <3>1, <3>2, <3>3
  <2> QED BY <2>1, <2>2
<1> HIDE DEF old
<1>3. TableOK(old, np)
  BY <1>2, SamePidsOK
<1>4. Present(old, new) /\ "Running" \in States \ {"Free"}
  BY <1>2 DEF Present, SamePids, States
<1>5. /\ SamePids(old, u)
      /\ \A s \in Slots : u[s] = IF old[s].pid = new
                                 THEN [old[s] EXCEPT !.state = "Running"] ELSE old[s]
  BY <1>1, <1>3, <1>4, SetStateOK
<1> HIDE DEF u
<1>6. SamePids(t, u)
  BY <1>2, <1>5 DEF SamePids
<1>7. \A s \in Slots : t[s] \in Process /\ old[s] \in Process /\ old[s].pid = t[s].pid
  BY <1>2 DEF TableOK, SamePids
<1>8. \A s \in Slots : t[s].pid # new => u[s] = old[s]
  BY <1>5, <1>7
<1>9. \A s \in Slots : t[s].pid = new => u[s].state = "Running" /\ u[s].pid = new
  BY <1>5, <1>7 DEF Process
<1>10. \A s \in Slots : old[s].state = "Running" => t[s].pid = new
  <2>1. ASSUME NEW s \in Slots, old[s].state = "Running"
        PROVE  t[s].pid = new
    <3>1. CASE current_pid # 0 /\ t[s].state = "Running"
      <4>1. old[s].state = "Ready"
        BY <1>2, <1>7, <3>1 DEF Process
      <4> QED BY <2>1, <4>1
    <3>2. CASE ~(current_pid # 0 /\ t[s].state = "Running")
      <4>1. t[s].state = "Running" /\ current_pid = 0
        BY <1>2, <2>1, <3>2
      <4>2. t[s].pid = 0
        BY <4>1
      <4> QED BY <4>1, <4>2 DEF TableOK
    <3> QED BY <3>1, <3>2
  <2> QED BY <2>1
<1>11. OwnerOK(u, new)
  <2>1. \E s \in Slots : t[s].pid = new
    BY DEF Present
  <2> QED BY <1>6, <1>8, <1>9, <1>10, <2>1 DEF OwnerOK, SamePids
<1>12. \A s \in Slots : t[s].pid \notin {new, current_pid} => u[s] = t[s]
  BY <1>2, <1>8
<1>13. \A s \in Slots : t[s].pid # new /\ t[s].state # "Running" => u[s] = t[s]
  BY <1>2, <1>8
<1>14. \A s \in Slots : t[s].pid = current_pid /\ t[s].pid # new /\ t[s].state = "Running"
                         => u[s] = [t[s] EXCEPT !.state = "Ready"]
  BY <1>2, <1>8 DEF TableOK
<1> QED BY <1>6, <1>11, <1>12, <1>13, <1>14 DEF u

(***************************************************************************)
(* What the state outside the process table looks like after a switch or   *)
(* a return to c.                                                          *)
(***************************************************************************)
RestOK ==
  /\ current_pid \in Pids
  /\ StacksOK(stacks)
  /\ current_slice \in 0 .. DefaultSlice
  /\ cpu \in [at : Points, arg : Args]
  /\ isr \in BOOLEAN
  /\ PointOK(cpu)
  /\ current_pid = 0 <=> cpu.at \in {"boot", "idle"}
  /\ OwnerOK(processes, current_pid)

ContOK(c) ==
  /\ c \in Continuation /\ PointOK(c)
  /\ current_pid = 0 <=> c.at \in {"boot", "idle"}

LEMMA FreshStackOK ==
  ASSUME NEW pid \in Pids
  PROVE  /\ FreshStack(pid) \in Stack /\ PointOK(FreshStack(pid).cont)
         /\ FreshStack(pid).cont.at = "user" /\ FreshStack(pid).owner = pid
         /\ FreshStack(pid).initialised
         /\ FreshStack(pid).cont.irq = FALSE
BY DEF FreshStack, StackWith, Stack, PointOK, Continuation, Cont, At, Points, Args

LEMMA SpentOK ==
  ASSUME NEW st \in Stack
  PROVE  /\ Spent(st) \in Stack /\ PointOK(Spent(st).cont)
         /\ Spent(st).cont.at = "user" /\ Spent(st).owner = 0
         /\ Spent(st).initialised = st.initialised
         /\ Spent(st).cont.irq = FALSE
<1>1. 0 \in Pids
  BY MaxPidAssumption DEF Pids
<1> QED BY <1>1 DEF Spent, StackWith, Stack, PointOK, Continuation, Cont, At, Points, Args

LEMMA SavedStacksOK ==
  ASSUME NEW t, NEW np, TableOK(t, np), NEW k, StacksOK(k),
         NEW new \in Pids \ {0}, Present(t, new),
         current_pid \in Pids, current_pid # 0 => Present(t, current_pid),
         NEW c, ContOK(c)
  PROVE  /\ StacksOK(SavedStacks(t, k, new, c))
         /\ \A s \in Slots : t[s].pid = new =>
              SavedStacks(t, k, new, c)[s] = Spent(SavedStacks(t, k, new, c)[s])
         /\ \A s \in Slots : t[s].pid # new /\ current_pid # 0 /\ t[s].pid = current_pid =>
              /\ SavedStacks(t, k, new, c)[s].owner = current_pid
              /\ SavedStacks(t, k, new, c)[s].cont = c
         /\ \A s \in Slots : t[s].pid # new /\ ~(current_pid # 0 /\ t[s].pid = current_pid) =>
              SavedStacks(t, k, new, c)[s] = k[s]
         /\ \A s \in Slots : SavedStacks(t, k, new, c)[s].initialised = k[s].initialised
<1> DEFINE o == SlotOf(t, current_pid)
           n == SlotOf(t, new)
           so == [k[o] EXCEPT !.owner = current_pid, !.cont = c]
           saved == IF current_pid = 0 THEN k ELSE [k EXCEPT ![o] = so]
           v == [saved EXCEPT ![n] = Spent(saved[n])]
<1>0. k \in [Slots -> Stack]
  BY DEF StacksOK
<1>1. SavedStacks(t, k, new, c) = v
  BY <1>0 DEF SavedStacks
<1>2. n \in Slots /\ t[n].pid = new /\ \A s \in Slots : t[s].pid = new => s = n
  BY PresentSlot
<1>3. current_pid # 0 => /\ o \in Slots /\ t[o].pid = current_pid
                         /\ \A s \in Slots : t[s].pid = current_pid => s = o
  BY PresentSlot
<1> HIDE DEF n, o
<1>4. current_pid # 0 => /\ so \in Stack /\ so.initialised = k[o].initialised
                         /\ so.cont = c /\ so.owner = current_pid
  BY <1>0, <1>3 DEF Stack, ContOK
<1>5. current_pid # 0 => PointOK(so.cont) /\ so.cont.at \notin {"boot", "idle"}
  BY <1>4 DEF ContOK
<1>6. /\ saved \in [Slots -> Stack]
      /\ \A s \in Slots : saved[s] = IF current_pid # 0 /\ s = o THEN so ELSE k[s]
  <2> HIDE DEF so
  <2> QED BY <1>0, <1>3, <1>4
<1>7. \A s \in Slots : /\ PointOK(saved[s].cont) /\ saved[s].cont.at \notin {"boot", "idle"}
                       /\ saved[s].initialised = k[s].initialised
  <2> HIDE DEF so, saved
  <2> QED BY <1>4, <1>5, <1>6 DEF StacksOK
<1>8. /\ v \in [Slots -> Stack]
      /\ \A s \in Slots : v[s] = IF s = n THEN Spent(saved[n]) ELSE saved[s]
  <2> HIDE DEF saved
  <2> QED BY <1>2, <1>6, SpentOK
<1>9. /\ Spent(saved[n]).cont.at = "user" /\ PointOK(Spent(saved[n]).cont)
      /\ Spent(saved[n]).initialised = saved[n].initialised
  <2> HIDE DEF saved
  <2> QED BY <1>2, <1>6, SpentOK
<1>10. StacksOK(v) /\ \A s \in Slots : v[s].initialised = k[s].initialised
  <2> HIDE DEF v, saved
  <2> QED BY <1>2, <1>7, <1>8, <1>9 DEF StacksOK
<1>11. Spent(v[n]) = v[n]
  <2> HIDE DEF v, saved
  <2>1. v[n] = StackWith(saved[n].initialised, 0)
    BY <1>2, <1>8 DEF Spent
  <2>2. v[n].initialised = saved[n].initialised
    BY <1>2, <1>8, <1>9
  <2> QED BY <2>1, <2>2 DEF Spent
<1>12. \A s \in Slots : v[s] = IF t[s].pid = new THEN Spent(v[s])
                ELSE IF current_pid # 0 /\ t[s].pid = current_pid THEN so
                ELSE k[s]
  <2> HIDE DEF v, saved, so
  <2> QED BY <1>2, <1>3, <1>6, <1>8, <1>11
<1>13. current_pid # 0 => so.owner = current_pid /\ so.cont = c
  BY <1>4
<1> QED
  <2> HIDE DEF v, so
  <2> QED BY <1>1, <1>10, <1>12, <1>13

(***************************************************************************)
(* do_context_switch keeps the invariant, whether it switches, finds the   *)
(* stacks locked or parks a process that has no context.                   *)
(***************************************************************************)
LEMMA DoContextSwitchOK ==
  ASSUME NEW t, TableOK(t, next_pid), NEW k, StacksOK(k),
         NEW new \in Pids \ {0}, Present(t, new),
         current_pid \in Pids, current_pid # 0 => Present(t, current_pid),
         \A s \in Slots : t[s].state = "Running" => t[s].pid = current_pid,
         NEW c, ContOK(c), NEW i \in BOOLEAN, NEW slice \in 0 .. DefaultSlice,
         \/ OwnerOK(t, current_pid) /\ new # current_pid
         \/ ~StacksLocked /\ k[SlotOf(t, new)].initialised,
         DoContextSwitch(t, k, new, c, i, slice), UNCHANGED next_pid
  PROVE  TableOK(processes', next_pid') /\ RestOK'
<1> DEFINE n == SlotOf(t, new)
<1>1. n \in Slots /\ t[n].pid = new /\ k[n] \in Stack
  BY PresentSlot DEF StacksOK
<1>2. CASE StacksLocked \/ ~k[n].initialised
  <2>1. OwnerOK(t, current_pid) /\ new # current_pid
    BY <1>2
  <2>2. /\ processes' = IF ~StacksLocked /\ t[n].state = "Ready"
                        THEN SetState(t, new, "Blocked") ELSE t
        /\ stacks' = k /\ current_slice' = slice /\ current_pid' = current_pid
        /\ cpu' = At(c.at, c.arg) /\ isr' = (i /\ ~c.irq)
    BY <1>2 DEF DoContextSwitch, Resume
  <2>3. SamePids(t, processes') /\ OwnerOK(processes', current_pid)
    <3>1. CASE ~StacksLocked /\ t[n].state = "Ready"
      <4>1. "Blocked" \in States \ {"Free"}
        BY DEF States
      <4>2. /\ SamePids(t, processes')
            /\ \A s \in Slots : processes'[s] =
                 IF t[s].pid = new THEN [t[s] EXCEPT !.state = "Blocked"] ELSE t[s]
        BY <2>2, <3>1, <4>1, SetStateOK
      <4>3. \A s \in Slots : t[s].pid = new => processes'[s].state = "Blocked"
        BY <4>2, ZenonT(30) DEF TableOK, Process
      <4> QED BY <2>1, <4>2, <4>3 DEF OwnerOK
    <3>2. CASE ~(~StacksLocked /\ t[n].state = "Ready")
      BY <2>1, <2>2, <3>2 DEF SamePids, TableOK
    <3> QED BY <3>1, <3>2
  <2>4. TableOK(processes', next_pid')
    BY <2>3, SamePidsOK
  <2>5. /\ cpu' \in [at : Points, arg : Args] /\ PointOK(cpu') /\ isr' \in BOOLEAN
        /\ cpu'.at = c.at
    BY <2>2 DEF ContOK, PointOK, Continuation, At
  <2> QED BY <2>2, <2>3, <2>4, <2>5 DEF RestOK, ContOK
<1>3. CASE ~(StacksLocked \/ ~k[n].initialised)
  <2>1. /\ processes' = SwitchedStates(t, new)
        /\ stacks' = SavedStacks(t, k, new, c)
        /\ current_pid' = new /\ current_slice' = DefaultSlice
        /\ IF k[n].owner = new
           THEN cpu' = At(k[n].cont.at, k[n].cont.arg) /\ isr' = (i /\ ~k[n].cont.irq)
           ELSE cpu' = At("wild", 0) /\ isr' = i
    BY <1>3 DEF DoContextSwitch, Resume
  <2>2. SamePids(t, processes') /\ OwnerOK(processes', current_pid')
    BY <2>1, SwitchedStatesOK
  <2>3. TableOK(processes', next_pid')
    BY <2>2, SamePidsOK
  <2>4. StacksOK(stacks')
    BY <2>1, SavedStacksOK
  <2>5. PointOK(k[n].cont) /\ k[n].cont.at \notin {"boot", "idle"} /\ k[n].cont \in Continuation
    BY <1>1 DEF StacksOK, Stack
  <2>6. /\ cpu' \in [at : Points, arg : Args] /\ PointOK(cpu') /\ isr' \in BOOLEAN
        /\ cpu'.at \notin {"boot", "idle"}
    <3>1. CASE k[n].owner = new
      <4>1. cpu' = At(k[n].cont.at, k[n].cont.arg) /\ isr' = (i /\ ~k[n].cont.irq)
        BY <2>1, <3>1
      <4> QED BY <2>5, <4>1 DEF PointOK, Continuation, At
    <3>2. CASE k[n].owner # new
      <4>1. cpu' = At("wild", 0) /\ isr' = i
        BY <2>1, <3>2
      <4> QED BY <4>1 DEF PointOK, At, Points, Args
    <3> QED BY <3>1, <3>2
  <2>7. current_slice' \in 0 .. DefaultSlice
    BY <2>1, DefaultSliceAssumption
  <2> QED BY <2>1, <2>2, <2>3, <2>4, <2>6, <2>7 DEF RestOK
<1> QED BY <1>2, <1>3

LEMMA ScheduleOK ==
  ASSUME NEW t, TableOK(t, next_pid), StacksOK(stacks),
         current_pid \in Pids, OwnerOK(t, current_pid),
         NEW c, ContOK(c), NEW i \in BOOLEAN, NEW slice \in 0 .. DefaultSlice,
         \/ Schedule(t, c, i, slice)
         \/ SwitchToNext(t, c) /\ i = isr /\ slice = current_slice,
         UNCHANGED next_pid
  PROVE  TableOK(processes', next_pid') /\ RestOK'
<1> DEFINE new == FindNextReady(t, current_pid)
<1>1. CASE new \in {0, current_pid}
  <2>1. /\ processes' = t /\ current_pid' = current_pid /\ stacks' = stacks
        /\ current_slice' \in {slice, DefaultSlice}
        /\ cpu' = At(c.at, c.arg) /\ isr' = (i /\ ~c.irq)
    BY <1>1 DEF Schedule, SwitchToNext, Resume
  <2>2. /\ cpu' \in [at : Points, arg : Args] /\ PointOK(cpu') /\ isr' \in BOOLEAN
        /\ cpu'.at = c.at
    BY <2>1 DEF ContOK, PointOK, Continuation, At
  <2>3. current_slice' \in 0 .. DefaultSlice
    BY <2>1, DefaultSliceAssumption
  <2> QED BY <2>1, <2>2, <2>3 DEF RestOK, ContOK
<1>2. CASE new \notin {0, current_pid}
  <2>1. DoContextSwitch(t, stacks, new, c, i, slice)
    BY <1>2 DEF Schedule, SwitchToNext
  <2>2. new \in Pids \ {0} /\ Present(t, new)
    BY <1>2, NextReadyOK DEF Present
  <2>3. current_pid # 0 => Present(t, current_pid)
    BY DEF OwnerOK, Present
  <2>4. \A s \in Slots : t[s].state = "Running" => t[s].pid = current_pid
    BY DEF OwnerOK
  <2> HIDE DEF new
  <2> QED BY <1>2, <2>1, <2>2, <2>3, <2>4, DoContextSwitchOK
<1> QED BY <1>1, <1>2

-----------------------------------------------------------------------------
LEMMA InitOK == Init => CoreInv
<1> SUFFICES ASSUME Init PROVE CoreInv
  OBVIOUS
<1>1. Empty \in Process /\ Empty.pid = 0 /\ Empty.state = "Free"
  <2>1. 0 \in Pids /\ "Free" \in States /\ {} \in SUBSET (0..31) /\ 0 \in Int
    BY MaxPidAssumption DEF Pids, States
  <2> QED BY <2>1 DEF Process, Empty, NewProcess
<1>2. ASSUME NEW s \in Slots, s < NServices
      PROVE  LET p == NewProcess(s + 1, 0, "Blocked")
             IN p \in Process /\ p.pid = s + 1 /\ p.parent_pid = 0 /\ p.state = "Blocked"
  <2>1. s + 1 \in Pids /\ 0 \in Pids /\ "Blocked" \in States /\ {} \in SUBSET (0..31)
        /\ 0 \in Int
    BY <1>2, SlotsNat, MaxPidAssumption, NServicesAssumption DEF Pids, States
  <2> QED BY <2>1 DEF Process, NewProcess
<1>3. \A s \in Slots : processes[s] = IF s < NServices
                                      THEN NewProcess(s + 1, 0, "Blocked") ELSE Empty
  BY DEF Init
<1>4. processes \in [Slots -> Process]
  BY <1>1, <1>2 DEF Init
<1>5. \A s \in Slots : /\ s < NServices => /\ processes[s].pid = s + 1
                                            /\ processes[s].parent_pid = 0
                                            /\ processes[s].state = "Blocked"
                       /\ ~(s < NServices) => /\ processes[s].pid = 0
                                               /\ processes[s].state = "Free"
  BY <1>1, <1>2, <1>3
<1>6. next_pid = NServices + 1 /\ NServices \in Nat
  BY NServicesAssumption, NSlotsAssumption DEF Init
<1>7. TableOK(processes, next_pid)
  BY <1>4, <1>5, <1>6, SlotsNat DEF TableOK
<1>8. StacksOK(stacks)
  <2>1. 0 \in Pids
    BY MaxPidAssumption DEF Pids
  <2>2. /\ NoStack \in Stack /\ PointOK(NoStack.cont)
        /\ NoStack.cont.at \notin {"boot", "idle"}
    BY <2>1 DEF NoStack, StackWith, Stack, PointOK, Continuation, Cont, At, Points, Args
  <2> QED BY <2>2 DEF Init, StacksOK
<1>9. OwnerOK(processes, 0)
  BY <1>5 DEF OwnerOK
<1>10. /\ cpu = At("boot", 0) /\ cpu.at = "boot" /\ cpu.arg = 0
       /\ cpu \in [at : Points, arg : Args] /\ PointOK(cpu)
  BY DEF Init, At, Points, Args, PointOK
<1>11. next_pid \in 1 .. MaxPid + 1
  BY <1>6, NServicesAssumption, MaxPidAssumption
<1>12. current_pid = 0 /\ 0 \in Pids /\ isr \in BOOLEAN /\ current_slice \in 0..DefaultSlice
  <2>1. isr = FALSE /\ current_pid = 0 /\ current_slice = DefaultSlice
    BY DEF Init
  <2>2. 0 \in Pids /\ DefaultSlice \in 0..DefaultSlice
    BY MaxPidAssumption, DefaultSliceAssumption DEF Pids
  <2> QED BY <2>1, <2>2
<1> QED BY <1>7, <1>8, <1>9, <1>10, <1>11, <1>12 DEF CoreInv

(***************************************************************************)
(* CoreInv away from a panic, and how a step re-establishes it.            *)
(***************************************************************************)
LEMMA CoreRest ==
  /\ CoreInv /\ cpu.at # "panic" =>
       TableOK(processes, next_pid) /\ next_pid \in 1 .. MaxPid + 1 /\ RestOK
  /\ TableOK(processes', next_pid') /\ next_pid' \in 1 .. MaxPid + 1 /\ RestOK' => CoreInv'
BY DEF CoreInv, RestOK

LEMMA CurrentPresent ==
  ASSUME RestOK, current_pid # 0
  PROVE  /\ current_pid \in Pids \ {0} /\ Present(processes, current_pid)
BY DEF RestOK, OwnerOK, Present

(***************************************************************************)
(* Steps that leave the owner of the CPU alone.                            *)
(***************************************************************************)
LEMMA StruckOwner ==
  ASSUME NEW t, NEW u, NEW np, TableOK(t, np), NEW pid, OwnerOK(t, current_pid),
         Struck(t, u, pid)
  PROVE  OwnerOK(u, current_pid)
BY DEF OwnerOK, Struck, SamePids

LEMMA BootStep ==
  ASSUME CoreInv, SpawnUserProcess \/ StartScheduler
  PROVE  CoreInv'
<1>1. cpu.at = "boot"
  BY DEF SpawnUserProcess, StartScheduler
<1>2. TableOK(processes, next_pid) /\ next_pid \in 1 .. MaxPid + 1 /\ RestOK
  BY <1>1, CoreRest
<1>3. current_pid = 0
  BY <1>1, <1>2 DEF RestOK
<1>4. CASE SpawnUserProcess
  <2> USE <1>4 DEF SpawnUserProcess
  <2>1. next_pid \in 1..MaxPid /\ 0 \in Pids /\ 0 < next_pid
        /\ "Ready" \in States \ {"Free"}
    BY <1>2, MaxPidAssumption DEF Pids, States
  <2>2. /\ TableOK(processes', next_pid')
        /\ \A s \in Slots \ {NextFree(processes)} : processes'[s] = processes[s]
        /\ processes'[NextFree(processes)] = NewProcess(next_pid, 0, "Ready")
    BY <1>2, <2>1, AllocOK
  <2>3. NewProcess(next_pid, 0, "Ready").state = "Ready"
    BY DEF NewProcess
  <2>4. OwnerOK(processes', current_pid')
    BY <1>2, <1>3, <2>2, <2>3 DEF RestOK, OwnerOK
  <2>5. NextFree(processes) \in Slots
    BY NextFreeSlot
  <2>6. /\ FreshStack(next_pid) \in Stack /\ PointOK(FreshStack(next_pid).cont)
        /\ FreshStack(next_pid).cont.at = "user"
    <3>1. next_pid \in Pids
      BY <2>1 DEF Pids
    <3> QED BY <3>1, FreshStackOK
  <2>7. StacksOK(stacks')
    BY <1>2, <2>5, <2>6 DEF RestOK, StacksOK
  <2>8. next_pid' \in 1 .. MaxPid + 1
    BY <2>1, MaxPidAssumption
  <2>9. RestOK'
    BY <1>2, <2>4, <2>7 DEF RestOK
  <2> QED BY <2>2, <2>8, <2>9, CoreRest
<1>5. CASE StartScheduler
  <2> USE <1>5 DEF StartScheduler
  <2>1. /\ cpu' \in [at : Points, arg : Args] /\ PointOK(cpu') /\ cpu'.at = "idle"
    BY DEF At, Points, Args, PointOK
  <2>2. RestOK'
    BY <1>2, <1>3, <2>1 DEF RestOK
  <2> QED BY <1>2, <2>2, CoreRest
<1> QED BY <1>4, <1>5

(***************************************************************************)
(* The continuations handed to the scheduler.                              *)
(***************************************************************************)
LEMMA ContinuationsOK ==
  ASSUME RestOK
  PROVE  /\ \A b \in BOOLEAN : ContOK(Cont(cpu, b))
         /\ ContOK(Interrupted)
         /\ current_pid # 0 => ContOK(Cont(At("halted", 0), FALSE))
<1>1. cpu.at \in Points \ {"panic"} /\ cpu.arg \in Int
  BY DEF RestOK, PointOK, Args
<1>2. \A b \in BOOLEAN : ContOK(Cont(cpu, b))
  BY <1>1 DEF RestOK, ContOK, Cont, Continuation, PointOK, Args
<1>3. current_pid # 0 => ContOK(Cont(At("halted", 0), FALSE))
  BY DEF ContOK, Cont, At, Continuation, PointOK, Points, Args
<1>4. CASE cpu.at = "sleep" /\ cpu.arg > 0
  <2>1. Interrupted = [at |-> "sleep", arg |-> cpu.arg - 1, irq |-> TRUE]
    BY <1>4 DEF Interrupted, Cont, At
  <2>2. cpu.arg - 1 \in Args /\ current_pid # 0
    BY <1>1, <1>4 DEF RestOK, Args
  <2>3. ContOK(Interrupted)
    BY <2>1, <2>2 DEF ContOK, Continuation, PointOK, Points
  <2> QED BY <1>2, <1>3, <2>3
<1>5. CASE ~(cpu.at = "sleep" /\ cpu.arg > 0)
  <2>1. Interrupted = Cont(cpu, TRUE)
    BY <1>5 DEF Interrupted
  <2> QED BY <1>2, <1>3, <2>1
<1> QED BY <1>4, <1>5

LEMMA SliceOK ==
  ASSUME RestOK
  PROVE  SliceAfterTick \in 0 .. DefaultSlice /\ 0 \in 0 .. DefaultSlice
BY DefaultSliceAssumption DEF RestOK, SliceAfterTick

LEMMA TickStep ==
  ASSUME CoreInv, TimerTick
  PROVE  CoreInv'
<1>1. cpu.at # "panic"
  BY DEF TimerTick, TickExpired, TickDeliver, TickIdle, TakeTimerIrq, InterruptsEnabled
<1>2. TableOK(processes, next_pid) /\ next_pid \in 1 .. MaxPid + 1 /\ RestOK
  BY <1>1, CoreRest
<1>3. ContOK(Interrupted) /\ SliceAfterTick \in 0 .. DefaultSlice /\ 0 \in 0 .. DefaultSlice
  BY <1>2, ContinuationsOK, SliceOK
<1>4. StacksOK(stacks) /\ current_pid \in Pids /\ OwnerOK(processes, current_pid)
  BY <1>2 DEF RestOK
<1>5. (~AutoEoi) \in BOOLEAN
  BY AutoEoiAssumption
<1>6. next_pid' = next_pid
  BY DEF TimerTick, TickExpired, TickDeliver, TickIdle
<1>7. ASSUME Resume(Interrupted, ~AutoEoi)
      PROVE  /\ cpu' \in [at : Points, arg : Args] /\ PointOK(cpu') /\ isr' \in BOOLEAN
             /\ cpu'.at = Interrupted.at
  BY <1>3, <1>7 DEF Resume, ContOK, PointOK, Continuation, At
<1>8. CASE TickExpired
  <2>1. Schedule(processes, Interrupted, ~AutoEoi, 0)
    BY <1>8 DEF TickExpired
  <2>2. TableOK(processes', next_pid') /\ RestOK'
    BY <1>2, <1>3, <1>4, <1>5, <1>6, <2>1, ScheduleOK
  <2> QED BY <1>2, <1>6, <2>2, CoreRest
<1>9. CASE TickDeliver
  <2> DEFINE t == DeliverPending(processes, current_pid)
  <2>1. current_pid # 0
    BY <1>9 DEF TickDeliver
  <2>2. Struck(processes, t, current_pid)
    BY <1>2, <2>1, CurrentPresent, DeliverPendingOK
  <2>3. TableOK(t, next_pid) /\ OwnerOK(t, current_pid)
    BY <1>2, <1>4, <2>2, SamePidsOK, StruckOwner DEF Struck
  <2>4. \/ Schedule(t, Interrupted, ~AutoEoi, SliceAfterTick)
        \/ /\ processes' = t /\ current_slice' = SliceAfterTick
           /\ UNCHANGED <<current_pid, stacks>> /\ Resume(Interrupted, ~AutoEoi)
    BY <1>9 DEF TickDeliver
  <2> HIDE DEF t
  <2>5. CASE Schedule(t, Interrupted, ~AutoEoi, SliceAfterTick)
    <3>1. TableOK(processes', next_pid') /\ RestOK'
      BY <1>3, <1>4, <1>5, <1>6, <2>3, <2>5, ScheduleOK
    <3> QED BY <1>2, <1>6, <3>1, CoreRest
  <2>6. CASE /\ processes' = t /\ current_slice' = SliceAfterTick
             /\ UNCHANGED <<current_pid, stacks>> /\ Resume(Interrupted, ~AutoEoi)
    <3>1. RestOK'
      BY <1>3, <1>4, <1>7, <2>3, <2>6 DEF RestOK, ContOK
    <3> QED BY <1>2, <1>6, <2>3, <2>6, <3>1, CoreRest
  <2> QED BY <2>4, <2>5, <2>6
<1>10. CASE TickIdle
  <2>1. /\ current_slice' = SliceAfterTick /\ Resume(Interrupted, ~AutoEoi)
        /\ UNCHANGED <<processes, next_pid, current_pid, stacks>>
    BY <1>10 DEF TickIdle
  <2>2. RestOK'
    BY <1>3, <1>4, <1>7, <2>1 DEF RestOK, ContOK
  <2> QED BY <1>2, <2>1, <2>2, CoreRest
<1> QED BY <1>8, <1>9, <1>10 DEF TimerTick

LEMMA CallStep ==
  ASSUME CoreInv, SystemCall
  PROVE  CoreInv'
<1>1. cpu.at = "user"
  BY DEF SystemCall, SysExit, PageFault, FatalFault, SysFork, SysExec, SysReadStdin,
         AllocError, SysKill, SysWaitpid, SysNanosleep, Calling
<1>2. TableOK(processes, next_pid) /\ next_pid \in 1 .. MaxPid + 1 /\ RestOK
  BY <1>1, CoreRest
<1>3. current_pid \in Pids \ {0} /\ Present(processes, current_pid)
  BY <1>1, <1>2, CurrentPresent DEF RestOK
<1>4. StacksOK(stacks) /\ OwnerOK(processes, current_pid) /\ isr \in BOOLEAN
      /\ current_slice \in 0 .. DefaultSlice
  BY <1>2 DEF RestOK
<1>5. ContOK(Cont(At("halted", 0), FALSE)) /\ ContOK(Cont(cpu, FALSE))
  BY <1>2, <1>3, ContinuationsOK
<1>6. ASSUME NEW code \in Int,
             SwitchToNext(MarkExit(processes, current_pid, code), Cont(At("halted", 0), FALSE)),
             UNCHANGED next_pid
      PROVE  CoreInv'
  <2> DEFINE t == MarkExit(processes, current_pid, code)
  <2>1. Struck(processes, t, current_pid)
    BY <1>2, <1>3, MarkExitOK
  <2>2. TableOK(t, next_pid) /\ OwnerOK(t, current_pid)
    BY <1>2, <1>4, <2>1, SamePidsOK, StruckOwner DEF Struck
  <2>3. SwitchToNext(t, Cont(At("halted", 0), FALSE))
    BY <1>6
  <2> HIDE DEF t
  <2>4. TableOK(processes', next_pid') /\ RestOK'
    BY <1>3, <1>4, <1>5, <1>6, <2>2, <2>3, ScheduleOK
  <2> QED BY <1>2, <1>6, <2>4, CoreRest
<1>7. CASE SysExit
  <2>1. SwitchToNext(MarkExit(processes, current_pid, 0), Cont(At("halted", 0), FALSE))
        /\ UNCHANGED next_pid
    BY <1>7 DEF SysExit
  <2>2. 0 \in Int
    OBVIOUS
  <2> QED BY <1>6, <2>1, <2>2, Zenon
<1>8. CASE PageFault
  <2>1. SwitchToNext(MarkExit(processes, current_pid, 139), Cont(At("halted", 0), FALSE))
        /\ UNCHANGED next_pid
    BY <1>8 DEF PageFault
  <2>2. 139 \in Int
    OBVIOUS
  <2> QED BY <1>6, <2>1, <2>2, Zenon
<1>9. CASE FatalFault
  <2>1. cpu' \in [at : Points, arg : Args] /\ cpu'.at = "panic"
    BY <1>9 DEF FatalFault, At, Points, Args
  <2> QED BY <1>9, <2>1 DEF FatalFault, CoreInv
<1>10. CASE SysFork
  <2> USE <1>10 DEF SysFork
  <2>1. next_pid \in 1..MaxPid /\ current_pid \in Pids /\ current_pid < next_pid
        /\ "Ready" \in States \ {"Free"}
    BY <1>2, <1>3, MaxPidAssumption DEF Pids, States, TableOK, Present
  <2>2. /\ TableOK(processes', next_pid')
        /\ \A s \in Slots \ {NextFree(processes)} : processes'[s] = processes[s]
        /\ processes'[NextFree(processes)] = NewProcess(next_pid, current_pid, "Ready")
    BY <1>2, <2>1, AllocOK
  <2>3. NewProcess(next_pid, current_pid, "Ready").state = "Ready"
    BY DEF NewProcess
  <2>4. NextFree(processes) \in Slots /\ processes[NextFree(processes)].pid = 0
    BY NextFreeSlot
  <2>5. OwnerOK(processes', current_pid')
    BY <1>3, <1>4, <2>2, <2>3, <2>4 DEF OwnerOK
  <2>6. /\ cpu' \in [at : Points, arg : Args] /\ PointOK(cpu') /\ cpu'.at = "forkwin"
    <3> DEFINE n == NextFree(processes)
    <3>1. cpu' = At("forkwin", n) /\ n \in Slots /\ n \in Nat
      BY <2>4, SlotsNat
    <3> HIDE DEF n
    <3>2. cpu'.at = "forkwin" /\ cpu'.arg = n /\ cpu' \in [at : Points, arg : Args]
      BY <3>1 DEF At, Points, Args
    <3> QED BY <3>1, <3>2 DEF Points, Args, PointOK
  <2>7. next_pid' \in 1 .. MaxPid + 1
    BY <2>1, MaxPidAssumption
  <2>8. RestOK'
    BY <1>3, <1>4, <2>5, <2>6 DEF RestOK
  <2> QED BY <2>2, <2>7, <2>8, CoreRest
<1>11. CASE SysExec
  <2> DEFINE f == SlotOf(processes, current_pid)
             k == [stacks EXCEPT ![f] = FreshStack(current_pid)]
             t == SetState(processes, current_pid, "Ready")
             c == Cont(cpu, FALSE)
  <2>1. DoContextSwitch(t, k, current_pid, c, isr, current_slice) /\ UNCHANGED next_pid
    BY <1>11 DEF SysExec
  <2>2. "Ready" \in States \ {"Free"}
    BY DEF States
  <2>3. /\ SamePids(processes, t)
        /\ \A s \in Slots : t[s] = IF processes[s].pid = current_pid
                     THEN [processes[s] EXCEPT !.state = "Ready"] ELSE processes[s]
    BY <1>2, <1>3, <2>2, SetStateOK
  <2>4. TableOK(t, next_pid)
    BY <1>2, <2>3, SamePidsOK
  <2>5. Present(t, current_pid)
    BY <1>3, <2>3 DEF Present, SamePids
  <2>6. \A s \in Slots : t[s].state = "Running" => t[s].pid = current_pid
    BY <1>4, <2>3 DEF OwnerOK, SamePids
  <2>7. f \in Slots /\ processes[f].pid = current_pid
    BY <1>2, <1>3, PresentSlot
  <2>8. SlotOf(t, current_pid) = f
    BY <1>3, <2>3, <2>4, <2>5, <2>7, PresentSlot DEF SamePids
  <2>9. /\ FreshStack(current_pid) \in Stack /\ PointOK(FreshStack(current_pid).cont)
        /\ FreshStack(current_pid).cont.at = "user" /\ FreshStack(current_pid).initialised
    BY <1>3, FreshStackOK
  <2>10. StacksOK(k) /\ k[f].initialised
    <3> HIDE DEF f
    <3> QED BY <1>4, <2>7, <2>9 DEF StacksOK
  <2>11. ~StacksLocked
    BY <1>1 DEF StacksLocked
  <2> HIDE DEF f, k, t, c
  <2>12. TableOK(processes', next_pid') /\ RestOK'
    BY <1>3, <1>4, <1>5, <2>1, <2>4, <2>5, <2>6, <2>8, <2>10, <2>11, DoContextSwitchOK DEF c
  <2> QED BY <1>2, <2>1, <2>12, CoreRest
<1>12. ASSUME NEW p, NEW a \in Int, cpu' = At(p, a), p \in {"wait", "read", "sleep"},
              UNCHANGED <<processes, next_pid, current_pid, stacks, current_slice, isr>>
       PROVE  CoreInv'
  <2>1. cpu' \in [at : Points, arg : Args] /\ PointOK(cpu') /\ cpu'.at = p
    BY <1>12 DEF At, Points, Args, PointOK
  <2>2. RestOK'
    BY <1>2, <1>3, <1>12, <2>1 DEF RestOK
  <2> QED BY <1>2, <1>12, <2>2, CoreRest
<1>13. CASE SysReadStdin
  BY <1>12, <1>13 DEF SysReadStdin
<1>14. CASE AllocError
  <2>1. cpu' \in [at : Points, arg : Args] /\ cpu'.at = "panic"
    BY <1>14 DEF AllocError, At, Points, Args
  <2>2. next_pid \in Nat \ {0}
    BY <1>2
  <2>3. TableOK(processes', next_pid)
    BY <1>2, <1>14, <2>2, HandleOomOK DEF AllocError
  <2> QED BY <1>2, <1>14, <2>1, <2>3 DEF AllocError, CoreInv, RestOK
<1>15. ASSUME NEW pid \in Pids \ {0}, NEW signum \in Signums, SysKill(pid, signum)
       PROVE  CoreInv'
  <2>1. processes' = SendSignal(processes, pid, signum) /\ signum \in 1..255
        /\ UNCHANGED <<next_pid, current_pid, stacks, current_slice, cpu, isr>>
    BY <1>15, SignumsAssumption DEF SysKill
  <2>2. Struck(processes, processes', pid)
    BY <1>2, <2>1, SendSignalOK
  <2>3. TableOK(processes', next_pid) /\ OwnerOK(processes', current_pid)
    BY <1>2, <1>4, <2>2, SamePidsOK, StruckOwner DEF Struck
  <2>4. RestOK'
    BY <1>2, <2>1, <2>3 DEF RestOK
  <2> QED BY <1>2, <2>1, <2>3, <2>4, CoreRest
<1>16. ASSUME NEW pid \in (Pids \ {0}) \union {AnyChild}, SysWaitpid(pid)
       PROVE  CoreInv'
  BY <1>12, <1>16 DEF SysWaitpid, Pids, AnyChild
<1>17. ASSUME NEW ticks \in 0..MaxSleep, SysNanosleep(ticks)
       PROVE  CoreInv'
  BY <1>12, <1>17 DEF SysNanosleep
<1> QED BY <1>7, <1>8, <1>9, <1>10, <1>11, <1>13, <1>14, <1>15, <1>16, <1>17 DEF SystemCall

LEMMA FirstChildOK ==
  ASSUME TableOK(processes, next_pid), Matching # {}
  PROVE  /\ Min(Matching) \in Matching /\ Min(Matching) \in Slots
         /\ FirstChild \in Process
         /\ FirstChild.pid \in Pids \ {0} /\ FirstChild.parent_pid = current_pid
         /\ current_pid \in Int => FirstChild.pid # current_pid
         /\ Present(processes, FirstChild.pid)
         /\ SlotOf(processes, FirstChild.pid) = Min(Matching)
<1> DEFINE m == Min(Matching)
<1>1. Matching \in SUBSET Nat
  BY SlotsNat DEF Matching
<1>2. m \in Matching
  BY <1>1, MinOfNat
<1>3. /\ m \in Slots /\ processes[m].pid # 0 /\ processes[m].parent_pid = current_pid
      /\ FirstChild = processes[m]
  BY <1>2 DEF Matching, FirstChild
<1> HIDE DEF m
<1>4. processes[m] \in Process /\ processes[m].parent_pid < processes[m].pid
  BY <1>3 DEF TableOK
<1>5. FirstChild.pid \in Pids \ {0}
  BY <1>3, <1>4 DEF Process
<1>6. current_pid \in Int => FirstChild.pid # current_pid
  BY <1>3, <1>4, <1>5 DEF Pids
<1>7. Present(processes, FirstChild.pid)
  BY <1>3 DEF Present
<1>8. SlotOf(processes, FirstChild.pid) = m
  BY <1>3, <1>5, <1>7, PresentSlot
<1> QED BY <1>2, <1>3, <1>4, <1>5, <1>6, <1>7, <1>8 DEF m

LEMMA KernelStepOK ==
  ASSUME CoreInv, KernelStep
  PROVE  CoreInv'
<1>1. cpu.at \in {"forkwin", "forkbuild", "wait", "read", "sleep"}
  BY DEF KernelStep, ForkLockStacks, ForkBuildStack, WaitReap, WaitYield, WaitNoChild,
         ReadByte, ReadYield, NanosleepReturn
<1>2. TableOK(processes, next_pid) /\ next_pid \in 1 .. MaxPid + 1 /\ RestOK
  BY <1>1, CoreRest
<1>3. current_pid \in Pids \ {0} /\ Present(processes, current_pid)
  BY <1>1, <1>2, CurrentPresent DEF RestOK
<1>4. StacksOK(stacks) /\ OwnerOK(processes, current_pid) /\ isr \in BOOLEAN
      /\ current_slice \in 0 .. DefaultSlice
  BY <1>2 DEF RestOK
<1>5. ASSUME Schedule(processes, Cont(cpu, FALSE), isr, current_slice), UNCHANGED next_pid
      PROVE  CoreInv'
  <2>1. ContOK(Cont(cpu, FALSE))
    BY <1>2, ContinuationsOK
  <2>2. TableOK(processes', next_pid') /\ RestOK'
    BY <1>2, <1>3, <1>4, <1>5, <2>1, ScheduleOK
  <2> QED BY <1>2, <1>5, <2>2, CoreRest
<1>6. ASSUME cpu' = At("user", 0)
      PROVE  cpu' \in [at : Points, arg : Args] /\ PointOK(cpu') /\ cpu'.at = "user"
  BY <1>6 DEF At, Points, Args, PointOK
<1>7. ASSUME cpu' = At("user", 0),
             UNCHANGED <<processes, next_pid, current_pid, stacks, current_slice, isr>>
      PROVE  CoreInv'
  <2>1. RestOK'
    BY <1>2, <1>3, <1>6, <1>7 DEF RestOK
  <2> QED BY <1>2, <1>7, <2>1, CoreRest
<1>8. CASE ForkLockStacks
  <2> USE <1>8 DEF ForkLockStacks
  <2>1. cpu.arg \in Slots /\ cpu.arg \in Args
    BY <1>2 DEF RestOK, PointOK
  <2>2. cpu' \in [at : Points, arg : Args] /\ PointOK(cpu') /\ cpu'.at = "forkbuild"
    BY <2>1 DEF At, Points, PointOK
  <2>3. RestOK'
    BY <1>2, <1>3, <2>2 DEF RestOK
  <2> QED BY <1>2, <2>3, CoreRest
<1>9. CASE ForkBuildStack
  <2> USE <1>9 DEF ForkBuildStack
  <2>1. cpu.arg \in Slots /\ processes[cpu.arg] \in Process
    BY <1>2 DEF RestOK, PointOK, TableOK
  <2>2. processes[cpu.arg].pid \in Pids
    BY <2>1 DEF Process
  <2> DEFINE st == FreshStack(processes[cpu.arg].pid)
  <2>3. st \in Stack /\ PointOK(st.cont) /\ st.cont.at = "user"
    BY <2>2, FreshStackOK
  <2>4. stacks' = [stacks EXCEPT ![cpu.arg] = st]
    OBVIOUS
  <2> HIDE DEF st
  <2>5. StacksOK(stacks')
    BY <1>4, <2>1, <2>3, <2>4 DEF StacksOK
  <2>6. RestOK'
    BY <1>2, <1>3, <1>6, <2>5 DEF RestOK
  <2> QED BY <1>2, <2>6, CoreRest
<1>10. CASE WaitReap
  <2> USE <1>10 DEF WaitReap
  <2> DEFINE f == SlotOf(processes, FirstChild.pid)
  <2>1. f \in Slots /\ processes[f].pid = FirstChild.pid /\ FirstChild.pid # current_pid
    <3>1. current_pid \in Int
      BY <1>3 DEF Pids
    <3> QED BY <1>2, <3>1, FirstChildOK DEF FirstChild
  <2>2. next_pid \in Nat \ {0}
    BY <1>2
  <2>3. processes' = [processes EXCEPT ![f] = Empty]
    BY DEF Free
  <2> HIDE DEF f
  <2>4. /\ TableOK(processes', next_pid) /\ processes'[f].pid = 0
        /\ \A s \in Slots \ {f} : processes'[s] = processes[s]
    <3>1. TableOK(processes, next_pid) /\ f \in Slots
      BY <1>2, <2>1
    <3>2. /\ TableOK([processes EXCEPT ![f] = Empty], next_pid)
          /\ [processes EXCEPT ![f] = Empty][f].pid = 0
          /\ \A s \in Slots \ {f} : [processes EXCEPT ![f] = Empty][s] = processes[s]
      BY <2>2, <3>1, FreeOK
    <3> QED BY <2>3, <3>2, Zenon
  <2>5. processes'[f].state = "Free"
    BY <2>1, <2>4 DEF TableOK
  <2>6. OwnerOK(processes', current_pid)
    BY <1>3, <1>4, <2>1, <2>4, <2>5 DEF OwnerOK
  <2>7. RestOK'
    BY <1>2, <1>3, <1>6, <2>6 DEF RestOK
  <2> QED BY <1>2, <2>4, <2>7, CoreRest
<1>11. CASE WaitYield
  BY <1>5, <1>11 DEF WaitYield
<1>12. CASE ReadYield
  BY <1>5, <1>12 DEF ReadYield
<1>13. CASE WaitNoChild \/ ReadByte \/ NanosleepReturn
  BY <1>7, <1>13 DEF WaitNoChild, ReadByte, NanosleepReturn
<1> QED BY <1>8, <1>9, <1>10, <1>11, <1>12, <1>13 DEF KernelStep

LEMMA CoreStep == CoreInv /\ [Next]_vars => CoreInv'
<1> SUFFICES ASSUME CoreInv, [Next]_vars
             PROVE  CoreInv'
  OBVIOUS
<1>1. CASE UNCHANGED vars
  BY <1>1 DEF vars, CoreInv, TableOK, StacksOK, PointOK, OwnerOK
<1>2. CASE Next
  BY <1>1, <1>2, BootStep, TickStep, CallStep, KernelStepOK DEF Next, Stopped
<1> QED BY <1>1, <1>2

-----------------------------------------------------------------------------
(***************************************************************************)
(* Type correctness of every reachable state.                              *)
(***************************************************************************)
THEOREM TypeCorrect == Spec => []TypeOK
<1>1. Init => CoreInv
  BY InitOK
<1>2. CoreInv => TypeOK
  BY CoreInvImplies
<1> QED BY <1>1, <1>2, CoreStep, PTL DEF Spec

(***************************************************************************)
(* alloc, free, fork, exit, kill, waitpid and the out-of-memory handler    *)
(* keep PIDs unique, fresh and ordered by parenthood, for every size of    *)
(* the table and every history.                                            *)
(***************************************************************************)
THEOREM TableStaysWellFormed == Spec => []TableWellFormed
<1>1. Init => CoreInv
  BY InitOK
<1>2. CoreInv => TableWellFormed
  BY CoreInvImplies
<1> QED BY <1>1, <1>2, CoreStep, PTL DEF Spec

(***************************************************************************)
(* Whoever is on the CPU is current_pid, has a table entry, and is the     *)
(* only Running process: what fork and user_trampoline unwrap.             *)
(***************************************************************************)
THEOREM CpuHasItsOwner == Spec => []CurrentOwnsCpu
<1>1. Init => CoreInv
  BY InitOK
<1>2. CoreInv => CurrentOwnsCpu
  BY CoreInvImplies
<1> QED BY <1>1, <1>2, CoreStep, PTL DEF Spec

=============================================================================
