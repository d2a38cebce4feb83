--------------------------- MODULE AddressSpaces ----------------------------
(***************************************************************************)
(* The memory of user processes: the ELF loader (kernel/src/userproc.rs),  *)
(* the parts of fork, exec, exit and waitpid that build, replace and free  *)
(* address spaces (kernel/src/syscalls/mod.rs, process.rs) and the switch  *)
(* of CR3, on the frames and page tables of Paging.                        *)
(*                                                                         *)
(* Interrupts are off while a system call works on memory, so each is one  *)
(* step.  Which process runs next is left open: the choice is Scheduler's. *)
(***************************************************************************)
EXTENDS Paging, FiniteSets

CONSTANTS MaxProcesses,  \* MAX_PROCESSES
          MaxPid,        \* bound: the processes ever created
          Images,        \* the ELF files there are
          StackBottom,   \* the first page of the user stack
          StackTop,      \* the page of USER_STACK_TOP, mapped as well
          Writes         \* what programs write: pairs of address and word

ASSUME MaxProcessesAssumption == MaxProcesses \in Nat /\ MaxPid \in Nat
ASSUME StackAssumption ==
  /\ StackBottom \in Pages /\ StackTop \in Pages /\ StackBottom < StackTop
  /\ StackBottom \div W = StackTop \div W /\ StackTop \div W \in 1 .. W - 2
ASSUME WritesAssumption == Writes \subseteq Vaddrs \X Nat
ASSUME ArgumentBlockAssumption == W >= 5      \* it fits into its frame

VARIABLES machine,      \* mem, free_stack, root and ok of Paging
          procs,        \* state (Alive is Ready, Running or Blocked),
                        \* parent and cr3 of every process
          next_pid,     \* ProcessTable::next_pid
          current_pid,  \* ProcessTable::current_pid
          cr3,          \* the register: 0 is the bootloader's PML4
          expected,     \* what each process has in its memory: written by
                        \* the loader, by fork and by the program itself
          spoilt        \* the kernel wrote where nothing can be said of
                        \* what follows: see Spoil

vars == <<machine, procs, next_pid, current_pid, cr3, expected, spoilt>>

Pids == 1..MaxPid
Nobody == [state |-> "Free", parent |-> 0, cr3 |-> 0]
InTable == {p \in Pids : procs[p].state # "Free"}
TableFull == Cardinality(InTable) >= MaxProcesses
Unmapped == -1

-----------------------------------------------------------------------------
(***************************************************************************)
(* ELF.  An image is the verdict on its header, the contents of the file   *)
(* and its program headers.  parse_elf_segments keeps those of PT_LOAD,    *)
(* map_elf_segment returns at once from a segment that takes no memory.    *)
(***************************************************************************)
Loads(seg) == seg.load /\ seg.memsz # 0

FirstPage(seg) == seg.vaddr \div W
LastPage(seg)  == (seg.vaddr + seg.memsz) \div W
PagesOf(seg)   == [n \in 1 .. LastPage(seg) - FirstPage(seg) + 1 |-> FirstPage(seg) + n - 1]

(***************************************************************************)
(* The part of the segment's file data that goes into a page, as offsets   *)
(* in the segment, and the words of the page once it is copied.  Data that *)
(* would come from behind the end of the file is not copied.               *)
(***************************************************************************)
Copied(image, seg, page, words) ==
  LET from == IF page * W > seg.vaddr THEN page * W - seg.vaddr ELSE 0
      to == IF (page + 1) * W > seg.vaddr + seg.filesz THEN seg.filesz
            ELSE (page + 1) * W - seg.vaddr
      src == seg.offset + from
      dst == (IF page * W < seg.vaddr THEN seg.vaddr ELSE page * W) % W
  IN IF to <= from \/ from >= seg.filesz \/ src + to - from > Len(image.file) THEN words
     ELSE [i \in Indices |-> IF i \in dst .. dst + to - from - 1
                             THEN image.file[src + i - dst + 1] ELSE words[i]]

(***************************************************************************)
(* map_elf_segment: a page that another segment mapped is used again as it *)
(* is; the last page is the one that holds the address behind the segment. *)
(***************************************************************************)
\* Mutant: a page shared with an earlier segment is cleared.
LoadPageCleared(m, image, seg, page) ==
  LET reused == m.ok /\ Translate(m.mem, m.root, page) # 0
      n == IF reused THEN m ELSE MapUserPageAlloc(m, page)
  IN IF ~n.ok THEN n
     ELSE [n EXCEPT !.mem[Translate(n.mem, n.root, page)] = Copied(image, seg, page, Zeroes)]

LoadPage(m, image, seg, page) ==
  LET reused == m.ok /\ Translate(m.mem, m.root, page) # 0
      n == IF reused THEN m ELSE MapUserPageAlloc(m, page)
  IN IF ~n.ok THEN n
     ELSE [n EXCEPT !.mem[Translate(n.mem, n.root, page)] =
             Copied(image, seg, page, IF reused THEN @ ELSE Zeroes)]

MapElfSegment(m, image, seg) ==
  IF ~Loads(seg) THEN m
  ELSE FoldLeft(LAMBDA n, page : LoadPage(n, image, seg, page), m, PagesOf(seg))

(***************************************************************************)
(* The loader checks nothing of a program header.  An image is InUserPart  *)
(* when no segment reaches the kernel's entry of the PML4.  It is          *)
(* WellFormed when the file data of its segments lies in the file and is   *)
(* no longer than the segment, as ELF demands.                             *)
(***************************************************************************)
ASSUME ImagesAssumption ==
  \A image \in Images :
    /\ image.file \in Seq(Nat)
    /\ image.headers \in Seq([load : BOOLEAN, vaddr : Nat, offset : Nat, filesz : Nat, memsz : Nat])

InUserPart(image) ==
  image.valid => \A n \in DOMAIN image.headers :
                   Loads(image.headers[n]) => LastPage(image.headers[n]) \div W < W - 1

WellFormed(image) ==
  \A n \in DOMAIN image.headers :
    Loads(image.headers[n]) =>
      /\ image.headers[n].filesz <= image.headers[n].memsz
      /\ image.headers[n].offset + image.headers[n].filesz <= Len(image.file)

StackPages == [n \in 1 .. StackTop - StackBottom + 1 |-> StackBottom + n - 1]

MapUserStack(m) == FoldLeft(MapUserPageAlloc, m, StackPages)

LoadElfIntoNewSpace(m, image) ==
  IF ~image.valid THEN Fail(m)
  ELSE MapUserStack(FoldLeft(LAMBDA n, seg : MapElfSegment(n, image, seg),
                             NewUser(m, cr3), image.headers))

-----------------------------------------------------------------------------
(***************************************************************************)
(* What a process finds at an address, and what the loader ought to put    *)
(* there: the file data of the last segment that covers the address, zero  *)
(* elsewhere in the pages of the segments and in the stack.                *)
(***************************************************************************)
View(mem, root) ==
  [v \in Vaddrs |-> LET frame == Translate(mem, root, v \div W)
                    IN IF frame = 0 THEN Unmapped ELSE mem[frame][v % W]]

LoadedImage(image) ==
  LET segs == image.headers
      Spans(n, v) == Loads(segs[n]) /\ v \div W \in FirstPage(segs[n]) .. LastPage(segs[n])
      Holds(n, v) == Loads(segs[n]) /\ v \in segs[n].vaddr .. segs[n].vaddr + segs[n].filesz - 1
  IN [v \in Vaddrs |->
        LET last == {n \in DOMAIN segs : Holds(n, v) /\ \A k \in DOMAIN segs : Holds(k, v) => k <= n}
        IN CASE last # {} -> LET n == CHOOSE k \in last : TRUE
                             IN image.file[segs[n].offset + v - segs[n].vaddr + 1]
             [] last = {} /\ (\/ \E n \in DOMAIN segs : Spans(n, v)
                              \/ v \div W \in StackBottom..StackTop) -> 0
             [] OTHER -> Unmapped]

(***************************************************************************)
(* Nothing is promised of an image that is not WellFormed: its process has *)
(* what the loader put there.                                              *)
(***************************************************************************)
Promised(m, image) ==
  IF WellFormed(image) THEN LoadedImage(image) ELSE View(m.mem, m.root)

\* The frames a process goes through to reach an address.
Walk(mem, root, v) ==
  {root, mem[root][(v \div W) \div W], Translate(mem, root, v \div W)}

-----------------------------------------------------------------------------
Init ==
  /\ machine = [mem |-> [f \in Frames |-> Zeroes], free_stack |-> [n \in 1..NFrames |-> n],
                root |-> 0, ok |-> TRUE]
  /\ procs = [p \in Pids |-> Nobody]
  /\ next_pid = 1
  /\ current_pid = 0
  /\ cr3 = 0
  /\ expected = [p \in Pids |-> [v \in Vaddrs |-> Unmapped]]
  /\ spoilt = FALSE

\* The operation is over: the handle of the address space is dropped.
Done(m) == machine' = [m EXCEPT !.root = 0, !.ok = TRUE]

(***************************************************************************)
(* The kernel has written through its own entry of the PML4, a non-zero    *)
(* word into a page table, or behind the memory of the allocator.  The     *)
(* behaviour ends here: what the machine does next is not modelled.        *)
(***************************************************************************)
Spoil(m) ==
  /\ Done(m)
  /\ spoilt' = TRUE
  /\ UNCHANGED <<procs, next_pid, current_pid, cr3, expected>>

(***************************************************************************)
(* A new process with the space m.root, if there is a slot.  Otherwise the *)
(* space stays allocated and nobody knows of it, as after a failure.       *)
(***************************************************************************)
Enter(m, parent, image) ==
  /\ Done(m)
  /\ IF ~m.ok \/ TableFull
     THEN UNCHANGED <<procs, next_pid, expected>>
     ELSE /\ procs' = [procs EXCEPT ![next_pid] =
                         [state |-> "Alive", parent |-> parent, cr3 |-> m.root]]
          /\ expected' = [expected EXCEPT ![next_pid] = image]
          /\ next_pid' = next_pid + 1
  /\ UNCHANGED <<current_pid, cr3, spoilt>>

(***************************************************************************)
(* spawn_user_process, called by kernel_main before the scheduler starts.  *)
(***************************************************************************)
SpawnUserProcess(image) ==
  /\ ~spoilt /\ current_pid = 0
  /\ next_pid <= MaxPid
  /\ \/ /\ InUserPart(image)
        /\ \E m \in {LoadElfIntoNewSpace(machine, image)} : Enter(m, 0, Promised(m, image))
     \/ ~InUserPart(image) /\ Spoil(machine)

(***************************************************************************)
(* do_context_switch, or user_trampoline at the first dispatch: CR3 gets   *)
(* the PML4 of the process.                                                *)
(***************************************************************************)
\* Mutant: the address space of the previous process stays active.
DispatchKeepsCr3(p) ==
  /\ ~spoilt /\ procs[p].state = "Alive" /\ p # current_pid
  /\ current_pid' = p
  /\ UNCHANGED <<machine, procs, next_pid, cr3, expected, spoilt>>

Dispatch(p) ==
  /\ ~spoilt /\ procs[p].state = "Alive" /\ p # current_pid
  /\ current_pid' = p
  /\ cr3' = procs[p].cr3
  /\ UNCHANGED <<machine, procs, next_pid, expected, spoilt>>

Running == ~spoilt /\ current_pid # 0 /\ procs[current_pid].state = "Alive"

SysFork ==
  /\ Running
  /\ next_pid <= MaxPid
  /\ \E m \in {CloneUserSpace(machine, procs[current_pid].cr3, cr3)} :
       Enter(m, current_pid, expected[current_pid])

(***************************************************************************)
(* sys_exec.  The argument block is meant for the page below USER_STACK_   *)
(* TOP.  translate returns the address of the LAST byte of that page, to   *)
(* which another page size is added: the block ends with the frame that    *)
(* follows it in physical memory.  From above: the string of the argument, *)
(* its address, NULL and argc.  Without an argument the last word is left  *)
(* out by the alignment.                                                   *)
(***************************************************************************)
ArgumentFrame(m) == Translate(m.mem, m.root, StackTop - 1) + 1

ArgumentCounts == {0, 1}     \* bound: the arguments of an exec

ArgumentBlock(argc, words) ==
  [i \in Indices |-> CASE argc = 1 /\ i = W - 1 -> 1
                       [] argc = 1 /\ i = W - 2 -> StackTop * W - 1
                       [] i = W - 2 - argc -> 0
                       [] i = W - 3 - argc -> argc
                       [] OTHER -> words[i]]

PushArguments(m, argc) ==
  IF ArgumentFrame(m) \notin Frames THEN m
  ELSE [m EXCEPT !.mem[ArgumentFrame(m)] = ArgumentBlock(argc, @)]

\* The PML4s and the tables in use, those of the new space among them.
SpaceTables(mem, root) == {root} \union {mem[root][i] : i \in Indices}
TablesInUse(m) ==
  UNION {SpaceTables(m.mem, root) : root \in {m.root} \union {procs[p].cr3 : p \in InTable}}

Spoils(m, argc) ==
  \/ ArgumentFrame(m) \notin Frames
  \/ argc # 0 /\ ArgumentFrame(m) \in TablesInUse(m)

(***************************************************************************)
(* Then the old space is freed, while CR3 still points to it, and          *)
(* restart_current enters the new one.                                     *)
(***************************************************************************)
Replace(m, old) ==
  /\ Done(DeallocUser(m, old))
  /\ procs' = [procs EXCEPT ![current_pid].cr3 = m.root]
  /\ cr3' = m.root

\* expected is what the loader promises, but for what the argument block hit.
ExecDamage(m, image, argc) ==
  LET ideal == [expected EXCEPT ![current_pid] = Promised(m, image)]
      root(p) == IF p = current_pid THEN m.root ELSE procs[p].cr3
      hit == PushArguments(m, argc).mem
  IN [p \in Pids |->
        IF p \notin InTable THEN ideal[p]
        ELSE LET seen == View(hit, root(p)) IN
             [v \in Vaddrs |-> IF ArgumentFrame(m) \in Walk(hit, root(p), v)
                               THEN seen[v] ELSE ideal[p][v]]]

\* Mutant: the old space is freed before the new one is built.
SysExecFreesFirst(image, argc) ==
  /\ Running
  /\ InUserPart(image)
  /\ \E m \in {LoadElfIntoNewSpace(DeallocUser(machine, procs[current_pid].cr3), image)} :
       /\ m.ok
       /\ Done(PushArguments(m, argc))
       /\ procs' = [procs EXCEPT ![current_pid].cr3 = m.root]
       /\ cr3' = m.root
       /\ expected' = ExecDamage(m, image, argc)
  /\ UNCHANGED <<next_pid, current_pid, spoilt>>

SysExec(image, argc) ==
  /\ Running
  /\ \/ ~InUserPart(image) /\ Spoil(machine)
     \/ /\ InUserPart(image)
        /\ \E m \in {LoadElfIntoNewSpace(machine, image)} :
             \/ /\ ~m.ok
                /\ Done(m)
                /\ UNCHANGED <<procs, next_pid, current_pid, cr3, expected, spoilt>>
             \/ m.ok /\ Spoils(m, argc) /\ Spoil(PushArguments(m, argc))
             \/ /\ m.ok /\ ~Spoils(m, argc)
                /\ Replace(PushArguments(m, argc), procs[current_pid].cr3)
                /\ expected' = ExecDamage(m, image, argc)
                /\ UNCHANGED <<next_pid, current_pid, spoilt>>

(***************************************************************************)
(* The program, or the kernel on its behalf, stores a word.                *)
(***************************************************************************)
UserWrite(v, word) ==
  /\ Running
  /\ \E frame \in {Translate(machine.mem, cr3, v \div W)} :
       /\ frame \in Frames
       /\ machine' = [machine EXCEPT !.mem[frame][v % W] = word]
  /\ expected' = [expected EXCEPT ![current_pid][v] = word]
  /\ UNCHANGED <<procs, next_pid, current_pid, cr3, spoilt>>

SysExit ==
  /\ Running
  /\ procs' = [procs EXCEPT ![current_pid].state = "Zombie"]
  /\ UNCHANGED <<machine, next_pid, current_pid, cr3, expected, spoilt>>

(***************************************************************************)
(* sys_waitpid frees a dead child with its address space.                  *)
(***************************************************************************)
SysWaitpid(p) ==
  /\ Running
  /\ procs[p].state = "Zombie" /\ procs[p].parent = current_pid
  /\ Done(DeallocUser(machine, procs[p].cr3))
  /\ procs' = [procs EXCEPT ![p] = Nobody]
  /\ expected' = [expected EXCEPT ![p] = [v \in Vaddrs |-> Unmapped]]
  /\ UNCHANGED <<next_pid, current_pid, cr3, spoilt>>

Next ==
  \/ \E image \in Images :
       SpawnUserProcess(image) \/ \E argc \in ArgumentCounts : SysExec(image, argc)
  \/ \E p \in Pids : Dispatch(p) \/ SysWaitpid(p)
  \/ SysFork \/ SysExit
  \/ \E w \in Writes : UserWrite(w[1], w[2])

Spec == Init /\ [][Next]_vars

=============================================================================
