------------------------- MODULE AddressSpacesProps -------------------------
(***************************************************************************)
(* What the memory of user processes must satisfy, and the statements of   *)
(* the code's comments that it does not.                                   *)
(***************************************************************************)
EXTENDS AddressSpaces

FreeFrames == ToSet(machine.free_stack)

(***************************************************************************)
(* Type invariant: between operations no call is in progress, and CR3 is   *)
(* the bootloader's PML4 exactly until the first dispatch.                 *)
(***************************************************************************)
TypeOK ==
  /\ machine.mem \in [Frames -> [Indices -> Nat]]
  /\ FreeFrames \subseteq Frames
  /\ machine.root = 0 /\ machine.ok
  /\ \A p \in Pids : /\ procs[p].state \in {"Free", "Alive", "Zombie"}
                     /\ procs[p].parent \in 0..MaxPid
                     /\ procs[p].cr3 \in 0..NFrames
  /\ next_pid \in 1 .. MaxPid + 1
  /\ current_pid \in 0..MaxPid
  /\ cr3 = IF current_pid = 0 THEN 0 ELSE procs[current_pid].cr3
  /\ spoilt \in BOOLEAN

(***************************************************************************)
(* Every frame has at most one use: it is once on the free stack, or the   *)
(* PML4, a table or a page of one process, at one place.  In particular no *)
(* frame is freed twice, and CR3 never points to a free frame, although    *)
(* exec and waitpid free spaces, failures stop halfway and a recycled      *)
(* frame may have been a table before.  It ends with the first image that  *)
(* reaches into the kernel's part, and with the first argument block that  *)
(* brings a non-zero word into a table or leaves the frames: dealloc_user  *)
(* takes such a word for a frame and frees it.                             *)
(***************************************************************************)
Uses(p) ==
  LET root == procs[p].cr3
      tables == {<<i, -1>> : i \in {i \in Indices : machine.mem[root][i] \in Frames}}
      pages == UNION {{<<t[1], j>> : j \in {j \in Indices :
                         machine.mem[machine.mem[root][t[1]]][j] # 0}} : t \in tables}
  IN {<<p, -1, -1, root>>}
     \union {<<p, t[1], -1, machine.mem[root][t[1]]>> : t \in tables}
     \union {<<p, g[1], g[2], machine.mem[machine.mem[root][g[1]]][g[2]]>> : g \in pages}

UsedFrames == {u[4] : u \in UNION {Uses(p) : p \in InTable}}

OneUsePerFrame == ~spoilt =>
  LET uses == UNION {Uses(p) : p \in InTable} IN
  /\ IsInjective(machine.free_stack)
  /\ \A u, w \in uses : u[4] = w[4] => u = w
  /\ UsedFrames \intersect FreeFrames = {}
  /\ UsedFrames \subseteq Frames
  /\ cr3 \notin FreeFrames

(***************************************************************************)
(* Every process finds in its memory what the loader, its parent at the    *)
(* time of the fork and the process itself put there, whatever the others  *)
(* did and whatever the frames held before.  For a WellFormed image this   *)
(* is the definition of ELF: the file data of each segment at its          *)
(* addresses and zero around it, also where segments share a page.  What   *)
(* the stray argument block of exec hit is exempt, and it ends where       *)
(* OneUsePerFrame ends.                                                    *)
(***************************************************************************)
MemoryAsWritten == ~spoilt =>
  \A p \in InTable : View(machine.mem, procs[p].cr3) = expected[p]

(***************************************************************************)
(* The kernel stays mapped in every address space: fork and exec take the  *)
(* kernel's entries from the PML4 of whoever runs (system calls and        *)
(* interrupts run on it), so that PML4 must not be freed and reused first. *)
(* It ends where OneUsePerFrame ends.                                      *)
(***************************************************************************)
KernelMapped == ~spoilt =>
  \A p \in InTable : machine.mem[procs[p].cr3][W - 1] = BootPml4[W - 1]

-----------------------------------------------------------------------------
(***************************************************************************)
(* A step of one process does not change what another one finds in its     *)
(* memory.  exec breaks it: "Push argv/argc onto the NEW user stack (top   *)
(* page of the new space)" (syscalls/mod.rs).                              *)
(***************************************************************************)
OthersUntouched ==
  [][\A p \in InTable \ {current_pid} :
       procs'[p] = procs[p] =>
         View(machine'.mem, procs[p].cr3) = View(machine.mem, procs[p].cr3)]_vars

=============================================================================
