------------------------------- MODULE Paging -------------------------------
(***************************************************************************)
(* The frame allocator (kernel/src/memory/frame_allocator.rs) and the user *)
(* address spaces (kernel/src/memory/page_table.rs).                       *)
(*                                                                         *)
(* Memory is a function from frames to words, and page tables lie in it:   *)
(* a frame of W words is a page or a table of W entries.  Of the four      *)
(* levels two are kept, the PML4 and one table for each of its entries     *)
(* (it stands for the PDPT, PD and PT below it), so that a page number is  *)
(* PML4 index * W + table index and an address is page * W + offset.       *)
(* An entry is 0 (not PRESENT), a frame of the allocator (PRESENT and      *)
(* USER_ACCESSIBLE) or a larger number, a table of the kernel.             *)
(*                                                                         *)
(* The operators take and return the machine m they work on:               *)
(*   mem         the contents of every frame                               *)
(*   free_stack  BootInfoFrameAllocator::free_stack up to top              *)
(*   root        the PML4 of the AddressSpace the call works on            *)
(*   ok          FALSE once a call returned Err: `?' ends the operation,   *)
(*               and what it did so far stays done                         *)
(***************************************************************************)
EXTENDS Integers, Sequences, SequencesExt

CONSTANTS NFrames,   \* usable frames of the machine, at most MAX_FRAMES
          W          \* words of a frame, entries of a table

ASSUME NFramesAssumption == NFrames \in Nat \ {0}
ASSUME WAssumption == W \in Nat /\ W >= 3

Frames   == 1..NFrames
Indices  == 0 .. W - 1
Pages    == 0 .. W * W - 1
Vaddrs   == 0 .. W * W * W - 1
Zeroes   == [i \in Indices |-> 0]

UserRegion == 0        \* PML4 index 0: where ELF segments are loaded

\* The PML4 of the bootloader: kernel entries, also in the user region.
BootPml4 == [i \in Indices |-> IF i \in {UserRegion, W - 1} THEN NFrames + 1 + i ELSE 0]

Fail(m) == [m EXCEPT !.ok = FALSE]

(***************************************************************************)
(* allocate_frame pops the stack and zeroes the frame; the callers ask     *)
(* NoFrames first, the None of the code.  deallocate_frame pushes, unless  *)
(* the stack is full.                                                      *)
(***************************************************************************)
NoFrames(m) == m.free_stack = <<>>
TopFrame(m) == Last(m.free_stack)

AllocateFrame(m) ==
  [m EXCEPT !.free_stack = Front(@), !.mem[TopFrame(m)] = Zeroes]

DeallocateFrame(m, frame) ==
  IF Len(m.free_stack) >= NFrames THEN m
  ELSE [m EXCEPT !.free_stack = Append(@, frame)]

(***************************************************************************)
(* AddressSpace::new_user: a fresh PML4 with the kernel entries of the     *)
(* active one, cr3 (0: the bootloader's).  The user region and whatever is *)
(* USER_ACCESSIBLE are not inherited.                                      *)
(***************************************************************************)
Pml4At(m, cr3) == IF cr3 = 0 THEN BootPml4 ELSE m.mem[cr3]

KernelEntries(pml4) ==
  [i \in Indices |-> IF i = UserRegion \/ pml4[i] \in Frames THEN 0 ELSE pml4[i]]

NewUser(m, cr3) ==
  IF NoFrames(m) THEN Fail(m)
  ELSE LET n == [AllocateFrame(m) EXCEPT !.root = TopFrame(m)]
       IN [n EXCEPT !.mem[n.root] = KernelEntries(Pml4At(n, cr3))]

(***************************************************************************)
(* map_user_page: map_to allocates a missing table and refuses a page that *)
(* is mapped.  map_user_page_alloc takes the frame of the page first; it   *)
(* is lost when the mapping fails.                                         *)
(***************************************************************************)
TableFor(m, page) ==
  CASE m.mem[m.root][page \div W] # 0 -> m
    [] m.mem[m.root][page \div W] = 0 /\ NoFrames(m) -> Fail(m)
    [] OTHER -> [AllocateFrame(m) EXCEPT !.mem[m.root][page \div W] = TopFrame(m)]

MapUserPage(m, page, frame) ==
  LET n == TableFor(m, page)
      table == n.mem[n.root][page \div W]
  IN IF ~n.ok \/ n.mem[table][page % W] # 0 THEN Fail(n)
     ELSE [n EXCEPT !.mem[table][page % W] = frame]

MapUserPageAlloc(m, page) ==
  IF ~m.ok \/ NoFrames(m) THEN Fail(m)
  ELSE MapUserPage(AllocateFrame(m), page, TopFrame(m))

(***************************************************************************)
(* translate: the frame a page is mapped to, 0 if it is not mapped.        *)
(***************************************************************************)
Translate(mem, root, page) ==
  IF mem[root][page \div W] \notin Frames THEN 0
  ELSE mem[mem[root][page \div W]][page % W]

(***************************************************************************)
(* clone_user_space: every user page of the source, in ascending order, is *)
(* mapped to a frame of its own and copied.                                *)
(***************************************************************************)
PagesInOrder == [n \in 1 .. W * W |-> n - 1]

\* Mutant: the child shares the frames of its parent.
ShareUserPage(m, source, page) ==
  IF ~m.ok \/ Translate(m.mem, source, page) = 0 THEN m
  ELSE MapUserPage(m, page, Translate(m.mem, source, page))

CloneUserPage(m, source, page) ==
  LET src == Translate(m.mem, source, page)
      n == MapUserPageAlloc(m, page)
  IN IF ~m.ok \/ src = 0 THEN m
     ELSE IF ~n.ok THEN n
     ELSE [n EXCEPT !.mem[Translate(n.mem, n.root, page)] = n.mem[src]]

CloneUserSpace(m, source, cr3) ==
  FoldLeft(LAMBDA n, page : CloneUserPage(n, source, page), NewUser(m, cr3), PagesInOrder)

(***************************************************************************)
(* dealloc_user: the pages and the table of the user region, then the      *)
(* PML4.  Nothing else of the space is freed.                              *)
(***************************************************************************)
FramesOfTable(m, table) == Append([n \in 1..W |-> m.mem[table][n - 1]], table)

FramesFreed(m, root) ==
  LET table == m.mem[root][UserRegion] IN
  IF table = 0 THEN <<root>> ELSE Append(FramesOfTable(m, table), root)

FreeEntry(m, entry) == IF entry = 0 THEN m ELSE DeallocateFrame(m, entry)

DeallocUser(m, root) == FoldLeft(FreeEntry, m, FramesFreed(m, root))

=============================================================================
