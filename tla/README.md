# Verification of the AeroOS kernel

AeroOS is a small x86-64 kernel in Rust with user-mode programs (window manager,
Flutter shell, utilities). This directory holds TLA+ models of the kernel, their
TLC configurations and TLAPS proofs. Paths below are relative to `src/`.

`tlc -config X.cfg M` checks a run (`PROJECT.json` lists module and cfg of each),
`tlapm M.tla` checks the proofs of a module.

## 1. Inventory

One CPU, no threads in the kernel, no paging to disk. All concurrency comes from
two sources: hardware interrupts, and the switch of kernel stacks in the scheduler.
Every gate of the IDT is an interrupt gate, so system calls and handlers run with
interrupts off unless they turn them on (`sys_fork` does) or switch away.

| Component | State | Operations | Hard behaviour | What makes it correct |
|---|---|---|---|---|
| Process table, `kernel/src/process.rs` | 32 slots, `next_pid`, `current_pid` | `alloc`, `free`, `get`, `mark_exit`, `reap_zombies` | slots reused by processes of other PIDs; a PID outlives its slot in callers | PIDs unique and fresh, entry of the current process present |
| Scheduler, `scheduler.rs` | a kernel stack with saved context per slot, slice | `on_timer_tick`, `schedule`, `switch_to_next`, `do_context_switch`, `yield_now`, `restart_current` | the handler that calls it may never come back; contexts go stale | one Running process, every Ready one has its own context, none starves |
| Process calls, `syscalls/mod.rs` | (table, stacks) | `exit`, `fork`, `exec`, `waitpid`, `kill`, `nanosleep`, console `read` | polling loops with yields; a window with interrupts on in `fork` | only a parent reaps; waiting ends; the dead stay dead |
| Signals, `signal.rs` | `pending_signals` | `send_signal`, `deliver_pending` | a signal to oneself, to a dead process, shift overflow | a user process ends nobody else |
| Out of memory, `oom.rs`, `lib.rs` | (table) | `handle_oom`, `alloc_error` | runs in the middle of any call | the table stays well formed |
| Permissions, `perm.rs` | none | `check_permission` | - | see signals |
| Interrupts, `interrupts/idt.rs` | in-service bit of the PIC | timer, keyboard, mouse, faults | acknowledgement after the scheduler ran | interrupts keep coming (they do not: `doc_preempt`) |
| Scan codes, `interrupts/mod.rs` | ring buffer, two cursors | `push`, `pop` | full and empty look alike but for one slot | a bounded FIFO |
| Mouse, `interrupts/mouse.rs` | packet bytes, deltas, buttons | `on_byte`, `drain` | a packet spans three interrupts; saturating sums | motion neither lost nor invented |
| Input events, `syscalls/input.rs` | none | `poll_next` | recursion under a lock | every event is reported |
| Descriptors, `syscalls/fd.rs`; VFS and tmpfs, `fs/` | descriptor tables, mounts, inodes, offsets | `open`, `read`, `write`, `close`, `mkdir`, `unlink`, `getdents`, `chdir` | tables shared through fork and exec, unlink of open files | reads return what was written |
| FAT32, `fs/fat32.rs` | FAT in memory and on the disk, directories, inode table | `lookup`, `readdir`, `create`, `mkdir`, `write`, `unlink`, mount | several disk writes per operation, errors and loss of power in between, inodes found by cluster | chains whole and apart, a restart finds a sound disk, a write changes only its range |
| Memory, `memory/` | stack of free frames, page tables in frames | `allocate_frame`, `map_user_page`, `clone_user_space`, `dealloc_user` | partial failure in spawn, fork, exec; recycled frames; freeing the active space | every frame has one use, processes keep their contents |
| ELF loader, `userproc.rs`; `.aero`, `aero_format.rs` | none | parse, map segments | size arithmetic | pages cover exactly the segments |
| ATA `ata.rs`, USB `usb/` | device registers | sector I/O, control transfers | time-outs | - |
| Window manager, `wm/src/` | window list, stacking order, cursor, drag | create, destroy, raise, route events, composite | order of events, windows that go during a drag | one focus, clicks go to what is seen, no window out of reach |
| Console, graphics, shell, adapter | output | - | - | - |

Interaction: the timer interrupt calls the scheduler, which works on the process table and the
kernel stacks; system calls call the table, the scheduler, signals and permissions; keyboard
and mouse interrupts fill buffers that `poll_input` and the keyboard device empty. The window
manager is written to poll those events through a system call, but its wrappers are stubs in
this tree (section 2, WindowManager). Spawn, fork, exec and the reaping of a child build, copy
and free address spaces; exec reads its image through the file layer, under which FAT32 is
mounted at `/disk`. `PROJECT.json` lists every component with its status and every hazard with
its line.

## 2. Modules

| Module | Role |
|---|---|
| `Processes` | the table, signals, privilege check and out-of-memory handler as operators on a table |
| `Scheduler` | state machine: boot, timer interrupt, context switch, calls and faults |
| `SchedulerProps` | invariants, action properties, fairness, liveness |
| `SchedulerProofs` | inductive invariant and theorems for the core |
| `ContextProofs` | contexts, reaping, death and privilege, from the core |
| `Least` | `Min` and `Max` of sets of naturals; what every round of a fold keeps holds of its result |
| `ScancodeQueue` | abstract bounded queue |
| `Input` | ring buffer, mouse decoder, interrupts, polls |
| `InputProps` | refinement of the queue, history variable `truth`, properties |
| `InputMC` | the packets of the small instance |
| `InputProofs` | the refinement for every buffer size, and the motion of the mouse |
| `FileStore` | abstract store: objects that live at paths |
| `Files` | descriptor tables, mounts, path resolution, tmpfs, file calls |
| `FilesProps` | the tree, the refinement of `FileStore`, offsets |
| `FilesMC` | the paths of the small instance |
| `FilesProofs` | tree, descriptors and offsets, the refinement of `FileStore`, and that `resolve` finds what is there, for any paths and processes |
| `Paging` | frame allocator and address spaces as operators on a machine whose page tables lie in its frames |
| `AddressSpaces` | ELF loader, spawn, fork, exec, exit and waitpid as far as they touch memory, the switch of CR3 |
| `AddressSpacesProps`, `AddressSpacesMC` | use of frames, contents of memory; the images of the small instance |
| `AddressSpacesProofs` | one use for every frame and the contents of memory, for any memory, processes and images |
| `Fat32` | the FAT32 driver with its disk, disk errors and loss of power |
| `Fat32Props`, `Fat32MC` | chains, directories, restart, sizes; small disks |
| `Fat32Proofs` | all invariants of the driver, for every disk, set of names and number of files |
| `WindowManager` | window list, cursor, router, compositor |
| `WindowManagerProps`, `WindowManagerMC` | focus, drag, reach, what is seen; a small screen |
| `WindowManagerProofs` | focus, drag, reach, hit test and what is seen, for every screen |

### Processes and Scheduler

`processes`, `next_pid`, `current_pid`, `current_slice` are the fields of the same
name. `stacks[s]` is `KERNEL_STACKS[s]`: whether it is initialised, and the context
`saved_rsp` points to, abstracted to the program point it resumes and the PID it
belongs to. The code has no owner field: `owner` is a history value that makes a
stale context visible (`cpu.at = "wild"`). `cpu` is the program point of the CPU,
`isr` the in-service bit of the timer at the PIC.

A call is one step as far as it runs with interrupts off. `fork` takes three
(`SysFork`, `ForkLockStacks`, `ForkBuildStack`) because it turns interrupts on in
between. `waitpid` and the console read loop around `yield_now`; each look at the
table is a step, and a process that is switched out in the loop has `wait` or `read`
as its saved program point. `do_context_switch` is one operator, used by ticks,
yields and exits alike; it gives up if the stack lock is held and parks a process that
has no context as Blocked, as the code does. Console input (`ReadByte` against
`ReadYield`) and what programs do next (`Calls`) are nondeterministic.

`AutoEoi` says whether the interrupt controller acknowledges by itself. The PIC is
programmed by the library `pic8259`, without automatic acknowledgement, so FALSE is
the system as built. TRUE explores the scheduling logic with interrupts that keep
coming, which FALSE hides: as built no tick is delivered after the first dispatch (`TicksEnd`,
`doc_preempt`).

Left out: address spaces and descriptor tables, which `AddressSpaces` and `Files` model
(fork and exec are modelled here from the point where the new image exists, their failure
returns are stuttering steps), names, priorities, and the text of messages.

### Input

`buf`, `head`, `tail`, `buttons`, `dx`, `dy` are the fields; `packet` holds the
`packet_idx` bytes collected so far. `wire` is what the mouse has still to send of its
current packet, each byte an interrupt of its own. Polls and reads are system calls
and single steps. `taken` is what the last consumer got, `hung` the spin on a lock held
by the caller. The bytes of a packet
are decoded as the code does, sign and overflow bits included; `DeltaMax` stands for
32767. The ASCII translation of a key is left out. `truth`, the motion sent, is computed with
the same decoder: `MotionConserved` finds lost, doubled and misplaced bytes, not a wrong decoding.

### Files

`inodes` and `next_inode` are the fields of `TmpfsInner`; `tables[p]` is the `fd_table` of
process p from descriptor 3 on, each entry a mount, an inode and an offset. System calls run
with interrupts off, so each is one step. A path is the sequence of strings between its
slashes, which keeps what the three ways of cutting a path tell apart: `find_mount` and
`resolve` (`FindMount`, `Components`, and `Walk`, which skips the empty ones),
`split_parent_name` for `open` (`SplitParentName`), and `rsplit_once` for `mkdir` and `unlink`
(`RsplitOnce`). A call that fails without an effect is a stuttering step; one that fails
halfway is an action: `open` with `O_CREAT` creates the file first, and keeps it when no
descriptor is free. Devices have names and offsets; they transfer any number of bytes. `Clear`
is the effect of a fatal signal, after which a process that sent it to itself goes on.

`FileStore` is the promise: objects get fresh numbers, live at one path each, and an
unlink takes what lies below out of the name space. The refinement mapping reads the
place of an inode off the directories, upwards from its entry, while `resolve` walks
downwards.

Left out: the FAT32 disk under `/disk` (see `Fat32`), the legacy descriptor kinds that nothing
allocates, calls that only read (`stat`, `getdents`, `getcwd`), and `chdir`, whose
current directory is one variable for all processes that no resolution uses.

### Paging and AddressSpaces

`machine.mem` is physical memory by frames, and page tables lie in it: an entry is a word
of a frame. A frame that is recycled therefore brings its old contents along, and a stray
write can hit a table. `free_stack` is the stack of the allocator, last in first out as in
the code, because which frame comes next decides who is hit. `root` and `ok` are the handle
and the verdict of the operation in progress; an operation that fails stops where it is and
leaves what it allocated, as `?` does. `cr3` is the register, `procs[p].cr3` the field.

An image is a sequence of program headers with the words of its file; `MapElfSegment`
computes pages and copy ranges as the code does, `LoadedImage` says word by word what
memory should hold afterwards. `Loads` says which headers take memory: those that are of
PT_LOAD (`parse_elf_segments`) and not empty. The loader checks nothing else of a program
header, so images are arbitrary. `LoadedImage` is defined for those that are `WellFormed` (the
file data of a segment lies in the file and in the segment, as ELF demands); a process with
another image is promised only that its memory stays as it was loaded. `expected` is a history
variable: what the loader, the parent at the time of the fork and the process itself put at
each address. What the argument block of `exec` hit is exempt (`ExecDamage`): the addresses
whose walk goes through the frame it was written to, which is known before it is written.

`exec` takes no argument or one, a string of one character. `ArgumentBlock` is what it
writes, downwards from the end of the frame behind that of the stack page: the string, the
pointer to it, the null and `argc`, a word each; only the null and 0 without arguments. The
frame can be free, a page of any process, a page table in use, or lie outside the frames.

`spoilt` is a history variable as well. It becomes TRUE, and the behaviour ends, when the kernel
writes where nothing can be said of what follows: a segment that reaches the kernel's entry of
the PML4 (`InUserPart`), a block outside the frames, or a block with an argument in a page table
(`Spoils`). In the last case `argc` = 1 is a PRESENT entry for frame 0, which `dealloc_user`
follows and frees; the pointer and the string are entries, too. All three are reached in the
instance of `frames`.
A block of zero words in a table only unmaps something, and the behaviour goes on.

Simplifications: two table levels instead of four (one PML4 entry for the images, one for
the stack, one for the kernel, as in the code), no page flags, no huge pages (the code never
makes one), usable frames are contiguous, all programs write words of the page of the stack
top. Which process is dispatched is open, and reaping by the out-of-memory handler, which
frees spaces in the same way, is left to `Scheduler`.

### Fat32

`fat` is `fat_cache`, `disk_fat` the FAT on the disk; `dirs[c]` and `data[c]` are what
cluster c holds when it is read as directory slots and as bytes; `inodes` and `next_inode`
are the fields. Every operation runs under the driver's lock with interrupts off and is one
step that performs its disk writes in the order of the code: a write of a cluster is one (the
clusters of the image have one sector), a write of the FAT is one for every sector of the
table (`FlushFat`; 126 in the code). The step chooses how many of them succeed (`left`); at the
next one the disk reports an error and the operation returns it, or power is lost and the
system comes up again from what is on the disk. That holds for all operations and all disk
writes. `Restart` switches the machine off between two operations. The initial disk is that of
`build.rs`, with one file.

Some faults leave directories that name free clusters, and the code does not notice. Two
history variables say that one has happened; the properties hold as long as it has not.
`sound` becomes FALSE, and nothing but a restart is modelled from then on, by

* `unlink` of `.` or `..`, which `unlink` finds like any name (`fat32.rs:776`): the directory
  or its parent is freed and stays listed;
* an error of the disk in `unlink`, which has freed the chain of an entry that stays
  (`fat32.rs:801`);
* an error of the disk in the write of a cluster that extends a directory: it is linked in
  memory by then and still holds what was in it (`fat32.rs:304`);
* a restart from a disk with `disk_sound` FALSE.

`disk_sound` is FALSE, up to the next complete write of the FAT, after

* a write of the FAT that stops between two sectors and has brought some clusters in use up
  to date and others not (`fat32.rs:142`): a chain may be linked to a cluster that is still
  free on the disk. A write that stops early is harmless when the sectors written hold all clusters in use
  as in memory, or when none of them differs from what was there;
* `mkdir`, once the new entry is on the disk, which it is before the FAT (`fat32.rs:724`);
* an error of the disk that leaves `create` or `mkdir` with a FAT in memory that is not the
  one on the disk;
* `unlink` of `.` or `..`.

Simplifications: sectors reach the disk in the order of the code and each as a whole; disk reads
do not fail; one disk write stands for the second copy of the FAT, which nothing reads; the FAT
has an entry for each cluster of the partition and no others; names are atoms; programs do not
give files the name of the volume label, nor a name that begins with a dot, which `readdir`
and `update_size` skip, and look up `.` and `..` only to unlink them (a lookup would find
inodes that are known already); all bytes of a write are alike.

### WindowManager

`windows`, `count`, `next_id`, `next_z` are the fields of `WindowList`, `cursor` and `drag`
those of `Cursor` and `DragState`. `ProcessEvent` is `process_event` with a mouse event of any
motion and any state of the left button, the only one the router looks at; keyboard events
change nothing. Applications create and destroy windows between any two events through the
public functions of the list. `Composite` gives the window whose pixel is on top after all have
been painted. `create` does not check where a window is put: `TitleBarReachable` is about windows
created with a part of the title bar on the screen.

The main loop `run` (`lib.rs:127`) is not modelled. It calls wrappers that are stubs in this
tree: `poll_input` returns 0 always (`wm/src/syscalls.rs:113`), `nanosleep` and `fb_commit`
return ENOSYS. As it stands the loop never receives an event; the model is of the router, the
list and the compositor under whatever events an `InputEvent` can carry. With the calls of the
kernel in their place the sleep would not return (`doc_nanosleep`), and a button that is held
would be an event at every poll (`syscalls/input.rs:96`), so the inner loop would not draw
during a drag.

## 3. Runs

Passing runs.

| Run | Instance | Shows |
|---|---|---|
| `sched_core` | 4 slots, PIDs to 5, one service, 2 spawns, all calls, signals 9 and 41, as built | `TableWellFormed`, `RunnableHasContext`, `NeverWild`, `HaltedMeansNoneReady`, `DeadStayDead`, `UserEndsOnlyItself` (1.6 million states) |
| `sched_preempt` | acknowledged interrupts | `TypeOK`, `CurrentOwnsCpu`, `ReapedByParent` with ticks between any two steps, in the window of fork too |
| `live_waitpid` | as built, programs that exit | `WaitEnds` |
| `input` | 4 slots, a plain code and a prefix, three packets, 2 packets between polls | `TypeOK`, `MotionConserved`, `ImplementsQueue`, `MotionKeepsDirection` |
| `files` | 2 processes, 1 descriptor each, 6 paths, inodes to 5, files of 2 bytes | `TypeOK`, `TreeWellFormed`, `ResolveFindsPlace`, `OffsetsInFile`, `ImplementsStore` |
| `frames` | 21 frames of 5 words, 2 processes at a time, 4 ever, 5 images, `exec` with 0 or 1 argument | `TypeOK`, `OneUsePerFrame`, `MemoryAsWritten`, `KernelMapped` (224 thousand states) |
| `fat32` | 3 clusters of 2 slots and 1 byte, a FAT of two sectors, 2 names, 3 inode numbers between restarts, an error or loss of power at every disk write | `TypeOK`, `ChainsDisjoint`, `DirectoriesClean`, `RestartSafe`, `SizesAgree` (91 thousand states) |
| `wm` | a screen of 2 by 3 pixels, 3 windows at a time, 4 ever, steps of one pixel | `TypeOK`, `OneFocus`, `DragKeepsGrip`, `TitleBarReachable`, `SeenIsHit`, `FocusFollowsPress` (160 thousand states) |

Runs that show a disagreement between a statement in the repository and the code.

| Run | Statement | What happens |
|---|---|---|
| `doc_preempt` | "Preemptive round-robin scheduler" (`scheduler.rs:1`), "Preemptive scheduling + signal delivery" (`idt.rs:150`), also `lib.rs:211` | the tick that dispatches the first process leaves the idle loop for good inside `on_timer_tick`, before `notify_end_of_interrupt` (`idt.rs:154`): the timer stays in service, and a Ready process starves next to a program that computes (`NoStarvation` on the kernel as built, 2 programs that compute or call `kill`) |
| `doc_nanosleep` | "Sleeps for `req_ticks` PIT timer ticks" (`syscalls/mod.rs:477`) | `hlt` with interrupts off |
| `doc_exec_args` | "Push argv/argc onto the NEW user stack (top page of the new space)" (`syscalls/mod.rs:746`) | `translate(USER_STACK_TOP - 1)` is the last byte of the page, one page size is added (line 754): the block goes into the next physical frame, a page or a table of whoever has it |
| `doc_fat_write` | "Supports read/write/... including cluster-chain traversal" (`fat32.rs:4`) | `write` counts clusters from its offset (line 513), `read` from the start of the file (line 459): a write of bytes 1 and 2 overwrites byte 0 |

Seen in the models and not given a run of their own.

*Processes.* `waitpid(-1)` looks at the first child of the table only, while
`syscalls/mod.rs:1196` says "any child". A process that sends SIGKILL to itself goes on, and
`exec` makes it Ready again (`syscalls/mod.rs:815`). `fork` enters its child as Ready and turns
interrupts on before the child has a stack (`syscalls/mod.rs:1132`, against `scheduler.rs:5`);
as built the missing acknowledgement hides this, with ticks a stale context can be resumed. A
prefix byte makes `poll_next` call itself with the lock of the buffer held
(`syscalls/input.rs:77`); `Input` then stays in `hung`. Also the scheduler never reaps a zombie
although `lib.rs:219` says so (only `waitpid` and the out-of-memory handler free slots, and
processes spawned by the kernel have no parent); `alloc_error` panics even when `handle_oom`
reclaimed something (`oom.rs:6` says otherwise, `lib.rs:437` panics); `deliver_pending` clears
the two termination bits and keeps the others, the opposite of its comment (`signal.rs:109`).
Since `exec` resets the slice (`scheduler.rs:429`), a program that calls it again and again is
never preempted.

*Input and files.* A button released without motion is never reported, because `poll_next`
looks at the current buttons only (`syscalls/input.rs:96`). After a lost byte the mouse decoder
takes any byte with bit 3 set for a status byte (`mouse.rs:52`). In the file layer: `mkdir` and
`unlink` of `/x` always fail, since `rsplit_once` makes the parent the empty path, which no
mount contains (`syscalls/mod.rs:952`); `mkdir` with a slash at the end makes an entry with an
empty name that no path resolves to; `unlink` of a directory leaves the inodes below it behind,
unreachable; `exit` leaves the descriptors to the reaper although `fd.rs:119` speaks of process
exit. A mount index kept in a descriptor would change meaning with a later mount, since mounts
are sorted (`fs/mod.rs:84`); mounts are made at boot only. Since an unacknowledged timer
interrupt has the highest priority at the PIC, keyboard and mouse interrupts stop with it after
the first dispatch; `Input` is therefore about the handlers as such, in a system where
interrupts arrive.

*Memory.* `dealloc_user` frees what lies under PML4 entry 0; the stack lies under entry 255,
so its pages and tables are lost with every process that is reaped or calls `exec`, although
`process.rs:201` says the frames become reusable. Every failure after `new_user`, and a full
process table, lose the space built so far. A page that two segments share keeps the flags
of the first (`userproc.rs:250`). A segment that ends with its page maps one page more.

*FAT32.* The entry of a new file keeps cluster 0 on the disk (`fat32.rs:540` looks for the
entry by cluster), so what is written to it is gone after a restart. All empty files share
one inode, that of cluster 0 (`fat32.rs:421`), and whoever writes first takes it. `unlink`
of a directory loses what is in it, and `unlink` of `.` frees the directory itself (`sound`
ends there, as in the other cases of section 2). A write
that runs out of clusters keeps those it got, in memory only. `alloc_cluster` searches the
whole FAT, whose 16128 entries are more than the partition has clusters (`build.rs:18`).
`README.md:157` of the repository says that FAT32 is read-only.

*Window manager.* A press after a release
without motion is not noticed (`input_router.rs:99`). Between outline and contents there are
pixels that are hit and not painted, so `SeenIsHit` speaks of painted pixels only. The placeholder
for the title paints outside windows narrower than about 12 pixels (`compositor.rs:155`).
`destroy(0)` would match an empty slot (`window.rs:202`); nobody calls it.

**Bounds.** Four slots let a slot be empty, live, dead and reused at once, and let the
round-robin scan wrap around behind the last slot. PIDs to 5 allow a slot to be reused
twice after the service and the two spawned processes. A slice of 2 distinguishes a
tick that expires it from one that does not. Signal 41 is the alias of 9 under the
shift of a `u32`. `MaxSleep` 1 is the shortest sleep that waits at all. Four buffer
slots hold three codes, so that full, empty and wrapped all occur; `DeltaMax` 300 is
passed by two packets. `MaxBurst` bounds the packets between polls, as the history
variable would grow otherwise. One descriptor per process lets a table be full; a file
and a directory side by side with a file in it, one path with a slash too much and two
new inodes allow a directory to be unlinked with contents and a name to be used again;
two bytes allow a write at the start, in the middle and at the end of a file.

21 frames are enough for three spaces, so that allocation fails in the middle of spawn,
fork and exec once a few have been lost or are in use; 4 PIDs allow slots and frames to be
used again. Five words are the shortest frame that holds an argument block of one argument.
`Shared` has two segments that meet in a page and zeroes behind the data, `Plain` ends with
its page, `NotElf` fails the header check, `Overlong` has more file data than memory, `High` is
linked into the kernel's part. Blocks hit free frames, pages and tables of others and leave the
frames in this instance.

Three clusters are one for the root, one for the file and one for which a directory, a longer
file and a larger root directory compete; the root is full with the label and one file, so it
grows with the second name; a directory is full with `.` and `..` and grows with its first
entry. Four entries to a sector divide the FAT between clusters 3 and 4, so that a
write of it can stop in the middle of a chain. `fat32` takes clusters of one byte, which suffices
for chains and sizes, `doc_fat_write` clusters of two. `MaxDiskWrites` is the longest
operation, so an operation can fail at each of its disk writes. On a screen of 2 by 3 pixels
a window of full size 3 by 4 hangs over the edges, three of them overlap, and the cursor can
take hold of any pixel of a title bar; 4 identifiers and 5 places in the stacking order let
slots be reused and windows be raised over each other.

**Fairness.** `FairSpec`: the CPU goes on executing kernel code (weak fairness of `KernelStep`
and `StartScheduler`), and ticks come for ever; the controller latches a request that arrives
while interrupts are off, so a tick that can be taken again and again is taken (strong fairness
of `TimerTick`). Programs owe nothing. `doc_preempt` refutes `NoStarvation` under it: no tick
can be taken, however fair they are. With `AutoEoi` TRUE, which the kernel never sets up, TLC
finds `NoStarvation` to hold (4 slots, 3 programs that exit, kill and read) as long as no
program calls `exec` again and again, each time with a new slice. `ExitingPrograms`, used for
`WaitEnds` only, adds that programs do not compute for ever: while ring 3 is entered again and
again, some program exits. Without preemption `waitpid` cannot promise more.

**Deadlock** is checked in every run but `frames` and `doc_exec_args`: in `AddressSpaces` a
process may exit with nobody left to dispatch, and the halt itself is part of `Scheduler`. The
states in which the machine stops (`hlt` with interrupts off, panic, the spin on a lock) are
explicit stuttering actions `Stopped` and `Hung`, so that TLC reports only the stops nobody
intended.

**Mutants.** Each property of a passing run has a mutant, an operator next to the one
it replaces ("Mutant:" in its comment), that makes it fail: the scan that ends a slot
early, fork without a stack, push over the oldest code,
and so on.

## 4. Proofs

`SchedulerProofs`, for every number of slots, PID bound, slice, set of calls and
signals and for both values of `AutoEoi`:

* `TypeCorrect`: `Spec => []TypeOK`;
* `TableStaysWellFormed`: `Spec => []TableWellFormed`;
* `CpuHasItsOwner`: `Spec => []CurrentOwnsCpu`.

None of the three is inductive alone. `CoreInv` joins them: an operation finds its
slot by searching for a PID, so what it changes is only known if PIDs are unique
(`TableOK`); a switch demotes `current_pid` only, so at most one process is Running
only if the Running one is `current_pid` (`OwnerOK`); and what a switch resumes must
be a program point at which a process can be (`StacksOK`: no saved context is at
`boot`, `idle` or `panic`, and a saved fork refers to a slot). After a panic in the
out-of-memory path the current entry may be gone, so the last conjuncts of `CoreInv`
are guarded. The proof goes bottom-up: table operators (`AllocOK`, `FreeOK`,
`SendSignalOK`, ...; `Struck` says that an operation changes one slot and may only kill
it), the scan (`NextReadyOK`: it returns a Ready process, and 0 only if there is none),
the switch (`DoContextSwitchOK`, `ScheduleOK`), then one lemma per group of actions
and `CoreStep`.

`InputProofs`: `BufferImplementsQueue`, `Spec => ImplementsQueue`, for every `Size`.
The queue is the window of `Count` slots from `tail` on. The cursors move by less than
`Size`, so `%` wraps once (`WrapOnce`); different offsets below `Size` are different
slots (`OffsetsDiffer`), so a push changes no waiting code (`WindowAppend`); two
advances add up (`OffsetsAdd`), so a pop leaves the rest of the window
(`WindowSplit`). The invariant `RingOK` is only that the cursors are indices.

The motion of the mouse, for every set of packets and every `DeltaMax`: `InputTypes`,
`MotionIsConserved`, `MotionDirection`, all of `TrackedSpec`. The invariant `MotionInv` says
that what is collected and what is still on the wire make up the packet `truth.sent`
(`InStep`), so that the third byte completes the packet the mouse sent and no other; the
status byte carries bit 3 (`StatusAssumption`, true of every PS/2 mouse), without which
`on_byte` would drop it.

`ContextProofs`, again for every instance:

* `OnlyParentReaps`, `DeathIsFinal`, `ForkedEndOnlyThemselves`: the action properties
  `ReapedByParent`, `DeadStayDead`, `UserEndsOnlyItself`, from `CoreInv` alone;
* `TicksEnd`: why the kernel does not preempt. With a controller that does not acknowledge by
  itself no timer interrupt is taken once a process has been dispatched;
* `ReadyCanRun`, `NoWildSwitch`, `HaltsOnlyWhenIdle`: `RunnableHasContext`, `NeverWild` and
  `HaltedMeansNoneReady` when `AutoEoi` is FALSE, the system as built. With acknowledged ticks
  the first two are false (a tick in the window of `fork` sees a Ready child without a
  stack), so the hypothesis is needed.

`ContextInv` couples four things: once a process runs the timer is in service, so no tick is
taken, in the window of `fork` either; a saved context is that of a process that was switched
out of a call (`SavedOK`); the running process has an initialised stack, so that its context
can be saved (`HasStack`); a Ready process has its own context, or it is the child of the
fork in progress (`ForkWindow`).

`WindowManagerProofs`, for every screen, frame, number of windows and set of shapes:
`WindowListCorrect` (`TypeOK`), `OneWindowHasFocus` (`OneFocus`), `DragHolds`
(`DragKeepsGrip`), `TitleBarsStay` (`TitleBarReachable`, if windows are created with a part
of their title bar on the screen, `ShapesReachable`: `create` checks nothing), `FocusMovesByPress`
(`FocusFollowsPress`) and `HitTestFindsTop` (the hit test finds the topmost window there).
`WmInv` joins the shape of the list (`ListOK`: the open windows come first, identifiers and
places in the stacking order are distinct and below the counters), the focus in all slots that
are not empty, and the grip: the offsets of a drag are those of the cursor in the title bar,
which also shows that a dragged title bar is on the screen. `ClicksGoToWhatIsSeen`
(`SeenIsHit`) follows from `ListOK` alone: the insertion sort of `iter_z_order` keeps its order
round by round (`InsertKeepsOrder`, `IterZOrderOK`), what is left at a pixel is the last window
of the order that painted there (`CompositeOK`), painting stays inside the window
(`PaintsInside`), and the hit test looks for the highest place, too.

`FilesProofs`, for any processes, table sizes, inode bound and set of paths: `FileTypes`
(`TypeOK`, with descriptors that name a device or a number already given out, so that none
reaches a file created later), `TreeStaysWellFormed` (`TreeWellFormed`), `OffsetsStayInFile`
(`OffsetsInFile`). What `resolve` returns is a fold over the components of a path; `WalkKeeps`
shows that whatever each round of the loop preserves holds of the result. The induction
theorems of the library take an operator, so it goes by the least position at which the claim
would fail (`MinOfNat` of `Least`), with the folding function shown to exist in the same way
(`WalkFoldExists`). `FilesInv` joins tree, tables and offsets: `open` may create before it
fails, `write` uses an offset another process's write has overtaken, `unlink` removes an inode
that descriptors still name.

`FilesProofs` also has, with the same generality, `FilesImplementStore` (`Spec =>
ImplementsStore`) and `ResolveFindsWhatIsThere` (`ResolveFindsPlace`). The refinement mapping
is a recursive function of the tree. `IsPlace` says without recursion which functions are
places (the root lies at the empty path, an entry at the path of its directory and its name,
and nothing else has a place); the function of the mapping is one (`PlaceIs`), and there is
only one (`OnlyPlace`, by the least inode at which two would differ). So for `create`, `mkdir`
and `unlink` it suffices that the places `FileStore` announces are places of the new tree
(`AddPlace`, `RemovePlace`), and for `write` that the old ones are. `write` pads with zeros
where `Write` does not; `FilesInv` excludes that case (`WrittenIsOverwrite`). That only
directories have entries (`LeavesOK`) joins the invariant. `resolve` keeps `Found` in every
round: the inode it is at lies at the names so far, and once it has failed nothing lies there
or below (`NothingBelow`).

`AddressSpacesProofs`, for any number of frames, words per frame, processes, PIDs, images and
writes: `MemoryTypes` (`TypeOK`), `FramesHaveOneUse` (`OneUsePerFrame`) and `KernelStaysMapped`
(`KernelMapped`), all from `MemInvAlways`. Page tables lie in the memory they describe, so the
invariant `MemInv` says that there is a function from frames to tags, and a tag is a place: the
PML4 of a process, its table under entry i, the page under entry j of that table, or position n
of the free stack. A frame has one tag, so it is in one place; what an operation changes is
found by the tags of the frames it writes (`SpaceKept`). The space that a call is building has
process 0 in its tags; `Adopted` gives them to the new process, `GivenUp` forgets the space
after a failure, and a frame between `allocate_frame` and its entry, or lost in a failed
mapping, has the tag `Lost`. The proof goes bottom-up: allocator (`AllocOwns`,
`FreeEntryOwns`), tables (`TableForOwns`, `MapOwns`), a loop lemma for each of
`clone_user_space`, `map_elf_segment`, its caller and `map_user_stack` (`CloneRounds`,
`LoadRounds`, `SegmentRounds`, `StackRounds`: the result of the loop, and the machine after
each of its rounds), `dealloc_user` (`FreedOnce`: the frames it frees are different ones;
`DeallocSound`), then one lemma per action. What the argument block of `exec` does to an
arbitrary frame is one lemma (`ArgumentsSound`): zero words in a table unmap something, which
is lost but gets no second use; other words land in pages, free frames and lost ones only,
unless the behaviour ends. Each theorem holds of every behaviour; what it says is `~spoilt =>
...`, where `spoilt` is described in section 2, and `MemoryTypes` says that the last state of a
spoilt behaviour is typed, too.

`MemoryIsAsWritten` (`MemoryAsWritten`) holds for all images, those that are not `WellFormed`
included: what the copy loop does for them is kept from then on, and not compared to ELF. It
follows from `MemInv`: `Content` is what a space holds page by page, and an operation keeps
the content of every space whose frames it leaves alone (`ContentKept`, `OthersKept`). In the
middle of an operation `Shows` says that nobody else's content has changed and what the space
being built holds so far; each loop has a description of that after k rounds: `FirstPages` for
fork (`CloneShows`), `SegmentContent` for the pages of a segment (`SegmentShows`),
`ImageContent` for the program headers (`SegmentsShow`) and `StackContent` (`StackShows`).
The heart is `ImageGrows`: a page that an earlier segment mapped is reused, and what the copy
loop writes into it (`CopiedIs`) leaves at each address the data of the last segment that has
some there (`WordAtGrows`), zero elsewhere. So the loader's result is the image as ELF defines
it (`LoadedIsSeen`). For `exec` the proof shows that an address whose walk avoids the frame of
the argument block reads as before (`UnhitSeen`).

`Fat32Proofs`, for every number of clusters, slots and bytes per cluster, every set of names
and every bound: `TablesTyped` (`TypeOK`), `ClustersHaveOneOwner` (`ChainsDisjoint`),
`ListedIsRemovable` (`DirectoriesClean`), `RestartFindsSoundTree` (`RestartSafe`) and
`SizesCovered` (`SizesAgree`). None has a hypothesis: any disk write of any operation may fail
or be the last. What they say is limited by `sound` and `disk_sound` (see Fat32 in section 2).

The invariant `Inv` has a part for the disk, while `disk_sound`: there are heads K of chains and
heads D that are directories, such that the disk is a tree (`DiskOK`); and one for the memory,
while `sound`: there are a table g, which is the FAT on the disk if `disk_sound` and otherwise
one that might have been there, and sets H, K and D, the heads of the chains in memory, in g,
and of directories, such that (`Good`)

* the chains of a FAT are whole and apart, head by head (`ChainsOK`);
* with g for the FAT, every listed entry on the disk names a head of K that is long enough, or none, and no two
  name the same one; directories have no entry behind an end mark and no name twice
  (`DiskOK`);
* the FAT in memory is ahead of g: K is part of H, no chain is shorter in memory, and
  those of directories are the same (`Ahead`);
* inodes stand for heads of H, at most one for each, and are long enough (`InodesOK`); an
  entry claims no more than its inode (`Agree`).

None of the five properties is inductive. Whether a cluster may be allocated depends on who
owns it in memory, whether power may be lost depends on who owns it on the disk, and the two
differ after a write that failed. Without g the memory would be lost with a torn write of the
FAT, which the running system survives. A torn write is harmless to the disk if it changed
nothing, or if the clusters in use are as in memory (`UpToDate`, `UpToDateOK`). The properties
speak of the tree below the root, but `unlink` of a directory takes its subdirectories out of
the tree without freeing them: they stay in D, or an entry that is reached by an old inode
would not be covered. A step is understood by what it does to chains (`NewChain`,
`LongerChain`, `MoreClusters`, `FreeHeadOK`), to one slot (`AddEntryOK`, `RemoveEntryOK`,
`ResizeEntryOK`, `GrowDirOK`) and to the inode table (`InternOK`, `DropOK`, `SetInodeOK`); the
machine after each disk write is one of these or unchanged, so `FinishOK` covers success, error
and loss of power alike. Chains and the walk through the tree are recursive functions on the
number of links, unfolded once (`LinksUnfold`, `TreeUnfold`), with the existence of the
function shown by the least number for which it would fail; `CoverRangeGrows`, `WriteDataOK`
and `InternAllOK` go through the rounds of the loops of `write` and `readdir`.

Assumptions are the ASSUMEs on constants; TLC evaluates them in the runs. They say that sizes
are positive, that signals fit in a byte, and the like. The inductive invariants `ContextInv`
and `MotionInv` were checked by TLC on the instances of `sched_core` and `input` before they
were proved, `Inv` of `Fat32Proofs` on the states of `fat32` up to the sixth step (its
quantifier over FATs makes more too slow); the tags of `MemInv` are too many to enumerate, what
follows from them is checked in `frames`.

Only model-checked: liveness (`WaitEnds`), which needs fairness
and ENABLED and is beyond the prover. Every other property of a passing run is the statement
of a theorem. The four properties of the runs that show a disagreement are false, so there is
nothing to prove.

## 5. Plan

1. Done: models of process table, scheduler, process calls, signals, out of memory; input;
   file layer with descriptors, mounts and tmpfs; frames, address spaces and ELF loader;
   FAT32; window manager. Proofs as in section 4.
2. Candidates for models: ATA and UHCI transfers with their time-outs, `.aero` headers,
   `chdir` and `getdents`, lost mouse bytes.

## 6. Not modelled

Console, serial and graphics output, the GDT and the assembly entry points are straight-line
device or register code. The kernel heap is a library. `exec.rs` and `shell_host.rs` are not
called by the kernel. `truncate` of the file systems and the functions for the kernel's own
page table have no caller. The ATA and USB drivers are polling loops against device registers;
a model would say more about the device than about the code, and what their failure means to
the file system is part of `Fat32`. The Flutter shell and the utilities are user programs; the
models let user programs do anything a call permits.
