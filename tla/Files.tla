------------------------------- MODULE Files -------------------------------
(***************************************************************************)
(* The file layer: descriptor tables (kernel/src/syscalls/fd.rs), the      *)
(* virtual file system with its mounts (kernel/src/fs/mod.rs), the root    *)
(* file system tmpfs (kernel/src/fs/tmpfs.rs), the device file system      *)
(* (kernel/src/fs/devfs.rs), and the system calls on them                  *)
(* (kernel/src/syscalls/mod.rs).                                           *)
(*                                                                         *)
(* System calls run with interrupts off, so each is one step of the        *)
(* process that makes it; the processes take turns in any order.           *)
(* A path is the sequence of strings between its slashes: "/bin/hello" is  *)
(* <<"", "bin", "hello">>, "/" is <<"", "">> and "" is <<"">>.             *)
(***************************************************************************)
EXTENDS Integers, Sequences, FiniteSets, FiniteSetsExt, SequencesExt

CONSTANTS Procs,     \* the processes that may exist
          NFds,      \* MAX_FDS
          Paths,     \* the paths programs use
          Bytes,     \* the bytes programs write
          MaxWrite,  \* bound: the longest write
          MaxLen,    \* bound: the longest file, the largest offset
          MaxInode   \* bound: the largest inode number

ASSUME ProcsAssumption == Procs \subseteq Nat /\ Procs # {}
ASSUME NFdsAssumption == NFds \in Nat
ASSUME PathsAssumption == Paths \subseteq Seq(STRING)
ASSUME BoundsAssumption ==
  MaxWrite \in Nat /\ MaxLen \in Nat \ {0} /\ MaxInode \in Nat /\ MaxInode >= 3

VARIABLES inodes,      \* TmpfsInner::inodes
          next_inode,  \* TmpfsInner::next_inode
          tables       \* the descriptor table of each process

vars == <<inodes, next_inode, tables>>

Root == 1

Inode(type, data, children) == [type |-> type, data |-> data, children |-> children]

NoChildren == [name \in {} |-> 0]

-----------------------------------------------------------------------------
(***************************************************************************)
(* Vfs::find_mount, resolve and split_parent_name.  tmpfs is mounted at /, *)
(* devfs at /dev; the mount with the longest name comes first.  0 stands   *)
(* for an error.                                                           *)
(***************************************************************************)
DevMount == <<"", "dev">>
DevDir   == 1
Devices  == [hda |-> 2, kbd |-> 3, serial |-> 4, framebuffer |-> 5]

FindMount(path) ==
  CASE IsPrefix(DevMount, path)          -> "dev"
    [] Len(path) > 1 /\ path[1] = "" /\ ~IsPrefix(DevMount, path) -> "root"
    [] OTHER                             -> "none"

Components(path) ==
  SubSeq(path, (IF FindMount(path) = "dev" THEN Len(DevMount) ELSE 1) + 1, Len(path))

Lookup(i, name) ==
  IF /\ i \in DOMAIN inodes /\ inodes[i].type = "Directory"
     /\ name \in DOMAIN inodes[i].children
  THEN inodes[i].children[name] ELSE 0

DevLookup(i, name) == IF i = DevDir /\ name \in DOMAIN Devices THEN Devices[name] ELSE 0

\* Mutant: empty components are not skipped.
WalkRaw(i, name) == Lookup(i, name)

\* One round of the loop of resolve, which leaves empty components out.
Walk(i, name)    == IF name = "" THEN i ELSE Lookup(i, name)
DevWalk(i, name) == IF name = "" THEN i ELSE DevLookup(i, name)

Resolve(path) ==
  CASE FindMount(path) = "root" -> FoldLeft(Walk, Root, Components(path))
    [] FindMount(path) = "dev"  -> FoldLeft(DevWalk, DevDir, Components(path))
    [] OTHER                    -> 0

RootPath == <<"", "">>

SplitParentName(path) ==
  IF Len(path) = 1 \/ (Len(path) = 2 /\ path[1] = "") THEN RootPath ELSE Front(path)

(***************************************************************************)
(* sys_mkdir and sys_unlink split with rsplit_once: the parent of "/x" is  *)
(* the empty path, which no mount contains.                                *)
(***************************************************************************)
RsplitOnce(path) == IF Len(path) = 1 THEN RootPath ELSE Front(path)

-----------------------------------------------------------------------------
(***************************************************************************)
(* Tmpfs: create, mkdir, unlink and write.                                 *)
(***************************************************************************)
IsDir(i) == i \in DOMAIN inodes /\ inodes[i].type = "Directory"

\* Mutant: an existing entry is replaced.
CanAddTwice(path, parent) == FindMount(path) = "root" /\ IsDir(Resolve(parent))

CanAdd(path, parent) ==
  /\ FindMount(path) = "root"
  /\ IsDir(Resolve(parent))
  /\ Last(path) \notin DOMAIN inodes[Resolve(parent)].children

Add(dir, name, type) ==
  /\ inodes' = [i \in DOMAIN inodes \union {next_inode} |->
                 CASE i = next_inode -> Inode(type, <<>>, NoChildren)
                   [] i = dir        -> [inodes[dir] EXCEPT !.children =
                                           [n \in DOMAIN @ \union {name} |->
                                              IF n = name THEN next_inode ELSE @[n]]]
                   [] OTHER          -> inodes[i]]
  /\ next_inode' = next_inode + 1

\* Mutant: the inode goes and its directory entry stays.
RemoveKeepsEntry(dir, name) ==
  inodes' = [i \in DOMAIN inodes \ {inodes[dir].children[name]} |-> inodes[i]]

RemoveEntry(dir, name) ==
  inodes' = [i \in DOMAIN inodes \ {inodes[dir].children[name]} |->
              IF i = dir
              THEN [inodes[dir] EXCEPT !.children = [n \in DOMAIN @ \ {name} |-> @[n]]]
              ELSE inodes[i]]

\* Mutant: the file is cut off behind what was written.
ResizedAlways(data, offset, bytes) == SubSeq(data, 1, offset) \o bytes

Written(data, offset, bytes) ==
  LET end == Max({offset + Len(bytes), Len(data)}) IN
  [k \in 1..end |-> CASE k > offset /\ k <= offset + Len(bytes) -> bytes[k - offset]
                      [] k <= Len(data) /\ ~(k > offset /\ k <= offset + Len(bytes)) -> data[k]
                      [] OTHER -> 0]

-----------------------------------------------------------------------------
(***************************************************************************)
(* FdTable: alloc takes the lowest free descriptor from 3 on.              *)
(***************************************************************************)
Fds  == 3 .. NFds - 1
Free == [mount |-> "none", inode |-> 0, offset |-> 0]

NewTable == [fd \in Fds |-> Free]

FreeFds(p) == {fd \in Fds : tables[p][fd] = Free}

Alloc(p, mount, inode) ==
  tables' = [tables EXCEPT ![p][Min(FreeFds(p))] =
               [mount |-> mount, inode |-> inode, offset |-> 0]]

IsOpen(p, fd) == tables[p][fd] # Free

-----------------------------------------------------------------------------
(***************************************************************************)
(* Boot: initramfs has made /bin and files in it; one process runs.        *)
(***************************************************************************)
Init ==
  /\ inodes = <<Inode("Directory", <<>>, [bin |-> 2]),
                Inode("Directory", <<>>, [hello |-> 3]),
                Inode("Regular", <<0>>, NoChildren)>>
  /\ next_inode = 4
  /\ tables = [p \in {Min(Procs)} |-> NewTable]

(***************************************************************************)
(* System calls.  Those that fail before they change anything return an    *)
(* error and are stuttering steps.  sys_open opens a path that exists, or, *)
(* with O_CREAT, creates the file, and that before it looks for a free     *)
(* descriptor: with a full table the call fails and the file stays.        *)
(***************************************************************************)
OpenFound(p, path) ==
  /\ Resolve(path) # 0
  /\ FreeFds(p) # {}
  /\ Alloc(p, FindMount(path), Resolve(path))
  /\ UNCHANGED <<inodes, next_inode>>

OpenCreate(p, path) ==
  /\ Resolve(path) = 0
  /\ CanAdd(path, SplitParentName(path))
  /\ next_inode <= MaxInode
  /\ Add(Resolve(SplitParentName(path)), Last(path), "Regular")
  /\ IF FreeFds(p) # {}
     THEN Alloc(p, FindMount(path), next_inode)
     ELSE UNCHANGED tables

(***************************************************************************)
(* sys_read and sys_write: the descriptor is looked up, the file system    *)
(* works at its offset, and the offset is stored back.  The contents of    *)
(* devices are outside the model: they transfer any number of bytes.       *)
(***************************************************************************)
Advance(p, fd, n) == tables' = [tables EXCEPT ![p][fd].offset = @ + n]

IsFile(e) == e.mount = "root" /\ e.inode \in DOMAIN inodes /\ inodes[e.inode].type = "Regular"

SysRead(p, fd, count) ==
  LET e == tables[p][fd] IN
  /\ IsFile(e)
  /\ Advance(p, fd, Max({0, Min({count, Len(inodes[e.inode].data) - e.offset})}))
  /\ UNCHANGED <<inodes, next_inode>>

SysWrite(p, fd, bytes) ==
  LET e == tables[p][fd] IN
  /\ IsFile(e)
  /\ e.offset + Len(bytes) <= MaxLen
  /\ inodes' = [inodes EXCEPT ![e.inode].data = Written(@, e.offset, bytes)]
  /\ Advance(p, fd, Len(bytes))
  /\ UNCHANGED next_inode

DeviceTransfer(p, fd, n) ==
  /\ tables[p][fd].mount = "dev"
  /\ tables[p][fd].inode # DevDir
  /\ tables[p][fd].offset + n <= MaxLen
  /\ Advance(p, fd, n)
  /\ UNCHANGED <<inodes, next_inode>>

\* Mutant: the entry is dropped instead of marked as free.
CloseDropsEntry(p, fd) ==
  /\ IsOpen(p, fd)
  /\ tables' = [tables EXCEPT ![p] = [f \in Fds \ {fd} |-> @[f]]]
  /\ UNCHANGED <<inodes, next_inode>>

SysClose(p, fd) ==
  /\ IsOpen(p, fd)
  /\ tables' = [tables EXCEPT ![p][fd] = Free]
  /\ UNCHANGED <<inodes, next_inode>>

(***************************************************************************)
(* sys_mkdir and sys_unlink.                                               *)
(***************************************************************************)
SysMkdir(path) ==
  /\ CanAdd(path, RsplitOnce(path))
  /\ next_inode <= MaxInode
  /\ Add(Resolve(RsplitOnce(path)), Last(path), "Directory")
  /\ UNCHANGED tables

CanRemove(path) ==
  /\ FindMount(path) = "root"
  /\ IsDir(Resolve(RsplitOnce(path)))
  /\ Last(path) \in DOMAIN inodes[Resolve(RsplitOnce(path))].children

SysUnlink(path) ==
  /\ CanRemove(path)
  /\ RemoveEntry(Resolve(RsplitOnce(path)), Last(path))
  /\ UNCHANGED <<next_inode, tables>>

(***************************************************************************)
(* fork copies the table, offsets included; a fatal signal clears it, and  *)
(* a process that sent it to itself goes on; exit ends the use of a table  *)
(* (it is cleared when the entry of the process table is reaped).  The     *)
(* exit of the last process, after which there are no calls, is left out.  *)
(***************************************************************************)
SysFork(p, child) ==
  /\ child \notin DOMAIN tables
  /\ tables' = [q \in DOMAIN tables \union {child} |-> IF q = child THEN tables[p] ELSE tables[q]]
  /\ UNCHANGED <<inodes, next_inode>>

Clear(p) ==
  /\ tables' = [tables EXCEPT ![p] = NewTable]
  /\ UNCHANGED <<inodes, next_inode>>

Exit(p) ==
  /\ DOMAIN tables # {p}
  /\ tables' = [q \in DOMAIN tables \ {p} |-> tables[q]]
  /\ UNCHANGED <<inodes, next_inode>>

-----------------------------------------------------------------------------
Buffers == UNION {[1..n -> Bytes] : n \in 1..MaxWrite}

PathCall ==
  \E path \in Paths : \/ \E p \in DOMAIN tables : OpenFound(p, path) \/ OpenCreate(p, path)
                      \/ SysMkdir(path) \/ SysUnlink(path)

DescriptorCall ==
  \E p \in DOMAIN tables, fd \in Fds :
    \/ \E count \in 1..MaxLen : SysRead(p, fd, count) \/ DeviceTransfer(p, fd, count)
    \/ \E bytes \in Buffers : SysWrite(p, fd, bytes)
    \/ SysClose(p, fd)

ProcessEvent ==
  \E p \in DOMAIN tables : \/ \E child \in Procs : SysFork(p, child)
                           \/ Clear(p) \/ Exit(p)

Next == PathCall \/ DescriptorCall \/ ProcessEvent

Spec == Init /\ [][Next]_vars

=============================================================================
