-------------------------------- MODULE Fat32 --------------------------------
(***************************************************************************)
(* The FAT32 driver (kernel/src/fs/fat32.rs) on the disk that build.rs     *)
(* makes.  The driver keeps the FAT and a table of inodes in memory;       *)
(* directories, data and the FAT are on the disk and survive a restart.    *)
(*                                                                         *)
(* Every call holds the driver's lock, so each operation is one step, and  *)
(* its disk writes happen in the order of the code: a write of a cluster   *)
(* is one, a write of the FAT one for every sector of the table.  A step   *)
(* chooses how many of them succeed: the next one fails, and either the    *)
(* operation returns its error and the system goes on, or that was the     *)
(* moment the machine lost power.                                          *)
(*                                                                         *)
(* The operators take and return the machine m they work on:               *)
(*   fat, disk_fat  fat_cache, and the FAT on the disk                     *)
(*   dirs           the directory slots that each cluster holds            *)
(*   data           the bytes that each cluster holds                      *)
(*   first          first_cluster of the file that is being written        *)
(*   left           the disk writes that still succeed                     *)
(*   result         "ok", "err" once a call returned Err, "ata" if the     *)
(*                  reason was the disk                                    *)
(*   sound, disk_sound  the history, see below                             *)
(*                                                                         *)
(* Some faults leave directories that name free clusters, and the code     *)
(* does not notice.  Two history variables record that one of them has     *)
(* happened.                                                               *)
(*                                                                         *)
(* sound becomes FALSE, and nothing but a restart is modelled from then    *)
(* on, by                                                                  *)
(*   - unlink of "." or "..";                                              *)
(*   - an error of the disk in unlink;                                     *)
(*   - an error of the disk in the write of the cluster that extends a     *)
(*     directory, which is linked in memory by then;                       *)
(*   - a restart from a disk that is not sound.                            *)
(*                                                                         *)
(* disk_sound becomes FALSE until the next complete write of the FAT by    *)
(*   - unlink of "." or "..";                                              *)
(*   - a write of the FAT that stops between two sectors and has brought   *)
(*     some of the clusters in use up to date, but not all of them;        *)
(*   - mkdir, from the moment the new entry is on the disk;                *)
(*   - an error of the disk in create or mkdir while the FAT on the disk   *)
(*     is not that of the memory.                                          *)
(***************************************************************************)
EXTENDS Integers, Sequences, FiniteSets, FiniteSetsExt, SequencesExt

CONSTANTS NClusters,        \* clusters of the partition
          SlotsPerCluster,  \* directory entries of a cluster
          BytesPerCluster,
          EntriesPerSector, \* clusters whose FAT entries share a sector
          Names,            \* the short names that files and directories get
          Bytes,            \* the values of a byte
          MaxInode,         \* bound: the inode numbers ever given
          MaxSize,          \* bound: the size of a file
          MaxDirs,          \* bound: the directories of the tree
          MaxDiskWrites     \* the disk writes that any operation needs

ASSUME GeometryAssumption ==
  /\ NClusters \in Nat /\ NClusters >= 3
  /\ SlotsPerCluster \in Nat /\ SlotsPerCluster >= 2
  /\ BytesPerCluster \in Nat \ {0} /\ EntriesPerSector \in Nat \ {0}
ASSUME BytesAssumption == Bytes \subseteq Nat /\ 0 \in Bytes
ASSUME BoundsAssumption ==
  /\ MaxInode \in Nat \ {0} /\ MaxDirs \in Nat /\ MaxDiskWrites \in Nat
  /\ MaxSize \in Nat /\ BytesPerCluster <= MaxSize

VARIABLES fat, disk_fat, dirs, data,
          inodes,      \* first_cluster, size and is_dir of every known inode
          next_inode,
          sound, disk_sound   \* no fault has damaged the tree, in memory and on the disk

vars == <<fat, disk_fat, dirs, data, inodes, next_inode, sound, disk_sound>>

Clusters    == 2 .. NClusters + 1
RootCluster == 2
FREE        == 0                \* FAT_FREE
EOC         == NClusters + 2    \* FAT_EOC: no cluster has this number

\* The name of a slot whose first byte is 0x00 or 0xE5, the volume label and
\* the entries that mkdir makes.  Of these a program can unlink "." and "..";
\* looking them up finds inodes that are in the table already.  That programs
\* give files the label's name, or a name that begins with a dot, which
\* readdir and update_size skip, is left out.
END     == "00"
DELETED == "E5"
LABEL   == "AEROS DISK"
DOT     == "."
DOTDOT  == ".."

ASSUME NamesAssumption == Names # {} /\ Names \cap {END, DELETED, LABEL, DOT, DOTDOT} = {}

RawDirEntry(name, is_dir, cluster, size) ==
  [name |-> name, is_dir |-> is_dir, cluster |-> cluster, size |-> size]
Vacant(mark) == RawDirEntry(mark, FALSE, 0, 0)
IsFree(e) == e.name \in {END, DELETED}
Listed(e) == ~IsFree(e) /\ e.name \notin {DOT, DOTDOT}
Cleared == [s \in 1..SlotsPerCluster |-> Vacant(END)]

-----------------------------------------------------------------------------
(***************************************************************************)
(* The disk.  A cluster that is written as data holds no entries any more. *)
(***************************************************************************)
Fail(m) == [m EXCEPT !.result = "err"]

DiskWrite(m, n) ==
  CASE m.result # "ok"                -> m
    [] m.result = "ok" /\ m.left = 0  -> [m EXCEPT !.result = "ata"]
    [] OTHER                          -> [n EXCEPT !.left = @ - 1]

WriteSlots(m, c, slots) == DiskWrite(m, [m EXCEPT !.dirs[c] = slots])
WriteBytes(m, c, bytes) ==
  DiskWrite(m, [m EXCEPT !.data[c] = bytes, !.dirs[c] = Cleared])

(***************************************************************************)
(* flush_fat writes the sectors of the first copy of the FAT in order.     *)
(* The second copy is never read: one write stands for all of its sectors. *)
(* A write that stops early does no harm if every cluster that is in use   *)
(* is as in memory, or if it has changed nothing.                          *)
(***************************************************************************)
SectorOf(c) == c \div EntriesPerSector
FatSectors == SectorOf(NClusters + 1) + 1

WrittenFat(m) == [c \in Clusters |-> IF SectorOf(c) < m.left THEN m.fat[c] ELSE m.disk_fat[c]]
UpToDate(m, table) == \A c \in Clusters : m.fat[c] # FREE => table[c] = m.fat[c]

FlushFat(m) ==
  CASE m.result # "ok" -> m
    [] m.result = "ok" /\ m.left <= FatSectors ->
         [m EXCEPT !.disk_fat = WrittenFat(m), !.left = 0, !.result = "ata",
                   !.disk_sound = UpToDate(m, WrittenFat(m)) \/ (@ /\ WrittenFat(m) = m.disk_fat)]
    [] OTHER ->
         [m EXCEPT !.disk_fat = m.fat, !.left = @ - FatSectors - 1, !.disk_sound = TRUE]

(***************************************************************************)
(* Cluster chains.  The code follows at most a million links, the model as *)
(* many as there are clusters: either number ends a cycle.                 *)
(***************************************************************************)
ClusterChain(table, first) ==
  LET links[n \in 0..NClusters] == [c \in Clusters |->
        IF n = 0 THEN <<>>
        ELSE <<c>> \o (IF table[c] \in Clusters THEN links[n - 1][table[c]] ELSE <<>>)]
  IN IF first \in Clusters THEN links[NClusters][first] ELSE <<>>

FreeClusters(m) == {c \in Clusters : m.fat[c] = FREE}
NextFree(m) == Min(FreeClusters(m))

AllocCluster(m) == [m EXCEPT !.fat[NextFree(m)] = EOC]

FreeChain(m, first) ==
  LET chain == ToSet(ClusterChain(m.fat, first))
  IN [m EXCEPT !.fat = [c \in Clusters |-> IF c \in chain THEN FREE ELSE m.fat[c]]]

(***************************************************************************)
(* Directories: the places of the slots of a directory, in the order in    *)
(* which every scan visits them.                                           *)
(***************************************************************************)
Places(m, dir) ==
  LET chain == ClusterChain(m.fat, dir)
  IN [n \in 1 .. Len(chain) * SlotsPerCluster |->
        <<chain[(n - 1) \div SlotsPerCluster + 1], ((n - 1) % SlotsPerCluster) + 1>>]

At(m, place) == m.dirs[place[1]][place[2]]

\* The position of the first entry with this name, 0 if there is none.
Find(m, dir, name) == SelectInSeq(Places(m, dir), LAMBDA p : At(m, p).name = name)

Named(m, dir, name) == At(m, Places(m, dir)[Find(m, dir, name)])

PutEntry(m, place, e) ==
  WriteSlots(m, place[1], [m.dirs[place[1]] EXCEPT ![place[2]] = e])

(***************************************************************************)
(* write_dir_entry: the first free slot, or slot 0 of a new cluster that   *)
(* is linked to the end of the directory.  When the write of that cluster  *)
(* fails, the directory goes on in memory with whatever the cluster holds. *)
(***************************************************************************)
ExtendDir(m, dir, e) ==
  LET new == NextFree(m)
      n == [AllocCluster(m) EXCEPT !.fat[Last(ClusterChain(m.fat, dir))] = new]
      w == WriteSlots(n, new, [Cleared EXCEPT ![1] = e])
  IN FlushFat([w EXCEPT !.sound = w.result = "ok"])

WriteDirEntry(m, dir, e) ==
  LET free == SelectInSeq(Places(m, dir), LAMBDA p : IsFree(At(m, p))) IN
  CASE m.result # "ok" -> m
    [] m.result = "ok" /\ free # 0 -> PutEntry(m, Places(m, dir)[free], e)
    [] m.result = "ok" /\ free = 0 /\ FreeClusters(m) = {} -> Fail(m)
    [] OTHER -> ExtendDir(m, dir, e)

\* Mutant: the slot is marked as the end of the directory.
RemoveDirEntryAsEnd(m, dir, name) ==
  LET at == Find(m, dir, name)
      end == Find(m, dir, END)
  IN IF at = 0 \/ (end # 0 /\ end < at) THEN Fail(m)
     ELSE PutEntry(m, Places(m, dir)[at], Vacant(END))

(***************************************************************************)
(* remove_dir_entry: the scan ends at the first slot that begins with 0x00.*)
(***************************************************************************)
RemoveDirEntry(m, dir, name) ==
  LET at == Find(m, dir, name)
      end == Find(m, dir, END)
  IN IF at = 0 \/ (end # 0 /\ end < at) THEN Fail(m)
     ELSE PutEntry(m, Places(m, dir)[at], Vacant(DELETED))

(***************************************************************************)
(* The tree in the order of update_size_recursive: the entries of a        *)
(* directory before its subdirectories.  update_size writes the size to    *)
(* the first entry whose cluster is the file's.                            *)
(***************************************************************************)
DirTree(m, dir) ==
  LET Subdir(e) == Listed(e) /\ e.is_dir /\ e.cluster >= 2
      tree[n \in 0..NClusters] == [d \in Clusters |->
        LET places == Places(m, d)
            Below(e) == IF Subdir(e) THEN tree[n - 1][e.cluster] ELSE <<>>
        IN IF n = 0 THEN <<>>
           ELSE <<d>> \o FlattenSeq([k \in DOMAIN places |-> Below(At(m, places[k]))])]
  IN tree[NClusters][dir]

UpdateSize(m, cluster, size) ==
  LET tree == DirTree(m, RootCluster)
      places == FlattenSeq([k \in DOMAIN tree |-> Places(m, tree[k])])
      at == SelectInSeq(places, LAMBDA p : Listed(At(m, p)) /\ At(m, p).cluster = cluster)
  IN IF m.result # "ok" \/ at = 0 THEN m
     ELSE PutEntry(m, places[at], [At(m, places[at]) EXCEPT !.size = size])

-----------------------------------------------------------------------------
(***************************************************************************)
(* The table of inodes.  intern_inode returns the inode that has this      *)
(* cluster and kind, and adds one only if there is none.                   *)
(***************************************************************************)
Matching(t, cluster, is_dir) ==
  {i \in DOMAIN t.inodes : t.inodes[i].first_cluster = cluster /\ t.inodes[i].is_dir = is_dir}

InternInode(t, cluster, size, is_dir) ==
  LET ino == [first_cluster |-> cluster, size |-> size, is_dir |-> is_dir] IN
  IF Matching(t, cluster, is_dir) # {} THEN t
  ELSE [inodes |-> [i \in DOMAIN t.inodes \cup {t.next_inode} |->
                      IF i = t.next_inode THEN ino ELSE t.inodes[i]],
        next_inode |-> t.next_inode + 1]

\* Mutant: the first inode goes, whatever it is.
DropFirstInode(t, cluster, is_dir) ==
  [t EXCEPT !.inodes = [i \in DOMAIN t.inodes \ {Min(DOMAIN t.inodes)} |-> t.inodes[i]]]

DropInode(t, cluster, is_dir) ==
  LET victim == {Min(Matching(t, cluster, is_dir))} IN
  IF Matching(t, cluster, is_dir) = {} THEN t
  ELSE [t EXCEPT !.inodes = [i \in DOMAIN t.inodes \ victim |-> t.inodes[i]]]

InternEntry(t, e) == InternInode(t, e.cluster, e.size, e.is_dir)

InternAll(t, m, dir) ==
  FoldLeft(LAMBDA u, p : IF Listed(At(m, p)) THEN InternEntry(u, At(m, p)) ELSE u,
           t, Places(m, dir))

Table == [inodes |-> inodes, next_inode |-> next_inode]
NoInodes == [inodes |-> [i \in {} |-> 0], next_inode |-> 1]

(***************************************************************************)
(* init: load the FAT, intern the root directory.                          *)
(***************************************************************************)
MountedTable == InternInode(NoInodes, RootCluster, 0, TRUE)

Install(m, t) ==
  /\ fat' = m.fat /\ disk_fat' = m.disk_fat /\ dirs' = m.dirs /\ data' = m.data
  /\ inodes' = t.inodes /\ next_inode' = t.next_inode
  /\ sound' = m.sound /\ disk_sound' = m.disk_sound
  /\ t.next_inode <= MaxInode + 1

Mount(m) == Install([m EXCEPT !.fat = m.disk_fat, !.sound = m.disk_sound], MountedTable)

(***************************************************************************)
(* How an operation ends: with the tables it leaves if it returned Ok, and *)
(* if it returned an error; with the machine after an error of the disk;   *)
(* or with the loss of power in the disk write that did not succeed.       *)
(***************************************************************************)
Finish(m, done, failed, disturbed) ==
  \/ m.result = "ok"  /\ Install(m, done)
  \/ m.result = "err" /\ Install(m, failed)
  \/ m.result = "ata" /\ Install(disturbed, failed)
  \/ m.result = "ata" /\ Mount(m)

Broken(m) == [m EXCEPT !.sound = FALSE]
Behind(m) == [m EXCEPT !.disk_sound = @ /\ m.disk_fat = m.fat]

Machine(left) ==
  [fat |-> fat, disk_fat |-> disk_fat, dirs |-> dirs, data |-> data,
   first |-> 0, left |-> left, result |-> "ok", sound |-> sound, disk_sound |-> disk_sound]

\* The directories that a path leads to: the VFS looks up every component
\* under its lock before it calls an operation.
Directories ==
  LET tree == ToSet(DirTree(Machine(0), RootCluster))
  IN {d \in DOMAIN inodes : inodes[d].is_dir /\ inodes[d].first_cluster \in tree}

Dir(d) == inodes[d].first_cluster

-----------------------------------------------------------------------------
(***************************************************************************)
(* The disk of build.rs: the volume label and a file of one cluster in the *)
(* root directory.  Clusters that were never used are zero.                *)
(***************************************************************************)
ImageFat == [c \in Clusters |-> IF c \in {RootCluster, 3} THEN EOC ELSE FREE]

ImageFile == CHOOSE name \in Names : TRUE

ImageRoot == [Cleared EXCEPT ![1] = RawDirEntry(LABEL, FALSE, 0, 0),
                             ![2] = RawDirEntry(ImageFile, FALSE, 3, BytesPerCluster)]

Init ==
  /\ disk_fat = ImageFat /\ fat = disk_fat
  /\ dirs = [c \in Clusters |-> IF c = RootCluster THEN ImageRoot ELSE Cleared]
  /\ data = [c \in Clusters |-> [k \in 0 .. BytesPerCluster - 1 |-> 0]]
  /\ inodes = MountedTable.inodes /\ next_inode = MountedTable.next_inode
  /\ sound = TRUE /\ disk_sound = TRUE

(***************************************************************************)
(* lookup and readdir change only the table of inodes.  readdir lists the  *)
(* volume label as well, but not "." and "..".                             *)
(***************************************************************************)
Lookup(d, name) ==
  /\ sound
  /\ Find(Machine(0), Dir(d), name) # 0
  /\ Install(Machine(0), InternEntry(Table, Named(Machine(0), Dir(d), name)))

Readdir(d) == sound /\ Install(Machine(0), InternAll(Table, Machine(0), Dir(d)))

Create(d, name, left) ==
  LET m == WriteDirEntry(Machine(left), Dir(d), RawDirEntry(name, FALSE, 0, 0)) IN
  /\ sound
  /\ Find(Machine(left), Dir(d), name) = 0
  /\ Finish(FlushFat(m), InternInode(Table, 0, 0, FALSE), Table, Behind(FlushFat(m)))

(***************************************************************************)
(* mkdir: a cluster, its "." and ".." on the disk, the entry in the        *)
(* parent, and only then the FAT.  When the parent needs a cluster that    *)
(* there is not, the new one stays allocated in memory.                    *)
(***************************************************************************)
Mkdir(d, name, left) ==
  LET m0 == Machine(left)
      new == NextFree(m0)
      m1 == WriteSlots(AllocCluster(m0), new,
              [Cleared EXCEPT ![1] = RawDirEntry(DOT, TRUE, new, 0),
                              ![2] = RawDirEntry(DOTDOT, TRUE, Dir(d), 0)])
      m2 == WriteDirEntry(m1, Dir(d), RawDirEntry(name, TRUE, new, 0))
      m3 == FlushFat([m2 EXCEPT !.disk_sound = @ /\ m2.result # "ok"])
  IN /\ sound
     /\ Find(m0, Dir(d), name) = 0
     /\ FreeClusters(m0) # {}
     /\ Len(DirTree(m0, RootCluster)) < MaxDirs
     /\ Finish(m3, InternInode(Table, new, 0, TRUE), Table, Behind(m3))

(***************************************************************************)
(* unlink: the chain is freed in memory, the entry is removed on the disk, *)
(* the FAT is written, the inode is forgotten.  Directories are no         *)
(* exception, whatever they hold, nor are "." and "..": the directory or   *)
(* its parent stays listed.                                                *)
(***************************************************************************)
Removed(d, name, left) ==
  LET t == Named(Machine(left), Dir(d), name)
      m == IF t.cluster >= 2 THEN FreeChain(Machine(left), t.cluster) ELSE Machine(left)
      n == FlushFat(RemoveDirEntry(m, Dir(d), name))
  IN IF name \in {DOT, DOTDOT} THEN [n EXCEPT !.sound = FALSE, !.disk_sound = FALSE] ELSE n

\* Mutant: the inode stays in the table.
UnlinkKeepsInode(d, name, left) ==
  /\ sound
  /\ Find(Machine(left), Dir(d), name) # 0
  /\ Finish(Removed(d, name, left), Table, Table, Broken(Removed(d, name, left)))

Unlink(d, name, left) ==
  LET t == Named(Machine(left), Dir(d), name) IN
  /\ sound
  /\ Find(Machine(left), Dir(d), name) # 0
  /\ Finish(Removed(d, name, left), DropInode(Table, t.cluster, t.is_dir), Table,
            Broken(Removed(d, name, left)))

(***************************************************************************)
(* write.  The chain is extended until it covers the range; then the range *)
(* is written in pieces that end at multiples of the cluster size, each to *)
(* the cluster the code computes for it.  All bytes of a write are alike.  *)
(***************************************************************************)
GrowChain(m) ==
  LET new == NextFree(m) IN
  CASE m.result # "ok" -> m
    [] m.result = "ok" /\ FreeClusters(m) = {} -> Fail(m)
    [] m.result = "ok" /\ FreeClusters(m) # {} /\ m.first = 0 ->
         [AllocCluster(m) EXCEPT !.first = new]
    [] OTHER -> [AllocCluster(m) EXCEPT !.fat[Last(ClusterChain(m.fat, m.first))] = new]

NeededClusters(end) == (end + BytesPerCluster - 1) \div BytesPerCluster

CoverRange(m, end) ==
  LET missing == NeededClusters(end) - Len(ClusterChain(m.fat, m.first))
  IN FoldLeft(LAMBDA n, k : GrowChain(n), m, [k \in 1..missing |-> k])

StartsPiece(offset, pos) == pos = offset \/ pos % BytesPerCluster = 0

WritePiece(m, offset, end, pos, byte) ==
  LET c == ClusterChain(m.fat, m.first)[(pos - offset) \div BytesPerCluster + 1]
      from == pos % BytesPerCluster
      take == IF end - pos < BytesPerCluster - from THEN end - pos ELSE BytesPerCluster - from
  IN IF m.result # "ok" \/ ~StartsPiece(offset, pos) THEN m
     ELSE WriteBytes(m, c, [k \in 0 .. BytesPerCluster - 1 |->
                              IF k \in from .. from + take - 1 THEN byte ELSE m.data[c][k]])

WriteData(m, offset, end, byte) ==
  FoldLeft(LAMBDA n, pos : WritePiece(n, offset, end, pos, byte), m,
           [k \in 1 .. end - offset |-> offset + k - 1])

\* Mutant: the new size is taken over before the chain covers it.
WriteSizeFirst(i, offset, end, byte, left) ==
  LET m1 == WriteData(CoverRange([Machine(left) EXCEPT !.first = inodes[i].first_cluster], end),
                      offset, end, byte)
      size == IF end > inodes[i].size THEN end ELSE inodes[i].size
      t == [Table EXCEPT !.inodes[i].first_cluster = m1.first, !.inodes[i].size = size]
      m2 == UpdateSize(FlushFat(m1), m1.first, size)
  IN sound /\ Finish(m2, t, t, m2)

\* Mutant: the size goes to the disk before the FAT does.
WriteFlushLast(i, offset, end, byte, left) ==
  LET m1 == WriteData(CoverRange([Machine(left) EXCEPT !.first = inodes[i].first_cluster], end),
                      offset, end, byte)
      size == IF m1.result = "ok" /\ end > inodes[i].size THEN end ELSE inodes[i].size
      t == [Table EXCEPT !.inodes[i].first_cluster = m1.first, !.inodes[i].size = size]
      m2 == FlushFat(UpdateSize(m1, m1.first, size))
  IN sound /\ Finish(m2, t, t, m2)

Write(i, offset, end, byte, left) ==
  LET m1 == WriteData(CoverRange([Machine(left) EXCEPT !.first = inodes[i].first_cluster], end),
                      offset, end, byte)
      size == IF m1.result = "ok" /\ end > inodes[i].size THEN end ELSE inodes[i].size
      t == [Table EXCEPT !.inodes[i].first_cluster = m1.first, !.inodes[i].size = size]
      m2 == UpdateSize(FlushFat(m1), m1.first, size)
  IN sound /\ Finish(m2, t, t, m2)

\* The machine is switched off between two operations, and on again.
Restart == Mount(Machine(0))

WriteSome(i) ==
  \E offset \in 0..inodes[i].size : \E end \in offset..MaxSize :
    \E byte \in Bytes : \E left \in 0..MaxDiskWrites : Write(i, offset, end, byte, left)

Files == {i \in DOMAIN inodes : ~inodes[i].is_dir}

Next ==
  \/ \E d \in Directories : Readdir(d)
  \/ \E d \in Directories : \E name \in Names : Lookup(d, name)
  \/ \E d \in Directories : \E name \in Names : \E left \in 0..MaxDiskWrites :
       Create(d, name, left) \/ Mkdir(d, name, left)
  \/ \E d \in Directories : \E name \in Names \cup {DOT, DOTDOT} :
       \E left \in 0..MaxDiskWrites : Unlink(d, name, left)
  \/ \E i \in Files : WriteSome(i)
  \/ Restart

Spec == Init /\ [][Next]_vars
=============================================================================
