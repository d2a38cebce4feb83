----------------------------- MODULE Fat32Props -----------------------------
(***************************************************************************)
(* What the FAT32 driver has to keep true.                                 *)
(***************************************************************************)
EXTENDS Fat32

\* The state of the driver and of the disk (the structs Fat32Inner and
\* RawDirEntry of fat32.rs): FAT entries are clusters or marks; while the tree
\* is sound, inode numbers are below next_inode, and 1 is the root (unlink of
\* ".." in a directory of the root forgets it).
TypeOK ==
  LET links == Clusters \cup {FREE, EOC}
      slots == [name : Names \cup {END, DELETED, LABEL, DOT, DOTDOT}, is_dir : BOOLEAN,
                cluster : Clusters \cup {0}, size : 0 .. MaxSize]
  IN /\ fat \in [Clusters -> links] /\ disk_fat \in [Clusters -> links]
     /\ \A c \in Clusters : \A s \in 1..SlotsPerCluster : dirs[c][s] \in slots
     /\ data \in [Clusters -> [0 .. BytesPerCluster - 1 -> Bytes]]
     /\ sound \in BOOLEAN /\ disk_sound \in BOOLEAN
     /\ sound =>
          /\ next_inode \in 2 .. MaxInode + 1 /\ DOMAIN inodes \subseteq 1 .. next_inode - 1
          /\ \A i \in DOMAIN inodes : inodes[i].first_cluster \in Clusters \cup {0} /\ inodes[i].size \in 0..MaxSize
          /\ 1 \in DOMAIN inodes /\ inodes[1].first_cluster = RootCluster /\ inodes[1].is_dir

-----------------------------------------------------------------------------
Now == Machine(0)
AsOnDisk == [Now EXCEPT !.fat = disk_fat]

\* The entries of the tree below the root, with the places they are at.
Entries(m) ==
  LET here == {p \in UNION {ToSet(Places(m, d)) : d \in ToSet(DirTree(m, RootCluster))} :
                 Listed(At(m, p)) /\ At(m, p).name # LABEL}
  IN {[place |-> p, entry |-> At(m, p)] : p \in here}

\* A chain that is whole: it ends with EOC, and visits no cluster twice.
Whole(table, first) ==
  LET chain == ClusterChain(table, first) IN table[Last(chain)] = EOC /\ IsInjective(chain)

Apart(table, a, b) ==
  ToSet(ClusterChain(table, a)) \cap ToSet(ClusterChain(table, b)) = {}

\* Every file and directory of the tree has clusters of its own.
Linked(m) ==
  LET starts == {x \in Entries(m) : x.entry.cluster >= 2} IN
  /\ Whole(m.fat, RootCluster)
  /\ \A x \in starts : Whole(m.fat, x.entry.cluster) /\ Apart(m.fat, RootCluster, x.entry.cluster)
  /\ \A x, y \in starts : x # y => Apart(m.fat, x.entry.cluster, y.entry.cluster)

\* The clusters of two files, of a file and a directory, or of what an inode
\* number in an open descriptor stands for and of another file are never the
\* same (alloc_cluster, free_chain, unlink and the inode table of fat32.rs),
\* unless one of the faults listed at sound has happened since the disk was
\* mounted: unlink of "." or "..", an error of the disk in unlink or in the
\* cluster that extends a directory, a mount after a torn write of the FAT.
ChainsDisjoint ==
  LET open == {i \in DOMAIN inodes : inodes[i].first_cluster >= 2} IN
  sound =>
  /\ Linked(Now)
  /\ \A i \in open : Whole(fat, inodes[i].first_cluster)
  /\ \A i, j \in open : inodes[i].first_cluster # inodes[j].first_cluster =>
       Apart(fat, inodes[i].first_cluster, inodes[j].first_cluster)
  /\ \A i \in open : \A x \in Entries(Now) :
       x.entry.cluster >= 2 /\ x.entry.cluster # inodes[i].first_cluster =>
         Apart(fat, inodes[i].first_cluster, x.entry.cluster)

\* What a directory lists can be removed: lookup reads all slots of a
\* directory and remove_dir_entry stops at the first that begins with 0x00,
\* so no entry may lie behind such a slot; and a name is there only once,
\* since only its first entry could be reached.  The faults listed at sound
\* are excepted.
DirectoriesClean ==
  sound => \A d \in ToSet(DirTree(Now, RootCluster)) :
    LET places == Places(Now, d)
        name == [k \in DOMAIN places |-> At(Now, places[k]).name]
    IN \A j, k \in DOMAIN places : j < k =>
         /\ name[j] = END => name[k] \in {END, DELETED}
         /\ name[k] \notin {END, DELETED} => name[j] # name[k]

\* A restart between two operations or two disk writes of one finds a sound
\* tree: on the disk every entry names a whole chain of its own that is long
\* enough for the size it gives (the order of disk writes in create, unlink
\* and write of fat32.rs).  That is not so inside a write of the FAT that has
\* changed some sectors and not yet others, inside mkdir once the entry is
\* written, and in the other cases listed at disk_sound, up to the next
\* complete write of the FAT.
RestartSafe ==
  disk_sound =>
  /\ Linked(AsOnDisk)
  /\ \A x \in Entries(AsOnDisk) : ~x.entry.is_dir =>
       x.entry.size <= BytesPerCluster * Len(ClusterChain(disk_fat, x.entry.cluster))

\* No file is longer than its clusters, and no entry claims more than its
\* inode: read of fat32.rs follows the chain as far as the size says, and
\* a write that runs out of clusters, or whose disk fails, must not have grown
\* the file.  The faults listed at sound are excepted.
SizesAgree ==
  sound =>
  /\ \A i \in Files : inodes[i].size <= BytesPerCluster * Len(ClusterChain(fat, inodes[i].first_cluster))
  /\ \A i \in Files : \A x \in Entries(Now) :
       x.entry.cluster >= 2 /\ x.entry.cluster = inodes[i].first_cluster => x.entry.size <= inodes[i].size

-----------------------------------------------------------------------------
(***************************************************************************)
(* read: the byte at position pos of a file.                               *)
(***************************************************************************)
ReadByte(m, first, pos) ==
  m.data[ClusterChain(m.fat, first)[pos \div BytesPerCluster + 1]][pos % BytesPerCluster]

Content(m, ino) == [pos \in 0 .. ino.size - 1 |-> ReadByte(m, ino.first_cluster, pos)]

\* What is written is read: a write that returns Ok leaves the bytes of the
\* file outside the written range as they were (write and read of fat32.rs
\* have to agree on the cluster that holds a position).
OnlyRangeWritten ==
  [][\A i \in DOMAIN inodes : \A offset \in 0..MaxSize, end \in 0..MaxSize, byte \in Bytes :
       (i \in Files /\ offset <= inodes[i].size /\ offset <= end
          /\ Write(i, offset, end, byte, MaxDiskWrites)
          /\ i \in DOMAIN inodes' /\ inodes'[i].size >= end)
       => \A pos \in 0 .. inodes[i].size - 1 : pos \notin offset .. end - 1 =>
            Content([fat |-> fat', data |-> data'], inodes'[i])[pos] = Content(Now, inodes[i])[pos]
    ]_vars

=============================================================================
