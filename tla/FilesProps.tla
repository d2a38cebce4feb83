---------------------------- MODULE FilesProps -----------------------------
(***************************************************************************)
(* What the file layer must satisfy.                                       *)
(***************************************************************************)
EXTENDS Files

(***************************************************************************)
(* Type invariant: inode numbers and offsets stay in range, every process  *)
(* keeps a complete table, and a descriptor holds the number of a device   *)
(* or one that an inode was given.                                         *)
(***************************************************************************)
TypeOK ==
  /\ DOMAIN inodes \subseteq 1 .. next_inode - 1
  /\ \A i \in DOMAIN inodes : /\ inodes[i].type \in {"Regular", "Directory"}
                              /\ Len(inodes[i].data) <= MaxLen
  /\ next_inode \in 1 .. MaxInode + 1
  /\ DOMAIN tables \subseteq Procs
  /\ \A p \in DOMAIN tables :
       tables[p] \in [Fds -> {Free}
                         \union [mount : {"root"}, inode : 1 .. next_inode - 1, offset : 0..MaxLen]
                         \union [mount : {"dev"}, inode : 1..5, offset : 0..MaxLen]]

(***************************************************************************)
(* create, mkdir and unlink keep a tree: the root stays, every entry of a  *)
(* directory refers to an existing inode that is younger than the          *)
(* directory, and no inode has two entries.                                *)
(***************************************************************************)
EntriesIn(ino) == UNION {{<<d, n>> : n \in DOMAIN ino[d].children} : d \in DOMAIN ino}

Entries == EntriesIn(inodes)

Child(e) == inodes[e[1]].children[e[2]]

TreeWellFormed ==
  /\ Root \in DOMAIN inodes /\ inodes[Root].type = "Directory"
  /\ \A e \in Entries : Child(e) \in DOMAIN inodes /\ Child(e) > e[1]
  /\ \A e, f \in Entries : Child(e) = Child(f) => e = f

(***************************************************************************)
(* The root file system implements FileStore.  The place of an inode is    *)
(* found upwards, from its entry to the entry of its directory.            *)
(***************************************************************************)
PlacesIn(ino) ==
  LET entries == EntriesIn(ino)
      places[i \in 1..MaxInode] ==
        IF i = Root THEN {<<>>}
        ELSE UNION {{Append(path, e[2]) : path \in places[e[1]]} :
                      e \in {f \in entries : ino[f[1]].children[f[2]] = i /\ f[1] < i}}
  IN [i \in DOMAIN ino |-> places[i]]

PlaceIn(ino) ==
  LET at == PlacesIn(ino) IN
  [i \in {j \in DOMAIN ino : at[j] # {}} |-> CHOOSE path \in at[i] : TRUE]

Place == PlaceIn(inodes)

ObjectsIn(ino) == [i \in DOMAIN ino |-> [type |-> ino[i].type, data |-> ino[i].data]]

Store == INSTANCE FileStore
  WITH place <- Place,
       objects <- ObjectsIn(inodes),
       born <- next_inode

ImplementsStore == Store!Spec

(***************************************************************************)
(* resolve, which walks down from the root, finds exactly what lies at a   *)
(* path, however many slashes the path has.                                *)
(***************************************************************************)
AddName(names, name) == IF name = "" THEN names ELSE Append(names, name)

NamesIn(path) == FoldLeft(AddName, <<>>, Components(path))

ResolveFindsPlace ==
  LET at == Place IN
  \A path \in Paths :
    FindMount(path) = "root" =>
      \A i \in 1..MaxInode :
        Resolve(path) = i <=> i \in DOMAIN at /\ at[i] = NamesIn(path)

(***************************************************************************)
(* No descriptor, copied by fork or not, points behind the end of its      *)
(* file, whoever else writes to it: writes leave no holes.                 *)
(***************************************************************************)
OffsetsInFile ==
  \A p \in DOMAIN tables, fd \in Fds :
    IsFile(tables[p][fd]) => tables[p][fd].offset <= Len(inodes[tables[p][fd].inode].data)

=============================================================================
