---------------------------- MODULE FilesProofs -----------------------------
(***************************************************************************)
(* The tree of the root file system and the descriptors into it, for every *)
(* set of processes, every size of the tables, and all paths.              *)
(***************************************************************************)
EXTENDS FilesProps, Least, SequenceTheorems

\* The provers do not know that a literal is a string.
Names == STRING \union {"", "dev", "bin", "hello"}

Inodes == [type : {"Regular", "Directory"}, data : Seq(Bytes \union {0}),
           children : UNION {[S -> Nat] : S \in SUBSET Names}]

TreeOK(ino, next) ==
  /\ next \in 1 .. MaxInode + 1
  /\ DOMAIN ino \subseteq 1 .. next - 1 /\ ino \in [DOMAIN ino -> Inodes]
  /\ \A i \in DOMAIN ino : Len(ino[i].data) <= MaxLen
  /\ Root \in DOMAIN ino /\ ino[Root].type = "Directory"
  /\ \A d \in DOMAIN ino : \A n \in DOMAIN ino[d].children :
       ino[d].children[n] \in DOMAIN ino /\ ino[d].children[n] > d
  /\ \A d, e \in DOMAIN ino :
       \A n \in DOMAIN ino[d].children, k \in DOMAIN ino[e].children :
         ino[d].children[n] = ino[e].children[k] => d = e /\ n = k

Descriptors(next) ==
  {Free} \union [mount : {"root"}, inode : 1 .. next - 1, offset : 0..MaxLen]
         \union [mount : {"dev"}, inode : 1..5, offset : 0..MaxLen]

TablesOK(tab, next) ==
  DOMAIN tab \subseteq Procs /\ tab \in [DOMAIN tab -> [Fds -> Descriptors(next)]]

OffsetOK(e, ino) ==
  e.mount = "root" /\ e.inode \in DOMAIN ino /\ ino[e.inode].type = "Regular" =>
    e.offset <= Len(ino[e.inode].data)

OffsetsOK(ino, tab) == \A p \in DOMAIN tab, fd \in Fds : OffsetOK(tab[p][fd], ino)

(***************************************************************************)
(* The inductive invariant.  A descriptor may outlive its inode; since it  *)
(* holds a number that was given before, no inode that is created later    *)
(* becomes its file, and its old offset does no harm.                      *)
(***************************************************************************)
FilesInv ==
  TreeOK(inodes, next_inode) /\ TablesOK(tables, next_inode) /\ OffsetsOK(inodes, tables)

-----------------------------------------------------------------------------
(***************************************************************************)
(* resolve walks down a path.  What its loop keeps true at every component *)
(* is true of what it finds.  The fold is a recursive function on sets of  *)
(* positions; that there is such a function is shown up to a position m,   *)
(* the least for which there were none.                                    *)
(***************************************************************************)
LEMMA WalkFoldExists ==
  ASSUME NEW s, NEW n \in Nat
  PROVE  \E f : f = [T \in SUBSET (1..n) |->
                       IF T = {} THEN Root ELSE Walk(f[T \ {Max(T)}], s[Max(T)])]
<1> DEFINE Body(f, T) == IF T = {} THEN Root ELSE Walk(f[T \ {Max(T)}], s[Max(T)])
           IsFold(f, m) == f = [T \in SUBSET (1..m) |-> Body(f, T)]
           Bad == {m \in Nat : ~\E f : IsFold(f, m)}
<1>1. ASSUME Bad # {}
      PROVE  FALSE
  <2> DEFINE m == Min(Bad)
  <2>1. m \in Bad /\ \A x \in Bad : m <= x
    <3>1. Bad \in SUBSET Nat
      OBVIOUS
    <3> HIDE DEF Bad
    <3> QED BY <1>1, <3>1, MinOfNat
  <2> HIDE DEF m
  <2>2. m \in Nat /\ ~\E f : IsFold(f, m)
    BY <2>1
  <2>3. CASE m = 0
    <3> DEFINE f == [T \in SUBSET (1..0) |-> Root]
    <3>1. SUBSET (1..0) = {{}}
      OBVIOUS
    <3>2. f = [T \in SUBSET (1..0) |-> Body(f, T)]
      BY <3>1
    <3> QED BY <2>2, <2>3, <3>2
  <2>4. CASE m # 0
    <3>1. m - 1 \in Nat /\ m - 1 \notin Bad
      <4> HIDE DEF Bad
      <4> QED BY <2>1, <2>2, <2>4
    <3>2. PICK f : IsFold(f, m - 1)
      BY <3>1
    <3> DEFINE g == [T \in SUBSET (1..m) |-> IF m \in T THEN Walk(f[T \ {m}], s[m]) ELSE f[T]]
    <3>3. ASSUME NEW T \in SUBSET (1..m)
          PROVE  g[T] = Body(g, T)
      <4>1. CASE m \in T
        <5>1. Max(T) = m
          <6>1. T \in SUBSET Int /\ \A x \in T : x <= m
            BY <2>2
          <6> QED BY <4>1, <6>1, MaxIs
        <5>2. T \ {m} \in SUBSET (1..m) /\ m \notin T \ {m}
          OBVIOUS
        <5>3. g[T \ {m}] = f[T \ {m}] /\ g[T] = Walk(f[T \ {m}], s[m])
          BY <4>1, <5>2
        <5> HIDE DEF g
        <5> QED BY <4>1, <5>1, <5>3
      <4>2. CASE m \notin T
        <5>1. T \in SUBSET (1 .. m - 1)
          BY <2>2, <4>2
        <5>2. f[T] = Body(f, T) /\ g[T] = f[T]
          BY <3>2, <4>2, <5>1
        <5>3. g[T \ {Max(T)}] = f[T \ {Max(T)}]
          BY <4>2
        <5> HIDE DEF g
        <5> QED BY <5>2, <5>3
      <4> QED BY <4>1, <4>2
    <3>4. IsFold(g, m)
      BY <3>3
    <3> QED BY <2>2, <3>4
  <2> QED BY <2>3, <2>4
<1>2. \E f : IsFold(f, n)
  BY <1>1
<1> QED BY <1>2

LEMMA WalkKeeps ==
  ASSUME NEW S, NEW s \in Seq(S), NEW Good, Root \in Good,
         \A i \in Good, name \in S : Walk(i, name) \in Good
  PROVE  FoldLeft(Walk, Root, s) \in Good
<1> DEFINE n == Len(s)
           IsFold(f) == f = [T \in SUBSET (1..n) |->
                              IF T = {} THEN Root ELSE Walk(f[T \ {Max(T)}], s[Max(T)])]
           it == CHOOSE f : IsFold(f)
<1>1. n \in Nat /\ DOMAIN s = 1..n
  BY LenProperties
<1>2. FoldLeft(Walk, Root, s) = it[1..n]
  BY <1>1 DEF FoldLeft, MapThenFoldSet
<1>3. IsFold(it)
  <2>1. \E f : IsFold(f)
    BY <1>1, WalkFoldExists
  <2> HIDE DEF IsFold
  <2> QED BY <2>1
<1> HIDE DEF it, n
<1> DEFINE Bad == {m \in 0..n : it[1..m] \notin Good}
<1>4. ASSUME Bad # {}
      PROVE  FALSE
  <2> DEFINE m == Min(Bad)
  <2>1. m \in Bad /\ \A x \in Bad : m <= x
    <3>1. Bad \in SUBSET Nat
      BY <1>1
    <3> HIDE DEF Bad
    <3> QED BY <1>4, <3>1, MinOfNat
  <2> HIDE DEF m
  <2>2. m \in 0..n /\ it[1..m] \notin Good
    BY <2>1
  <2>3. it[{}] = Root
    BY <1>3
  <2>4. CASE m = 0
    <3>1. 1..m = {}
      BY <2>4
    <3> QED BY <2>2, <2>3, <3>1
  <2>5. CASE m # 0
    <3>1. m - 1 \in 0..n /\ m - 1 \notin Bad
      BY <1>1, <2>1, <2>2, <2>5
    <3>2. it[1 .. m - 1] \in Good
      BY <3>1
    <3>3. 1..m \in SUBSET (1..n) /\ 1..m # {} /\ m \in 1..m /\ (1..m) \ {m} = 1 .. m - 1
      <4>1. m \in Nat /\ m >= 1 /\ m <= n
        BY <1>1, <2>2, <2>5
      <4>2. m \in 1..m /\ (1..m) \ {m} = 1 .. m - 1
        BY <4>1
      <4>3. \A x \in 1..m : x \in 1..n
        BY <1>1, <4>1
      <4>4. 1..m \subseteq 1..n /\ 1..m # {}
        BY <4>2, <4>3
      <4> QED BY <4>2, <4>4
    <3>4. Max(1..m) = m
      <4>1. 1..m \in SUBSET Int /\ \A x \in 1..m : x <= m
        BY <2>2
      <4> QED BY <3>3, <4>1, MaxIs
    <3>5. it[1..m] = Walk(it[(1..m) \ {Max(1..m)}], s[Max(1..m)])
      BY <1>3, <3>3
    <3>6. s[m] \in S
      BY <1>1, <2>2, <2>5, ElementOfSeq DEF n
    <3>7. it[1..m] = Walk(it[1 .. m - 1], s[m])
      BY <3>3, <3>4, <3>5
    <3> QED BY <2>2, <3>2, <3>6, <3>7
  <2> QED BY <2>4, <2>5
<1>5. it[1..n] \in Good
  BY <1>1, <1>4
<1> QED BY <1>2, <1>5

(***************************************************************************)
(* The same for the walk through the device file system.                   *)
(***************************************************************************)
LEMMA DevWalkFoldExists ==
  ASSUME NEW s, NEW n \in Nat
  PROVE  \E f : f = [T \in SUBSET (1..n) |->
                       IF T = {} THEN DevDir ELSE DevWalk(f[T \ {Max(T)}], s[Max(T)])]
<1> DEFINE Body(f, T) == IF T = {} THEN DevDir ELSE DevWalk(f[T \ {Max(T)}], s[Max(T)])
           IsFold(f, m) == f = [T \in SUBSET (1..m) |-> Body(f, T)]
           Bad == {m \in Nat : ~\E f : IsFold(f, m)}
<1>1. ASSUME Bad # {}
      PROVE  FALSE
  <2> DEFINE m == Min(Bad)
  <2>1. m \in Bad /\ \A x \in Bad : m <= x
    <3>1. Bad \in SUBSET Nat
      OBVIOUS
    <3> HIDE DEF Bad
    <3> QED BY <1>1, <3>1, MinOfNat
  <2> HIDE DEF m
  <2>2. m \in Nat /\ ~\E f : IsFold(f, m)
    BY <2>1
  <2>3. CASE m = 0
    <3> DEFINE f == [T \in SUBSET (1..0) |-> DevDir]
    <3>1. SUBSET (1..0) = {{}}
      OBVIOUS
    <3>2. f = [T \in SUBSET (1..0) |-> Body(f, T)]
      BY <3>1
    <3> QED BY <2>2, <2>3, <3>2
  <2>4. CASE m # 0
    <3>1. m - 1 \in Nat /\ m - 1 \notin Bad
      <4> HIDE DEF Bad
      <4> QED BY <2>1, <2>2, <2>4
    <3>2. PICK f : IsFold(f, m - 1)
      BY <3>1
    <3> DEFINE g == [T \in SUBSET (1..m) |-> IF m \in T THEN DevWalk(f[T \ {m}], s[m]) ELSE f[T]]
    <3>3. ASSUME NEW T \in SUBSET (1..m)
          PROVE  g[T] = Body(g, T)
      <4>1. CASE m \in T
        <5>1. Max(T) = m
          <6>1. T \in SUBSET Int /\ \A x \in T : x <= m
            BY <2>2
          <6> QED BY <4>1, <6>1, MaxIs
        <5>2. T \ {m} \in SUBSET (1..m) /\ m \notin T \ {m}
          OBVIOUS
        <5>3. g[T \ {m}] = f[T \ {m}] /\ g[T] = DevWalk(f[T \ {m}], s[m])
          BY <4>1, <5>2
        <5> HIDE DEF g
        <5> QED BY <4>1, <5>1, <5>3
      <4>2. CASE m \notin T
        <5>1. T \in SUBSET (1 .. m - 1)
          BY <2>2, <4>2
        <5>2. f[T] = Body(f, T) /\ g[T] = f[T]
          BY <3>2, <4>2, <5>1
        <5>3. g[T \ {Max(T)}] = f[T \ {Max(T)}]
          BY <4>2
        <5> HIDE DEF g
        <5> QED BY <5>2, <5>3
      <4> QED BY <4>1, <4>2
    <3>4. IsFold(g, m)
      BY <3>3
    <3> QED BY <2>2, <3>4
  <2> QED BY <2>3, <2>4
<1>2. \E f : IsFold(f, n)
  BY <1>1
<1> QED BY <1>2

LEMMA DevWalkKeeps ==
  ASSUME NEW s \in Seq(STRING), NEW Good, DevDir \in Good,
         \A i \in Good, name \in STRING : DevWalk(i, name) \in Good
  PROVE  FoldLeft(DevWalk, DevDir, s) \in Good
<1> DEFINE n == Len(s)
           IsFold(f) == f = [T \in SUBSET (1..n) |->
                              IF T = {} THEN DevDir ELSE DevWalk(f[T \ {Max(T)}], s[Max(T)])]
           it == CHOOSE f : IsFold(f)
<1>1. n \in Nat /\ DOMAIN s = 1..n
  BY LenProperties
<1>2. FoldLeft(DevWalk, DevDir, s) = it[1..n]
  BY <1>1 DEF FoldLeft, MapThenFoldSet
<1>3. IsFold(it)
  <2>1. \E f : IsFold(f)
    BY <1>1, DevWalkFoldExists
  <2> HIDE DEF IsFold
  <2> QED BY <2>1
<1> HIDE DEF it, n
<1> DEFINE Bad == {m \in 0..n : it[1..m] \notin Good}
<1>4. ASSUME Bad # {}
      PROVE  FALSE
  <2> DEFINE m == Min(Bad)
  <2>1. m \in Bad /\ \A x \in Bad : m <= x
    <3>1. Bad \in SUBSET Nat
      BY <1>1
    <3> HIDE DEF Bad
    <3> QED BY <1>4, <3>1, MinOfNat
  <2> HIDE DEF m
  <2>2. m \in 0..n /\ it[1..m] \notin Good
    BY <2>1
  <2>3. it[{}] = DevDir
    BY <1>3
  <2>4. CASE m = 0
    <3>1. 1..m = {}
      BY <2>4
    <3> QED BY <2>2, <2>3, <3>1
  <2>5. CASE m # 0
    <3>1. m - 1 \in 0..n /\ m - 1 \notin Bad
      BY <1>1, <2>1, <2>2, <2>5
    <3>2. it[1 .. m - 1] \in Good
      BY <3>1
    <3>3. 1..m \in SUBSET (1..n) /\ 1..m # {} /\ m \in 1..m /\ (1..m) \ {m} = 1 .. m - 1
      <4>1. m \in Nat /\ m >= 1 /\ m <= n
        BY <1>1, <2>2, <2>5
      <4>2. m \in 1..m /\ (1..m) \ {m} = 1 .. m - 1
        BY <4>1
      <4>3. \A x \in 1..m : x \in 1..n
        BY <1>1, <4>1
      <4>4. 1..m \subseteq 1..n /\ 1..m # {}
        BY <4>2, <4>3
      <4> QED BY <4>2, <4>4
    <3>4. Max(1..m) = m
      <4>1. 1..m \in SUBSET Int /\ \A x \in 1..m : x <= m
        BY <2>2
      <4> QED BY <3>3, <4>1, MaxIs
    <3>5. it[1..m] = DevWalk(it[(1..m) \ {Max(1..m)}], s[Max(1..m)])
      BY <1>3, <3>3
    <3>6. s[m] \in STRING
      BY <1>1, <2>2, <2>5, ElementOfSeq DEF n
    <3>7. it[1..m] = DevWalk(it[1 .. m - 1], s[m])
      BY <3>3, <3>4, <3>5
    <3> QED BY <2>2, <3>2, <3>6, <3>7
  <2> QED BY <2>4, <2>5
<1>5. it[1..n] \in Good
  BY <1>1, <1>4
<1> QED BY <1>2, <1>5

(***************************************************************************)
(* resolve finds an inode, a device, or nothing.                           *)
(***************************************************************************)
LEMMA ComponentsAreNames ==
  ASSUME NEW S, NEW path \in Seq(S)
  PROVE  Components(path) \in Seq(S)
<1> DEFINE k == (IF FindMount(path) = "dev" THEN Len(DevMount) ELSE 1) + 1
<1>1. Len(DevMount) = 2
  BY DEF DevMount
<1>2. k \in 2..3
  BY <1>1
<1> HIDE DEF k
<1>3. SubSeq(path, k, Len(path)) \in Seq(S)
  BY <1>2
<1> QED BY <1>3 DEF Components, k

LEMMA ResolveRoot ==
  ASSUME FilesInv, NEW path \in Seq(STRING), FindMount(path) = "root"
  PROVE  Resolve(path) \in DOMAIN inodes \union {0}
<1> DEFINE Good == DOMAIN inodes \union {0}
<1>1. Root \in Good
  BY DEF FilesInv, TreeOK
<1>2. ASSUME NEW i \in Good, NEW name \in STRING
      PROVE  Walk(i, name) \in Good
  BY <1>2 DEF Walk, Lookup, FilesInv, TreeOK
<1> HIDE DEF Good
<1>3. FoldLeft(Walk, Root, Components(path)) \in Good
  BY <1>1, <1>2, ComponentsAreNames, WalkKeeps
<1>4. Resolve(path) = FoldLeft(Walk, Root, Components(path))
  BY DEF Resolve
<1> QED BY <1>3, <1>4 DEF Good

LEMMA ResolveDev ==
  ASSUME NEW path \in Seq(STRING), FindMount(path) = "dev"
  PROVE  Resolve(path) \in 0..5
<1>1. DevDir \in 0..5
  BY DEF DevDir
<1>2. ASSUME NEW i \in 0..5, NEW name \in STRING
      PROVE  DevWalk(i, name) \in 0..5
  <2>1. ASSUME NEW d \in DOMAIN Devices
        PROVE  Devices[d] \in 0..5
    BY DEF Devices
  <2>2. DevLookup(i, name) \in 0..5
    BY <2>1 DEF DevLookup
  <2> QED BY <1>2, <2>2 DEF DevWalk
<1>3. FoldLeft(DevWalk, DevDir, Components(path)) \in 0..5
  BY <1>1, <1>2, ComponentsAreNames, DevWalkKeeps
<1>4. Resolve(path) = FoldLeft(DevWalk, DevDir, Components(path))
  BY DEF Resolve
<1> QED BY <1>3, <1>4

LEMMA ResolveNone ==
  ASSUME NEW path, FindMount(path) # "root", FindMount(path) # "dev"
  PROVE  Resolve(path) = 0
BY DEF Resolve

-----------------------------------------------------------------------------
(***************************************************************************)
(* Descriptors.                                                            *)
(***************************************************************************)
LEMMA OffsetsCarryOver ==
  ASSUME NEW ino, NEW next \in Nat, NEW tab, TablesOK(tab, next), OffsetsOK(ino, tab), NEW new,
         \A i \in DOMAIN new : i < next /\ new[i].type = "Regular" =>
           /\ i \in DOMAIN ino /\ ino[i].type = "Regular"
           /\ Len(ino[i].data) \in Nat /\ Len(new[i].data) \in Nat
           /\ Len(ino[i].data) <= Len(new[i].data)
  PROVE  OffsetsOK(new, tab)
<1> SUFFICES ASSUME NEW p \in DOMAIN tab, NEW fd \in Fds,
                    tab[p][fd].mount = "root", tab[p][fd].inode \in DOMAIN new,
                    new[tab[p][fd].inode].type = "Regular"
             PROVE  tab[p][fd].offset <= Len(new[tab[p][fd].inode].data)
  BY DEF OffsetsOK, OffsetOK
<1> DEFINE e == tab[p][fd]
<1>1. e \in Descriptors(next)
  BY DEF TablesOK
<1>2. e.inode \in 1 .. next - 1 /\ e.offset \in Nat
  BY <1>1, BoundsAssumption DEF Descriptors, Free
<1>3. e.offset <= Len(ino[e.inode].data)
  BY <1>2 DEF OffsetsOK, OffsetOK
<1> HIDE DEF e
<1>4. e.inode < next /\ e.inode \in DOMAIN new /\ new[e.inode].type = "Regular"
  BY <1>2 DEF e
<1>5. /\ Len(ino[e.inode].data) \in Nat /\ Len(new[e.inode].data) \in Nat
      /\ Len(ino[e.inode].data) <= Len(new[e.inode].data)
  BY <1>4
<1>6. e.offset <= Len(new[e.inode].data)
  BY <1>2, <1>3, <1>5, SMTT(30)
<1> QED BY <1>6 DEF e

LEMMA MoreInodes ==
  ASSUME NEW tab, NEW n \in Nat, NEW m \in Nat, n <= m, TablesOK(tab, n)
  PROVE  TablesOK(tab, m)
<1>1. Descriptors(n) \subseteq Descriptors(m)
  BY DEF Descriptors
<1> QED BY <1>1 DEF TablesOK

LEMMA PutDescriptor ==
  ASSUME NEW ino, NEW tab, NEW n, TablesOK(tab, n), OffsetsOK(ino, tab),
         NEW p \in DOMAIN tab, NEW fd \in Fds, NEW e \in Descriptors(n), OffsetOK(e, ino)
  PROVE  /\ TablesOK([tab EXCEPT ![p][fd] = e], n)
         /\ OffsetsOK(ino, [tab EXCEPT ![p][fd] = e])
<1> DEFINE t == [tab EXCEPT ![p][fd] = e]
<1>1. /\ DOMAIN t = DOMAIN tab /\ t \in [DOMAIN tab -> [Fds -> Descriptors(n)]]
      /\ t[p][fd] = e
      /\ \A q \in DOMAIN tab, gd \in Fds : q # p \/ gd # fd => t[q][gd] = tab[q][gd]
  BY DEF TablesOK
<1> HIDE DEF t
<1>2. TablesOK(t, n)
  BY <1>1 DEF TablesOK
<1>3. OffsetsOK(ino, t)
  BY <1>1 DEF OffsetsOK
<1> QED BY <1>2, <1>3 DEF t

-----------------------------------------------------------------------------
(***************************************************************************)
(* The tree: create and mkdir add a leaf, unlink takes an inode and its    *)
(* entry, write makes a file no shorter.                                   *)
(***************************************************************************)
LEMMA InodeParts ==
  ASSUME NEW ino, NEW next, TreeOK(ino, next), NEW i \in DOMAIN ino
  PROVE  /\ ino[i] \in Inodes /\ i \in Nat /\ i >= 1 /\ i < next /\ next \in Nat
         /\ ino[i].data \in Seq(Bytes \union {0}) /\ Len(ino[i].data) \in Nat
         /\ DOMAIN ino[i].children \subseteq Names
         /\ ino[i].children \in [DOMAIN ino[i].children -> Nat]
<1>1. ino[i] \in Inodes /\ i \in Nat /\ i >= 1 /\ i < next /\ next \in Nat
  BY BoundsAssumption DEF TreeOK
<1>2. ino[i].data \in Seq(Bytes \union {0})
  BY <1>1 DEF Inodes
<1>3. Len(ino[i].data) \in Nat
  BY <1>2, LenProperties
<1>4. PICK S \in SUBSET Names : ino[i].children \in [S -> Nat]
  BY <1>1 DEF Inodes
<1> QED BY <1>1, <1>2, <1>3, <1>4

LEMMA AddOK ==
  ASSUME TreeOK(inodes, next_inode), NEW dir \in DOMAIN inodes, NEW name \in STRING,
         name \notin DOMAIN inodes[dir].children, next_inode <= MaxInode,
         NEW type \in {"Regular", "Directory"}, Add(dir, name, type)
  PROVE  /\ TreeOK(inodes', next_inode') /\ next_inode' = next_inode + 1
         /\ DOMAIN inodes' = DOMAIN inodes \union {next_inode}
         /\ inodes'[next_inode].data = <<>>
         /\ \A i \in DOMAIN inodes : /\ inodes'[i].type = inodes[i].type
                                     /\ inodes'[i].data = inodes[i].data
<1> DEFINE old == inodes[dir].children
           kids == [n \in DOMAIN old \union {name} |-> IF n = name THEN next_inode ELSE old[n]]
           leaf == Inode(type, <<>>, NoChildren)
           parent == [inodes[dir] EXCEPT !.children = kids]
<1>1. next_inode \in Nat /\ next_inode >= 1 /\ next_inode \notin DOMAIN inodes /\ dir < next_inode
  BY BoundsAssumption DEF TreeOK
<1>2. inodes[dir] \in Inodes /\ DOMAIN old \subseteq Names /\ old \in [DOMAIN old -> Nat]
  BY InodeParts
<1>3. leaf \in Inodes /\ leaf.data = <<>> /\ leaf.type = type /\ DOMAIN leaf.children = {}
      /\ Len(leaf.data) = 0
  <2>1. NoChildren \in [{} -> Nat] /\ {} \in SUBSET Names
    BY DEF NoChildren
  <2>2. NoChildren \in UNION {[S -> Nat] : S \in SUBSET Names} /\ DOMAIN NoChildren = {}
    BY <2>1
  <2>3. <<>> \in Seq(Bytes \union {0}) /\ Len(<<>>) = 0
    BY EmptySeq
  <2> HIDE DEF NoChildren
  <2> QED BY <2>2, <2>3 DEF Inode, Inodes
<1>4. /\ DOMAIN kids = DOMAIN old \union {name} /\ kids[name] = next_inode
      /\ \A n \in DOMAIN old : kids[n] = old[n]
  OBVIOUS
<1>5. kids \in UNION {[S -> Nat] : S \in SUBSET Names}
  <2>1. DOMAIN old \union {name} \in SUBSET Names
    BY <1>2 DEF Names
  <2>2. kids \in [DOMAIN old \union {name} -> Nat]
    BY <1>1, <1>2
  <2> HIDE DEF kids, old
  <2> QED BY <2>1, <2>2
<1>6. /\ parent \in Inodes /\ parent.children = kids
      /\ parent.type = inodes[dir].type /\ parent.data = inodes[dir].data
  <2> HIDE DEF kids
  <2> QED BY <1>2, <1>5 DEF Inodes
<1>7. /\ DOMAIN inodes' = DOMAIN inodes \union {next_inode}
      /\ inodes'[next_inode] = leaf /\ inodes'[dir] = parent
      /\ \A i \in DOMAIN inodes \ {dir} : inodes'[i] = inodes[i]
      /\ inodes' \in [DOMAIN inodes' -> Inodes] /\ next_inode' = next_inode + 1
  <2>0. inodes' = [i \in DOMAIN inodes \union {next_inode} |->
                     CASE i = next_inode -> leaf
                       [] i = dir        -> parent
                       [] OTHER          -> inodes[i]]
        /\ next_inode' = next_inode + 1
    BY DEF Add
  <2> HIDE DEF leaf, parent
  <2>1. DOMAIN inodes' = DOMAIN inodes \union {next_inode}
    BY <2>0
  <2>3. dir # next_inode
    BY <1>1
  <2>2. inodes'[next_inode] = leaf
    BY <2>0, <2>3
  <2>4. inodes'[dir] = parent
    BY <2>0, <2>3
  <2>5. ASSUME NEW i \in DOMAIN inodes \ {dir}
        PROVE  inodes'[i] = inodes[i] /\ inodes'[i] \in Inodes
    <3>1. i # next_inode
      BY <1>1
    <3>2. inodes'[i] = inodes[i]
      BY <2>0, <3>1
    <3> QED BY <3>2, InodeParts
  <2>6. inodes' = [i \in DOMAIN inodes' |-> inodes'[i]]
    BY <2>0
  <2>7. \A i \in DOMAIN inodes' : inodes'[i] \in Inodes
    BY <1>3, <1>6, <2>1, <2>2, <2>4, <2>5
  <2> QED BY <2>0, <2>1, <2>2, <2>4, <2>5, <2>6, <2>7
<1> HIDE DEF leaf, parent, kids
<1>8. \A i \in DOMAIN inodes : /\ inodes'[i].type = inodes[i].type
                               /\ inodes'[i].data = inodes[i].data
  BY <1>6, <1>7
<1>9. \A d \in DOMAIN inodes' : \A n \in DOMAIN inodes'[d].children :
        \/ d = dir /\ n = name /\ inodes'[d].children[n] = next_inode
        \/ /\ d \in DOMAIN inodes /\ n \in DOMAIN inodes[d].children
           /\ inodes'[d].children[n] = inodes[d].children[n]
           /\ inodes[d].children[n] \in DOMAIN inodes
  <2> SUFFICES ASSUME NEW d \in DOMAIN inodes', NEW n \in DOMAIN inodes'[d].children
               PROVE  \/ d = dir /\ n = name /\ inodes'[d].children[n] = next_inode
                      \/ /\ d \in DOMAIN inodes /\ n \in DOMAIN inodes[d].children
                         /\ inodes'[d].children[n] = inodes[d].children[n]
                         /\ inodes[d].children[n] \in DOMAIN inodes
    OBVIOUS
  <2>1. CASE d = next_inode
    BY <1>3, <1>7, <2>1
  <2>2. CASE d = dir
    BY <1>4, <1>6, <1>7, <2>2 DEF TreeOK
  <2>3. CASE d # next_inode /\ d # dir
    BY <1>7, <2>3 DEF TreeOK
  <2> QED BY <2>1, <2>2, <2>3
<1>10. next_inode' \in 1 .. MaxInode + 1 /\ DOMAIN inodes' \subseteq 1 .. next_inode' - 1
  <2>1. DOMAIN inodes \subseteq 1 .. next_inode - 1
    BY DEF TreeOK
  <2> QED BY <1>1, <1>7, <2>1, BoundsAssumption
<1>11. \A i \in DOMAIN inodes' : Len(inodes'[i].data) <= MaxLen
  BY <1>3, <1>7, <1>8, BoundsAssumption DEF TreeOK
<1>12. Root \in DOMAIN inodes' /\ inodes'[Root].type = "Directory"
  BY <1>7, <1>8 DEF TreeOK
<1>13. \A d \in DOMAIN inodes' : \A n \in DOMAIN inodes'[d].children :
         inodes'[d].children[n] \in DOMAIN inodes' /\ inodes'[d].children[n] > d
  BY <1>1, <1>7, <1>9 DEF TreeOK
<1>14. \A d, e \in DOMAIN inodes' :
         \A n \in DOMAIN inodes'[d].children, k \in DOMAIN inodes'[e].children :
           inodes'[d].children[n] = inodes'[e].children[k] => d = e /\ n = k
  BY <1>1, <1>9, SMTT(30) DEF TreeOK
<1>15. TreeOK(inodes', next_inode')
  BY <1>7, <1>10, <1>11, <1>12, <1>13, <1>14 DEF TreeOK
<1> QED BY <1>3, <1>7, <1>8, <1>15

LEMMA RemoveOK ==
  ASSUME TreeOK(inodes, next_inode), NEW dir \in DOMAIN inodes,
         NEW name \in DOMAIN inodes[dir].children, RemoveEntry(dir, name)
  PROVE  /\ TreeOK(inodes', next_inode) /\ DOMAIN inodes' \subseteq DOMAIN inodes
         /\ \A i \in DOMAIN inodes' : /\ inodes'[i].type = inodes[i].type
                                      /\ inodes'[i].data = inodes[i].data
<1> DEFINE old == inodes[dir].children
           gone == old[name]
           kids == [n \in DOMAIN old \ {name} |-> old[n]]
           parent == [inodes[dir] EXCEPT !.children = kids]
<1>1. gone \in DOMAIN inodes /\ gone > dir /\ gone \in Nat /\ dir \in Nat /\ dir >= 1
  BY InodeParts DEF TreeOK
<1>2. inodes[dir] \in Inodes /\ DOMAIN old \subseteq Names /\ old \in [DOMAIN old -> Nat]
  BY InodeParts
<1>3. kids \in UNION {[S -> Nat] : S \in SUBSET Names}
  <2>1. DOMAIN old \ {name} \in SUBSET Names /\ kids \in [DOMAIN old \ {name} -> Nat]
    BY <1>2
  <2> HIDE DEF kids, old
  <2> QED BY <2>1
<1>4. DOMAIN kids = DOMAIN old \ {name} /\ \A n \in DOMAIN kids : kids[n] = old[n]
  OBVIOUS
<1>5. /\ parent \in Inodes /\ parent.children = kids
      /\ parent.type = inodes[dir].type /\ parent.data = inodes[dir].data
  <2> HIDE DEF kids
  <2> QED BY <1>2, <1>3 DEF Inodes
<1>6. /\ DOMAIN inodes' = DOMAIN inodes \ {gone} /\ inodes'[dir] = parent
      /\ \A i \in DOMAIN inodes' \ {dir} : inodes'[i] = inodes[i]
      /\ inodes' \in [DOMAIN inodes' -> Inodes]
  <2>0. inodes' = [i \in DOMAIN inodes \ {gone} |-> IF i = dir THEN parent ELSE inodes[i]]
    BY DEF RemoveEntry
  <2> HIDE DEF parent, gone
  <2>1. DOMAIN inodes' = DOMAIN inodes \ {gone} /\ dir \in DOMAIN inodes'
        /\ inodes'[dir] = parent /\ \A i \in DOMAIN inodes' \ {dir} : inodes'[i] = inodes[i]
    BY <1>1, <2>0
  <2>2. \A i \in DOMAIN inodes' : inodes'[i] \in Inodes
    BY <1>5, <2>1, InodeParts
  <2>3. inodes' = [i \in DOMAIN inodes' |-> inodes'[i]]
    BY <2>0
  <2> QED BY <2>1, <2>2, <2>3
<1> HIDE DEF parent, kids
<1>7. \A i \in DOMAIN inodes' : /\ inodes'[i].type = inodes[i].type
                                /\ inodes'[i].data = inodes[i].data
  BY <1>5, <1>6
<1>8. \A d \in DOMAIN inodes' : \A n \in DOMAIN inodes'[d].children :
        /\ d \in DOMAIN inodes /\ n \in DOMAIN inodes[d].children
        /\ inodes'[d].children[n] = inodes[d].children[n]
        /\ ~(d = dir /\ n = name)
  BY <1>4, <1>5, <1>6
<1>9. \A d \in DOMAIN inodes' : \A n \in DOMAIN inodes'[d].children :
        inodes'[d].children[n] \in DOMAIN inodes' /\ inodes'[d].children[n] > d
  <2>1. \A d \in DOMAIN inodes' : \A n \in DOMAIN inodes'[d].children :
          inodes[d].children[n] # gone
    BY <1>8 DEF TreeOK
  <2> QED BY <1>6, <1>8, <2>1 DEF TreeOK
<1>10. Root \in DOMAIN inodes' /\ inodes'[Root].type = "Directory"
  BY <1>1, <1>6, <1>7 DEF TreeOK, Root
<1>11. \A d, e \in DOMAIN inodes' :
         \A n \in DOMAIN inodes'[d].children, k \in DOMAIN inodes'[e].children :
           inodes'[d].children[n] = inodes'[e].children[k] => d = e /\ n = k
  BY <1>8 DEF TreeOK
<1>12. TreeOK(inodes', next_inode)
  BY <1>6, <1>7, <1>9, <1>10, <1>11 DEF TreeOK
<1> QED BY <1>6, <1>7, <1>12

LEMMA MaxOfTwo ==
  ASSUME NEW a \in Int, NEW b \in Int
  PROVE  Max({a, b}) = IF a >= b THEN a ELSE b
<1>1. CASE a >= b
  <2>1. a \in {a, b} /\ \A x \in {a, b} : x <= a
    BY <1>1
  <2> QED BY <1>1, <2>1, MaxIs
<1>2. CASE ~(a >= b)
  <2>1. b \in {a, b} /\ \A x \in {a, b} : x <= b
    BY <1>2
  <2> QED BY <1>2, <2>1, MaxIs
<1> QED BY <1>1, <1>2

LEMMA MinOfTwo ==
  ASSUME NEW a \in Int, NEW b \in Int
  PROVE  Min({a, b}) = IF a <= b THEN a ELSE b
<1>1. \A m, x \in {a, b} : m \in Int /\ x \in Int
  OBVIOUS
<1> DEFINE m == IF a <= b THEN a ELSE b
<1>2. m \in {a, b} /\ \A x \in {a, b} : m <= x
  OBVIOUS
<1>3. \A y \in {a, b} : (\A x \in {a, b} : y <= x) => y = m
  OBVIOUS
<1> HIDE DEF m
<1>4. Min({a, b}) = m
  BY <1>2, <1>3 DEF Min
<1> QED BY <1>4 DEF m

LEMMA WrittenOK ==
  ASSUME NEW data \in Seq(Bytes \union {0}), NEW offset \in Nat, NEW bytes \in Seq(Bytes)
  PROVE  /\ Written(data, offset, bytes) \in Seq(Bytes \union {0})
         /\ Len(Written(data, offset, bytes)) = Max({offset + Len(bytes), Len(data)})
<1> DEFINE end == Max({offset + Len(bytes), Len(data)})
           b(k) == k > offset /\ k <= offset + Len(bytes)
           byte(k) == CASE b(k) -> bytes[k - offset]
                        [] k <= Len(data) /\ ~b(k) -> data[k]
                        [] OTHER -> 0
           w == Written(data, offset, bytes)
<1>1. Len(data) \in Nat /\ Len(bytes) \in Nat
  BY LenProperties
<1>2. end \in Nat
  BY <1>1, MaxOfTwo
<1>3. w = [k \in 1..end |-> byte(k)]
  BY DEF Written
<1> HIDE DEF end, w
<1>4. ASSUME NEW k \in 1..end
      PROVE  byte(k) \in Bytes \union {0}
  <2>1. CASE b(k)
    <3>1. k - offset \in 1 .. Len(bytes)
      BY <1>1, <2>1
    <3>2. bytes[k - offset] \in Bytes
      BY <3>1, ElementOfSeq
    <3>3. byte(k) = bytes[k - offset]
      BY <2>1
    <3> QED BY <3>2, <3>3
  <2>2. CASE ~b(k) /\ k <= Len(data)
    <3>1. k \in 1 .. Len(data)
      BY <1>1, <1>2, <2>2
    <3>2. data[k] \in Bytes \union {0}
      BY <3>1, ElementOfSeq
    <3>3. byte(k) = data[k]
      BY <2>2
    <3> QED BY <3>2, <3>3
  <2>3. CASE ~b(k) /\ ~(k <= Len(data))
    <3>1. byte(k) = 0
      BY <2>3
    <3> QED BY <3>1
  <2> QED BY <2>1, <2>2, <2>3
<1> HIDE DEF byte
<1>5. w \in [1..end -> Bytes \union {0}]
  BY <1>3, <1>4
<1>6. w \in Seq(Bytes \union {0})
  BY <1>2, <1>5
<1>7. Len(w) = end
  BY <1>2, <1>5, <1>6, LenProperties
<1> QED BY <1>6, <1>7 DEF w, end

LEMMA DataOK ==
  ASSUME TreeOK(inodes, next_inode), NEW f \in DOMAIN inodes, inodes[f].type = "Regular",
         NEW data \in Seq(Bytes \union {0}), Len(data) <= MaxLen,
         inodes' = [inodes EXCEPT ![f].data = data]
  PROVE  /\ TreeOK(inodes', next_inode) /\ DOMAIN inodes' = DOMAIN inodes
         /\ inodes'[f].data = data /\ \A i \in DOMAIN inodes : inodes'[i].type = inodes[i].type
         /\ \A i \in DOMAIN inodes \ {f} : inodes'[i] = inodes[i]
<1> DEFINE new == [inodes[f] EXCEPT !.data = data]
<1>1. inodes[f] \in Inodes /\ inodes \in [DOMAIN inodes -> Inodes]
  BY DEF TreeOK
<1>2. /\ new \in Inodes /\ new.data = data /\ new.type = inodes[f].type
      /\ new.children = inodes[f].children
  BY <1>1 DEF Inodes
<1>3. inodes' = [inodes EXCEPT ![f] = new]
  BY <1>1
<1> HIDE DEF new
<1>4. /\ DOMAIN inodes' = DOMAIN inodes /\ inodes' \in [DOMAIN inodes -> Inodes]
      /\ inodes'[f] = new /\ \A i \in DOMAIN inodes \ {f} : inodes'[i] = inodes[i]
  BY <1>1, <1>2, <1>3
<1>5. \A i \in DOMAIN inodes : /\ inodes'[i].type = inodes[i].type
                               /\ inodes'[i].children = inodes[i].children
  BY <1>2, <1>4
<1>6. \A i \in DOMAIN inodes : Len(inodes'[i].data) <= MaxLen
  BY <1>2, <1>4 DEF TreeOK
<1>7. TreeOK(inodes', next_inode)
  BY <1>4, <1>5, <1>6 DEF TreeOK
<1> QED BY <1>2, <1>4, <1>5, <1>7

-----------------------------------------------------------------------------
(***************************************************************************)
(* The system calls.                                                       *)
(***************************************************************************)
LEMMA Unfold ==
  ASSUME FilesInv
  PROVE  /\ TreeOK(inodes, next_inode) /\ TablesOK(tables, next_inode)
         /\ OffsetsOK(inodes, tables) /\ next_inode \in Nat
BY BoundsAssumption DEF FilesInv, TreeOK

LEMMA AllocOK ==
  ASSUME NEW ino, NEW n \in Nat, NEW mount, NEW i, NEW p \in DOMAIN tables,
         TablesOK(tables, n), OffsetsOK(ino, tables), FreeFds(p) # {},
         \/ mount = "root" /\ i \in 1 .. n - 1
         \/ mount = "dev" /\ i \in 1..5,
         \A k \in DOMAIN ino : Len(ino[k].data) \in Nat, Alloc(p, mount, i)
  PROVE  TablesOK(tables', n) /\ OffsetsOK(ino, tables')
<1> DEFINE fd == Min(FreeFds(p))
           e == [mount |-> mount, inode |-> i, offset |-> 0]
<1>1. fd \in Fds
  <2>1. FreeFds(p) \in SUBSET Fds /\ Fds \in SUBSET Nat
    BY NFdsAssumption DEF FreeFds, Fds
  <2>2. FreeFds(p) \in SUBSET Nat
    BY <2>1
  <2> QED BY <2>1, <2>2, MinOfNat
<1>2. tables' = [tables EXCEPT ![p][fd] = e]
  BY DEF Alloc
<1>3. e \in Descriptors(n) /\ e.offset = 0 /\ e.inode = i
  BY BoundsAssumption DEF Descriptors
<1> HIDE DEF e, fd
<1>4. OffsetOK(e, ino)
  BY <1>3 DEF OffsetOK
<1> QED BY <1>1, <1>2, <1>3, <1>4, PutDescriptor

LEMMA OpenFoundStep ==
  ASSUME FilesInv, NEW p \in DOMAIN tables, NEW path \in Paths, OpenFound(p, path)
  PROVE  FilesInv'
<1>1. path \in Seq(STRING)
  BY PathsAssumption
<1>2. /\ Resolve(path) # 0 /\ FreeFds(p) # {} /\ Alloc(p, FindMount(path), Resolve(path))
      /\ inodes' = inodes /\ next_inode' = next_inode
  BY DEF OpenFound
<1>3. \/ FindMount(path) = "root" /\ Resolve(path) \in 1 .. next_inode - 1
      \/ FindMount(path) = "dev" /\ Resolve(path) \in 1..5
  <2>1. CASE FindMount(path) = "root"
    <3>1. Resolve(path) \in DOMAIN inodes
      BY <1>1, <1>2, <2>1, ResolveRoot
    <3> QED BY <2>1, <3>1, Unfold DEF TreeOK
  <2>2. CASE FindMount(path) = "dev"
    <3>1. Resolve(path) \in 0..5
      BY <1>1, <2>2, ResolveDev
    <3> QED BY <1>2, <2>2, <3>1
  <2> QED BY <1>2, <2>1, <2>2, ResolveNone
<1>4. \A k \in DOMAIN inodes : Len(inodes[k].data) \in Nat
  BY Unfold, InodeParts
<1>5. TablesOK(tables', next_inode) /\ OffsetsOK(inodes, tables')
  BY <1>2, <1>3, <1>4, Unfold, AllocOK
<1> QED BY <1>2, <1>5, Unfold DEF FilesInv

LEMMA LastIsName ==
  ASSUME NEW path \in Seq(STRING), FindMount(path) = "root"
  PROVE  Last(path) \in STRING
<1>1. Len(path) > 1 /\ Len(path) \in Nat
  <2>1. CASE IsPrefix(DevMount, path)
    BY <2>1 DEF FindMount
  <2>2. CASE ~IsPrefix(DevMount, path) /\ ~(Len(path) > 1)
    BY <2>2 DEF FindMount
  <2> QED BY <2>1, <2>2, LenProperties
<1>2. Len(path) \in 1 .. Len(path)
  BY <1>1
<1>3. path[Len(path)] \in STRING
  BY <1>2, ElementOfSeq
<1> QED BY <1>3 DEF Last

LEMMA AddStep ==
  ASSUME FilesInv, NEW path \in Paths, NEW parent, CanAdd(path, parent),
         next_inode <= MaxInode, NEW type \in {"Regular", "Directory"},
         Add(Resolve(parent), Last(path), type)
  PROVE  /\ TreeOK(inodes', next_inode') /\ TablesOK(tables, next_inode')
         /\ OffsetsOK(inodes', tables) /\ next_inode' = next_inode + 1
         /\ \A k \in DOMAIN inodes' : Len(inodes'[k].data) \in Nat
<1> DEFINE dir == Resolve(parent)
           name == Last(path)
<1>1. dir \in DOMAIN inodes /\ name \notin DOMAIN inodes[dir].children
  BY DEF CanAdd, IsDir
<1>2. name \in STRING
  BY PathsAssumption, LastIsName DEF CanAdd
<1> HIDE DEF dir, name
<1>3. Add(dir, name, type)
  BY DEF dir, name
<1>4. /\ TreeOK(inodes', next_inode') /\ next_inode' = next_inode + 1
      /\ DOMAIN inodes' = DOMAIN inodes \union {next_inode}
      /\ \A i \in DOMAIN inodes : /\ inodes'[i].type = inodes[i].type
                                  /\ inodes'[i].data = inodes[i].data
  BY <1>1, <1>2, <1>3, Unfold, AddOK
<1>5. TablesOK(tables, next_inode')
  BY <1>4, Unfold, MoreInodes
<1>6. \A k \in DOMAIN inodes' : Len(inodes'[k].data) \in Nat
  BY <1>4, InodeParts
<1>7. \A i \in DOMAIN inodes' : i < next_inode /\ inodes'[i].type = "Regular" =>
        /\ i \in DOMAIN inodes /\ inodes[i].type = "Regular"
        /\ Len(inodes[i].data) \in Nat /\ Len(inodes'[i].data) \in Nat
        /\ Len(inodes[i].data) <= Len(inodes'[i].data)
  <2> SUFFICES ASSUME NEW i \in DOMAIN inodes', i < next_inode, inodes'[i].type = "Regular"
               PROVE  /\ i \in DOMAIN inodes /\ inodes[i].type = "Regular"
                      /\ Len(inodes[i].data) \in Nat /\ Len(inodes'[i].data) \in Nat
                      /\ Len(inodes[i].data) <= Len(inodes'[i].data)
    OBVIOUS
  <2>1. i \in DOMAIN inodes
    BY <1>4, Unfold
  <2>2. inodes'[i].type = inodes[i].type /\ inodes'[i].data = inodes[i].data
    BY <1>4, <2>1
  <2>3. Len(inodes[i].data) \in Nat
    BY <2>1, Unfold, InodeParts
  <2> QED BY <2>1, <2>2, <2>3
<1>8. OffsetsOK(inodes', tables)
  BY <1>7, Unfold, OffsetsCarryOver
<1> QED BY <1>4, <1>5, <1>6, <1>8

LEMMA OpenCreateStep ==
  ASSUME FilesInv, NEW p \in DOMAIN tables, NEW path \in Paths, OpenCreate(p, path)
  PROVE  FilesInv'
<1>1. /\ CanAdd(path, SplitParentName(path)) /\ next_inode <= MaxInode
      /\ Add(Resolve(SplitParentName(path)), Last(path), "Regular")
      /\ IF FreeFds(p) # {} THEN Alloc(p, FindMount(path), next_inode) ELSE UNCHANGED tables
  BY DEF OpenCreate
<1>2. /\ TreeOK(inodes', next_inode') /\ TablesOK(tables, next_inode')
      /\ OffsetsOK(inodes', tables) /\ next_inode' = next_inode + 1
      /\ \A k \in DOMAIN inodes' : Len(inodes'[k].data) \in Nat
  BY <1>1, AddStep
<1>3. CASE FreeFds(p) # {}
  <2>1. FindMount(path) = "root"
    BY <1>1 DEF CanAdd
  <2>2. next_inode \in 1 .. next_inode' - 1 /\ next_inode' \in Nat
    BY <1>2, Unfold DEF TreeOK
  <2>3. TablesOK(tables', next_inode') /\ OffsetsOK(inodes', tables')
    BY <1>1, <1>2, <1>3, <2>1, <2>2, AllocOK
  <2> QED BY <1>2, <2>3 DEF FilesInv
<1>4. CASE ~(FreeFds(p) # {})
  BY <1>1, <1>2, <1>4 DEF FilesInv
<1> QED BY <1>3, <1>4

LEMMA MkdirStep ==
  ASSUME FilesInv, NEW path \in Paths, SysMkdir(path)
  PROVE  FilesInv'
<1>1. /\ CanAdd(path, RsplitOnce(path)) /\ next_inode <= MaxInode
      /\ Add(Resolve(RsplitOnce(path)), Last(path), "Directory") /\ tables' = tables
  BY DEF SysMkdir
<1>2. /\ TreeOK(inodes', next_inode') /\ TablesOK(tables, next_inode')
      /\ OffsetsOK(inodes', tables)
  BY <1>1, AddStep
<1> QED BY <1>1, <1>2 DEF FilesInv

LEMMA UnlinkStep ==
  ASSUME FilesInv, NEW path \in Paths, SysUnlink(path)
  PROVE  FilesInv'
<1> DEFINE dir == Resolve(RsplitOnce(path))
           name == Last(path)
<1>1. /\ dir \in DOMAIN inodes /\ name \in DOMAIN inodes[dir].children
      /\ RemoveEntry(dir, name) /\ next_inode' = next_inode /\ tables' = tables
  BY DEF SysUnlink, CanRemove, IsDir
<1> HIDE DEF dir, name
<1>2. /\ TreeOK(inodes', next_inode) /\ DOMAIN inodes' \subseteq DOMAIN inodes
      /\ \A i \in DOMAIN inodes' : /\ inodes'[i].type = inodes[i].type
                                   /\ inodes'[i].data = inodes[i].data
  BY <1>1, Unfold, RemoveOK
<1>3. \A i \in DOMAIN inodes : Len(inodes[i].data) \in Nat
  BY Unfold, InodeParts
<1>4. OffsetsOK(inodes', tables)
  <2>1. \A i \in DOMAIN inodes' : i < next_inode /\ inodes'[i].type = "Regular" =>
          /\ i \in DOMAIN inodes /\ inodes[i].type = "Regular"
          /\ Len(inodes[i].data) \in Nat /\ Len(inodes'[i].data) \in Nat
          /\ Len(inodes[i].data) <= Len(inodes'[i].data)
    BY <1>2, <1>3
  <2> QED BY <2>1, Unfold, OffsetsCarryOver
<1> QED BY <1>1, <1>2, <1>4, Unfold DEF FilesInv

(***************************************************************************)
(* A descriptor moves on, in a file up to its end.                         *)
(***************************************************************************)
LEMMA AdvanceOK ==
  ASSUME NEW ino, NEW n \in Nat, NEW p \in DOMAIN tables, NEW fd \in Fds,
         TablesOK(tables, n), OffsetsOK(ino, tables), NEW k \in Nat,
         tables[p][fd].mount # "none", tables[p][fd].offset + k <= MaxLen,
         tables[p][fd].mount = "root" =>
           tables[p][fd].offset + k <= Len(ino[tables[p][fd].inode].data),
         Advance(p, fd, k)
  PROVE  TablesOK(tables', n) /\ OffsetsOK(ino, tables')
<1> DEFINE d == tables[p][fd]
           e == [d EXCEPT !.offset = d.offset + k]
<1>1. tables \in [DOMAIN tables -> [Fds -> Descriptors(n)]] /\ d \in Descriptors(n)
  BY DEF TablesOK
<1>2. d.offset \in Nat
  BY <1>1, BoundsAssumption DEF Descriptors, Free
<1>3. /\ e \in Descriptors(n) /\ e.mount = d.mount /\ e.inode = d.inode
      /\ e.offset = d.offset + k
  <2>1. d.offset + k \in 0..MaxLen
    BY <1>2, BoundsAssumption
  <2>2. CASE d \in [mount : {"root"}, inode : 1 .. n - 1, offset : 0..MaxLen]
    BY <2>1, <2>2 DEF Descriptors
  <2>3. CASE d \in [mount : {"dev"}, inode : 1..5, offset : 0..MaxLen]
    BY <2>1, <2>3 DEF Descriptors
  <2>4. d # Free
    BY DEF Free
  <2> QED BY <1>1, <2>2, <2>3, <2>4 DEF Descriptors
<1>4. tables' = [tables EXCEPT ![p][fd] = e]
  BY <1>1 DEF Advance
<1>5. OffsetOK(e, ino)
  BY <1>3 DEF OffsetOK
<1> HIDE DEF e
<1> QED BY <1>3, <1>4, <1>5, PutDescriptor

LEMMA FileOpen ==
  ASSUME FilesInv, NEW p \in DOMAIN tables, NEW fd \in Fds, IsFile(tables[p][fd])
  PROVE  LET e == tables[p][fd]
             data == inodes[e.inode].data
         IN /\ e.mount = "root" /\ e.inode \in DOMAIN inodes /\ e.offset \in Nat
            /\ inodes[e.inode].type = "Regular"
            /\ data \in Seq(Bytes \union {0}) /\ Len(data) \in Nat
            /\ e.offset <= Len(data) /\ Len(data) <= MaxLen
<1> DEFINE e == tables[p][fd]
<1>1. e.mount = "root" /\ e.inode \in DOMAIN inodes /\ inodes[e.inode].type = "Regular"
  BY DEF IsFile
<1>2. e \in Descriptors(next_inode)
  BY Unfold DEF TablesOK
<1>3. e.offset \in Nat
  BY <1>2, BoundsAssumption DEF Descriptors, Free
<1>4. e.offset <= Len(inodes[e.inode].data)
  BY <1>1, Unfold DEF OffsetsOK, OffsetOK
<1>5. inodes[e.inode].data \in Seq(Bytes \union {0}) /\ Len(inodes[e.inode].data) \in Nat
      /\ Len(inodes[e.inode].data) <= MaxLen
  BY <1>1, Unfold, InodeParts DEF TreeOK
<1> QED BY <1>1, <1>3, <1>4, <1>5

LEMMA ReadStep ==
  ASSUME FilesInv, NEW p \in DOMAIN tables, NEW fd \in Fds, NEW count \in 1..MaxLen,
         SysRead(p, fd, count)
  PROVE  FilesInv'
<1> DEFINE e == tables[p][fd]
           len == Len(inodes[e.inode].data)
           k == Max({0, Min({count, len - e.offset})})
<1>1. IsFile(e) /\ Advance(p, fd, k) /\ inodes' = inodes /\ next_inode' = next_inode
  BY DEF SysRead
<1>2. /\ e.mount = "root" /\ e.offset \in Nat /\ len \in Nat
      /\ e.offset <= len /\ len <= MaxLen
  BY <1>1, FileOpen
<1>3. k \in Nat /\ e.offset + k <= len
  <2> DEFINE o == e.offset
             m == Min({count, len - o})
  <2>1. count \in Int /\ len - o \in Int /\ count >= 1
    BY <1>2, BoundsAssumption
  <2>2. m = IF count <= len - o THEN count ELSE len - o
    BY <2>1, MinOfTwo
  <2> HIDE DEF len, o
  <2>3. m \in Nat /\ m <= len - o
    BY <1>2, <2>1, <2>2 DEF o
  <2> HIDE DEF m
  <2>4. k = m
    <3>1. Max({0, m}) = IF 0 >= m THEN 0 ELSE m
      BY <2>3, MaxOfTwo
    <3> QED BY <2>3, <3>1 DEF m, o
  <2> HIDE DEF k
  <2> QED BY <1>2, <2>3, <2>4 DEF o
<1> HIDE DEF k
<1>4. e.offset + k <= MaxLen
  <2> HIDE DEF len
  <2> QED BY <1>2, <1>3, BoundsAssumption
<1>5. TablesOK(tables', next_inode) /\ OffsetsOK(inodes, tables')
  BY <1>1, <1>2, <1>3, <1>4, Unfold, AdvanceOK
<1> QED BY <1>1, <1>5, Unfold DEF FilesInv

LEMMA WriteStep ==
  ASSUME FilesInv, NEW p \in DOMAIN tables, NEW fd \in Fds, NEW bytes \in Buffers,
         SysWrite(p, fd, bytes)
  PROVE  FilesInv'
<1> DEFINE e == tables[p][fd]
           f == e.inode
           old == inodes[f].data
           new == Written(old, e.offset, bytes)
<1>1. /\ IsFile(e) /\ e.offset + Len(bytes) <= MaxLen /\ Advance(p, fd, Len(bytes))
      /\ inodes' = [inodes EXCEPT ![f].data = new] /\ next_inode' = next_inode
  <2>1. f \in DOMAIN inodes /\ inodes \in [DOMAIN inodes -> Inodes]
    BY Unfold DEF SysWrite, IsFile, TreeOK
  <2> QED BY <2>1 DEF SysWrite
<1>2. /\ e.mount = "root" /\ f \in DOMAIN inodes /\ e.offset \in Nat
      /\ inodes[f].type = "Regular" /\ old \in Seq(Bytes \union {0}) /\ Len(old) \in Nat
      /\ e.offset <= Len(old) /\ Len(old) <= MaxLen
  BY <1>1, FileOpen
<1>3. bytes \in Seq(Bytes) /\ Len(bytes) \in Nat
  <2>1. PICK n \in 1..MaxWrite : bytes \in [1..n -> Bytes]
    BY DEF Buffers
  <2>2. n \in Nat
    BY BoundsAssumption
  <2>3. bytes \in Seq(Bytes)
    BY <2>1, <2>2
  <2> QED BY <2>3, LenProperties
<1>4. new \in Seq(Bytes \union {0}) /\ Len(new) = Max({e.offset + Len(bytes), Len(old)})
  BY <1>2, <1>3, WrittenOK
<1> HIDE DEF new
<1>5. /\ Len(new) \in Nat /\ Len(new) <= MaxLen /\ Len(old) <= Len(new)
      /\ e.offset + Len(bytes) <= Len(new)
  <2> DEFINE a == e.offset + Len(bytes)
             b == Len(old)
  <2>1. a \in Nat /\ b \in Nat /\ a <= MaxLen /\ b <= MaxLen
    BY <1>1, <1>2, <1>3
  <2>2. Len(new) = Max({a, b})
    BY <1>4
  <2> HIDE DEF a, b
  <2>3. Len(new) = IF a >= b THEN a ELSE b
    BY <2>1, <2>2, MaxOfTwo
  <2>4. Len(new) \in Nat /\ Len(new) <= MaxLen /\ b <= Len(new) /\ a <= Len(new)
    BY <2>1, <2>3, BoundsAssumption
  <2> QED BY <2>4 DEF a, b
<1> HIDE DEF f
<1>6. /\ TreeOK(inodes', next_inode) /\ DOMAIN inodes' = DOMAIN inodes
      /\ inodes'[f].data = new /\ \A i \in DOMAIN inodes : inodes'[i].type = inodes[i].type
      /\ \A i \in DOMAIN inodes \ {f} : inodes'[i] = inodes[i]
  BY <1>1, <1>2, <1>4, <1>5, Unfold, DataOK
<1>7. \A i \in DOMAIN inodes : Len(inodes[i].data) \in Nat
  BY Unfold, InodeParts
<1>8. OffsetsOK(inodes', tables)
  <2>1. \A i \in DOMAIN inodes' : i < next_inode /\ inodes'[i].type = "Regular" =>
          /\ i \in DOMAIN inodes /\ inodes[i].type = "Regular"
          /\ Len(inodes[i].data) \in Nat /\ Len(inodes'[i].data) \in Nat
          /\ Len(inodes[i].data) <= Len(inodes'[i].data)
    BY <1>5, <1>6, <1>7
  <2> QED BY <2>1, Unfold, OffsetsCarryOver
<1>9. TablesOK(tables', next_inode) /\ OffsetsOK(inodes', tables')
  <2>1. e.offset + Len(bytes) <= Len(inodes'[e.inode].data)
    BY <1>5, <1>6 DEF f
  <2> QED BY <1>1, <1>2, <1>3, <1>8, <2>1, Unfold, AdvanceOK
<1> QED BY <1>1, <1>6, <1>9 DEF FilesInv

LEMMA DeviceStep ==
  ASSUME FilesInv, NEW p \in DOMAIN tables, NEW fd \in Fds, NEW n \in 1..MaxLen,
         DeviceTransfer(p, fd, n)
  PROVE  FilesInv'
<1>1. /\ tables[p][fd].mount = "dev" /\ tables[p][fd].offset + n <= MaxLen
      /\ Advance(p, fd, n) /\ inodes' = inodes /\ next_inode' = next_inode /\ n \in Nat
  BY BoundsAssumption DEF DeviceTransfer
<1>2. TablesOK(tables', next_inode) /\ OffsetsOK(inodes, tables')
  BY <1>1, Unfold, AdvanceOK
<1> QED BY <1>1, <1>2, Unfold DEF FilesInv

LEMMA FreeOK ==
  ASSUME NEW n, NEW ino
  PROVE  /\ Free \in Descriptors(n) /\ OffsetOK(Free, ino)
         /\ NewTable \in [Fds -> Descriptors(n)] /\ \A fd \in Fds : NewTable[fd] = Free
<1>1. Free \in Descriptors(n)
  BY DEF Descriptors
<1>2. OffsetOK(Free, ino)
  BY DEF OffsetOK, Free
<1> QED BY <1>1, <1>2 DEF NewTable

LEMMA CloseStep ==
  ASSUME FilesInv, NEW p \in DOMAIN tables, NEW fd \in Fds, SysClose(p, fd)
  PROVE  FilesInv'
<1>1. tables' = [tables EXCEPT ![p][fd] = Free] /\ inodes' = inodes /\ next_inode' = next_inode
  BY DEF SysClose
<1>2. TablesOK(tables', next_inode) /\ OffsetsOK(inodes, tables')
  BY <1>1, Unfold, FreeOK, PutDescriptor
<1> QED BY <1>1, <1>2, Unfold DEF FilesInv

(***************************************************************************)
(* fork, a fatal signal and exit: every table is one that there was        *)
(* before, or new.                                                         *)
(***************************************************************************)
LEMMA ProcessStep ==
  ASSUME FilesInv, ProcessEvent
  PROVE  FilesInv'
<1>1. ASSUME inodes' = inodes, next_inode' = next_inode,
             DOMAIN tables' \subseteq Procs, tables' = [q \in DOMAIN tables' |-> tables'[q]],
             \A q \in DOMAIN tables' : \/ tables'[q] = NewTable
                                       \/ \E p \in DOMAIN tables : tables'[q] = tables[p]
      PROVE  FilesInv'
  <2>1. ASSUME NEW q \in DOMAIN tables'
        PROVE  /\ tables'[q] \in [Fds -> Descriptors(next_inode)]
               /\ \A fd \in Fds : OffsetOK(tables'[q][fd], inodes)
    <3>1. CASE tables'[q] = NewTable
      BY <3>1, FreeOK
    <3>2. ASSUME NEW p \in DOMAIN tables, tables'[q] = tables[p]
          PROVE  /\ tables'[q] \in [Fds -> Descriptors(next_inode)]
                 /\ \A fd \in Fds : OffsetOK(tables'[q][fd], inodes)
      BY <3>2, Unfold DEF TablesOK, OffsetsOK
    <3> QED BY <1>1, <3>1, <3>2
  <2>2. TablesOK(tables', next_inode)
    BY <1>1, <2>1 DEF TablesOK
  <2>3. OffsetsOK(inodes, tables')
    BY <2>1 DEF OffsetsOK
  <2> QED BY <1>1, <2>2, <2>3, Unfold DEF FilesInv
<1>2. DOMAIN tables \subseteq Procs
  BY Unfold DEF TablesOK
<1>3. ASSUME NEW p \in DOMAIN tables, NEW child \in Procs, SysFork(p, child)
      PROVE  FilesInv'
  BY <1>1, <1>2, <1>3 DEF SysFork
<1>4. ASSUME NEW p \in DOMAIN tables, Clear(p)
      PROVE  FilesInv'
  BY <1>1, <1>2, <1>4 DEF Clear
<1>5. ASSUME NEW p \in DOMAIN tables, Exit(p)
      PROVE  FilesInv'
  BY <1>1, <1>2, <1>5 DEF Exit
<1> QED BY <1>3, <1>4, <1>5 DEF ProcessEvent

LEMMA FilesStep == FilesInv /\ [Next]_vars => FilesInv'
<1> SUFFICES ASSUME FilesInv, [Next]_vars
             PROVE  FilesInv'
  OBVIOUS
<1>1. CASE UNCHANGED vars
  BY <1>1 DEF vars, FilesInv
<1>2. CASE PathCall
  BY <1>2, OpenFoundStep, OpenCreateStep, MkdirStep, UnlinkStep DEF PathCall
<1>3. CASE DescriptorCall
  BY <1>3, ReadStep, DeviceStep, WriteStep, CloseStep DEF DescriptorCall
<1>4. CASE ProcessEvent
  BY <1>4, ProcessStep
<1> QED BY <1>1, <1>2, <1>3, <1>4 DEF Next

LEMMA FilesInit == Init => FilesInv
<1> SUFFICES ASSUME Init PROVE FilesInv
  OBVIOUS
<1> DEFINE a == Inode("Directory", <<>>, [bin |-> 2])
           b == Inode("Directory", <<>>, [hello |-> 3])
           c == Inode("Regular", <<0>>, NoChildren)
<1>1. inodes = <<a, b, c>> /\ next_inode = 4 /\ tables = [p \in {Min(Procs)} |-> NewTable]
  BY DEF Init
<1>2. <<>> \in Seq(Bytes \union {0}) /\ Len(<<>>) = 0
      /\ <<0>> \in Seq(Bytes \union {0}) /\ Len(<<0>>) = 1
  BY EmptySeq
<1>3. /\ a \in Inodes /\ a.type = "Directory" /\ a.data = <<>>
      /\ DOMAIN a.children = {"bin"} /\ a.children["bin"] = 2
  <2> DEFINE kids == [bin |-> 2]
  <2>0. "bin" \in Names
    BY DEF Names
  <2>1. DOMAIN kids = {"bin"} /\ kids["bin"] = 2 /\ kids \in [{"bin"} -> Nat]
    OBVIOUS
  <2>2. a = [type |-> "Directory", data |-> <<>>, children |-> kids]
    BY DEF Inode
  <2> HIDE DEF kids, a
  <2>3. kids \in UNION {[S -> Nat] : S \in SUBSET Names}
    <3>1. \A x \in DOMAIN kids : x \in Names
      BY <2>0, <2>1
    <3>2. DOMAIN kids \in SUBSET Names
      BY <3>1
    <3>3. kids \in [DOMAIN kids -> Nat]
      BY <2>1
    <3> QED BY <3>2, <3>3
  <2> QED BY <1>2, <2>1, <2>2, <2>3 DEF Inodes
<1>4. /\ b \in Inodes /\ b.type = "Directory" /\ b.data = <<>>
      /\ DOMAIN b.children = {"hello"} /\ b.children["hello"] = 3
  <2> DEFINE kids == [hello |-> 3]
  <2>0. "hello" \in Names
    BY DEF Names
  <2>1. DOMAIN kids = {"hello"} /\ kids["hello"] = 3 /\ kids \in [{"hello"} -> Nat]
    OBVIOUS
  <2>2. b = [type |-> "Directory", data |-> <<>>, children |-> kids]
    BY DEF Inode
  <2> HIDE DEF kids, b
  <2>3. kids \in UNION {[S -> Nat] : S \in SUBSET Names}
    <3>1. \A x \in DOMAIN kids : x \in Names
      BY <2>0, <2>1
    <3>2. DOMAIN kids \in SUBSET Names
      BY <3>1
    <3>3. kids \in [DOMAIN kids -> Nat]
      BY <2>1
    <3> QED BY <3>2, <3>3
  <2> QED BY <1>2, <2>1, <2>2, <2>3 DEF Inodes
<1>5. c \in Inodes /\ c.type = "Regular" /\ c.data = <<0>> /\ DOMAIN c.children = {}
  <2>1. NoChildren \in [{} -> Nat] /\ {} \in SUBSET Names /\ DOMAIN NoChildren = {}
    BY DEF NoChildren
  <2>2. NoChildren \in UNION {[S -> Nat] : S \in SUBSET Names}
    BY <2>1
  <2> HIDE DEF NoChildren
  <2> QED BY <1>2, <2>1, <2>2 DEF Inode, Inodes
<1> HIDE DEF a, b, c
<1>6. /\ DOMAIN inodes = {1, 2, 3} /\ inodes[1] = a /\ inodes[2] = b /\ inodes[3] = c
      /\ inodes \in [DOMAIN inodes -> Inodes]
  <2>1. inodes = [i \in 1..3 |-> inodes[i]] /\ inodes[1] = a /\ inodes[2] = b /\ inodes[3] = c
    BY <1>1
  <2>2. 1..3 = {1, 2, 3}
    OBVIOUS
  <2>3. \A i \in 1..3 : inodes[i] \in Inodes
    BY <1>3, <1>4, <1>5, <2>1, <2>2
  <2> QED BY <2>1, <2>2, <2>3
<1>7. \A i \in DOMAIN inodes : Len(inodes[i].data) <= MaxLen
  <2>1. Len(a.data) = 0 /\ Len(b.data) = 0 /\ Len(c.data) = 1
    BY <1>2, <1>3, <1>4, <1>5
  <2>2. 0 <= MaxLen /\ 1 <= MaxLen
    BY BoundsAssumption
  <2> QED BY <1>6, <2>1, <2>2
<1>8. Root \in DOMAIN inodes /\ inodes[Root].type = "Directory"
  BY <1>3, <1>6 DEF Root
<1>9. \A d \in DOMAIN inodes : \A n \in DOMAIN inodes[d].children :
        \/ d = 1 /\ n = "bin" /\ inodes[d].children[n] = 2
        \/ d = 2 /\ n = "hello" /\ inodes[d].children[n] = 3
  BY <1>3, <1>4, <1>5, <1>6
<1>10. /\ \A d \in DOMAIN inodes : \A n \in DOMAIN inodes[d].children :
            inodes[d].children[n] \in DOMAIN inodes /\ inodes[d].children[n] > d
       /\ \A d, e \in DOMAIN inodes :
            \A n \in DOMAIN inodes[d].children, k \in DOMAIN inodes[e].children :
              inodes[d].children[n] = inodes[e].children[k] => d = e /\ n = k
  BY <1>6, <1>9
<1>11. next_inode \in 1 .. MaxInode + 1 /\ DOMAIN inodes \subseteq 1 .. next_inode - 1
  BY <1>1, <1>6, BoundsAssumption
<1>12. TreeOK(inodes, next_inode)
  BY <1>6, <1>7, <1>8, <1>10, <1>11 DEF TreeOK
<1>13. Min(Procs) \in Procs
  BY ProcsAssumption, MinOfNat
<1>14. TablesOK(tables, next_inode) /\ OffsetsOK(inodes, tables)
  BY <1>1, <1>13, FreeOK DEF TablesOK, OffsetsOK
<1> QED BY <1>12, <1>14 DEF FilesInv

LEMMA FilesInvImplies ==
  ASSUME FilesInv
  PROVE  TypeOK /\ TreeWellFormed /\ OffsetsInFile
<1>1. TreeOK(inodes, next_inode) /\ TablesOK(tables, next_inode) /\ OffsetsOK(inodes, tables)
  BY DEF FilesInv
<1>2. TypeOK
  <2>1. \A i \in DOMAIN inodes : inodes[i].type \in {"Regular", "Directory"}
    BY <1>1 DEF TreeOK, Inodes
  <2> QED BY <1>1, <2>1 DEF TypeOK, TreeOK, TablesOK, Descriptors
<1>3. \A e \in Entries : \E d \in DOMAIN inodes : \E n \in DOMAIN inodes[d].children :
        e = <<d, n>> /\ e[1] = d /\ Child(e) = inodes[d].children[n]
  BY DEF Entries, EntriesIn, Child
<1>4. TreeWellFormed
  <2>1. \A e \in Entries : Child(e) \in DOMAIN inodes /\ Child(e) > e[1]
    BY <1>1, <1>3 DEF TreeOK
  <2>2. \A e, f \in Entries : Child(e) = Child(f) => e = f
    BY <1>1, <1>3 DEF TreeOK
  <2> QED BY <1>1, <2>1, <2>2 DEF TreeWellFormed, TreeOK
<1>5. OffsetsInFile
  BY <1>1 DEF OffsetsInFile, OffsetsOK, OffsetOK, IsFile
<1> QED BY <1>2, <1>4, <1>5

(***************************************************************************)
(* Inode numbers and offsets stay in range, every process keeps a complete *)
(* table, and resolve puts no number into a descriptor that no inode and   *)
(* no device has.                                                          *)
(***************************************************************************)
THEOREM FileTypes == Spec => []TypeOK
<1>1. FilesInv => TypeOK
  BY FilesInvImplies
<1> QED BY <1>1, FilesInit, FilesStep, PTL DEF Spec

(***************************************************************************)
(* create, mkdir and unlink keep the root file system a tree, also where   *)
(* unlink takes a directory that is not empty.                             *)
(***************************************************************************)
THEOREM TreeStaysWellFormed == Spec => []TreeWellFormed
<1>1. FilesInv => TreeWellFormed
  BY FilesInvImplies
<1> QED BY <1>1, FilesInit, FilesStep, PTL DEF Spec

(***************************************************************************)
(* No descriptor ever points behind the end of its file, shared, inherited *)
(* or left over from an unlinked file.                                     *)
(***************************************************************************)
THEOREM OffsetsStayInFile == Spec => []OffsetsInFile
<1>1. FilesInv => OffsetsInFile
  BY FilesInvImplies
<1> QED BY <1>1, FilesInit, FilesStep, PTL DEF Spec

-----------------------------------------------------------------------------
(***************************************************************************)
(* The root file system implements FileStore, and resolve finds what lies  *)
(* at a path, for all paths, processes and bounds.                         *)
(*                                                                         *)
(* The place of an inode is a recursive function of the tree.  IsPlace     *)
(* says what it is in terms of a directory and its entries, and the tree   *)
(* determines it (OnlyPlace).  So a step is understood by the places that  *)
(* FileStore says the new tree has: if they satisfy IsPlace, they are its  *)
(* places.                                                                 *)
(***************************************************************************)
IsPlace(ino, pl) ==
  /\ DOMAIN pl \subseteq DOMAIN ino /\ pl \in [DOMAIN pl -> Seq(Names)]
  /\ Root \in DOMAIN pl /\ pl[Root] = <<>>
  /\ \A d \in DOMAIN pl : \A n \in DOMAIN ino[d].children :
       /\ ino[d].children[n] \in DOMAIN pl
       /\ pl[ino[d].children[n]] = Append(pl[d], n)
  /\ \A i \in DOMAIN pl \ {Root} :
       \E d \in DOMAIN pl : \E n \in DOMAIN ino[d].children : ino[d].children[n] = i

\* Only directories have entries.
LeavesOK(ino) == \A d \in DOMAIN ino : DOMAIN ino[d].children # {} => ino[d].type = "Directory"

StoreInv == FilesInv /\ LeavesOK(inodes)

-----------------------------------------------------------------------------
(***************************************************************************)
(* Paths.                                                                  *)
(***************************************************************************)
LEMMA FrontOfAppend ==
  ASSUME NEW S, NEW s \in Seq(S), NEW a \in S
  PROVE  Front(Append(s, a)) = s /\ Append(s, a) # <<>> /\ Append(s, a) \in Seq(S)
<1> DEFINE t == Append(s, a)
           n == Len(s)
<1>1. /\ t \in Seq(S) /\ t # <<>> /\ Len(t) = n + 1 /\ n \in Nat
      /\ \A i \in 1..n : t[i] = s[i]
  BY AppendProperties, LenProperties
<1>2. \A i \in 1..n : s[i] \in S
  BY ElementOfSeq
<1> HIDE DEF t, n
<1>3. (n + 1) - 1 = n /\ n - 1 + 1 = n /\ n \in Int /\ 1 \in Int
      /\ (\A i \in 1..n : 1 + i - 1 = i) /\ (~(1 <= n) => n = 0)
  BY <1>1
<1>4. \A i \in 1..n : t[i] \in S
  BY <1>1, <1>2
<1>5. /\ SubSeq(t, 1, n) \in Seq(S) /\ Len(SubSeq(t, 1, n)) = IF 1 <= n THEN n - 1 + 1 ELSE 0
      /\ \A i \in 1 .. n - 1 + 1 : SubSeq(t, 1, n)[i] = t[1 + i - 1]
  BY <1>3, <1>4, SubSeqProperties
<1> DEFINE u == SubSeq(t, 1, n)
<1>6. u \in Seq(S) /\ Len(u) = n /\ \A i \in 1..n : u[i] = s[i]
  BY <1>1, <1>3, <1>5
<1> HIDE DEF u
<1>7. u = s
  BY <1>6, SeqEqual DEF n
<1>8. Front(t) = u
  BY <1>1, <1>3 DEF Front, u
<1> QED BY <1>1, <1>7, <1>8 DEF t

LEMMA Prefix ==
  ASSUME NEW S, NEW s \in Seq(S), NEW t \in Seq(S)
  PROVE  IsPrefix(s, t) <=> Len(s) <= Len(t) /\ \A k \in 1..Len(s) : s[k] = t[k]
<1> DEFINE n == Len(s)
<1>1. n \in Nat /\ Len(t) \in Nat /\ n \in Int /\ 1 \in Int
      /\ (\A k \in 1..n : s[k] \in S) /\ (\A k \in 1..Len(t) : t[k] \in S)
  BY LenProperties, ElementOfSeq
<1> SUFFICES ASSUME n <= Len(t)
             PROVE  SubSeq(s, 1, n) = SubSeq(t, 1, n) <=> \A k \in 1..n : s[k] = t[k]
  BY DEF IsPrefix
<1>2. SubSeq(s, 1, n) = s
  BY SubSeqFull
<1> DEFINE u == SubSeq(t, 1, n)
<1> HIDE DEF n
<1>3. \A k \in 1..n : t[k] \in S /\ 1 + k - 1 = k
  BY <1>1
<1>4. /\ u \in Seq(S) /\ Len(u) = IF 1 <= n THEN n - 1 + 1 ELSE 0
      /\ \A k \in 1 .. n - 1 + 1 : u[k] = t[1 + k - 1]
  BY <1>1, <1>3, SubSeqProperties
<1> HIDE DEF u
<1>5. u \in Seq(S) /\ Len(u) = n /\ \A k \in 1..n : u[k] = t[k]
  BY <1>1, <1>3, <1>4
<1>6. u = s <=> \A k \in 1..n : s[k] = u[k]
  BY <1>5, SeqEqual DEF n
<1> QED BY <1>2, <1>5, <1>6 DEF u

LEMMA PrefixOfAppend ==
  ASSUME NEW S, NEW s \in Seq(S), NEW t \in Seq(S), NEW a \in S
  PROVE  IsPrefix(s, Append(t, a)) <=> IsPrefix(s, t) \/ s = Append(t, a)
<1> DEFINE u == Append(t, a)
           n == Len(t)
           l == Len(s)
<1>1. /\ u \in Seq(S) /\ Len(u) = n + 1 /\ n \in Nat /\ l \in Nat
      /\ \A i \in 1..n : u[i] = t[i]
  BY AppendProperties, LenProperties
<1>2. l = n + 1 /\ (\A k \in 1..l : s[k] = u[k]) => s = u
  BY <1>1, SeqEqual
<1> HIDE DEF u
<1>3. IsPrefix(s, u) <=> (l <= n + 1 /\ \A k \in 1..l : s[k] = u[k])
  <2>1. IsPrefix(s, u) <=> (Len(s) <= Len(u) /\ \A k \in 1..Len(s) : s[k] = u[k])
    BY <1>1, Prefix
  <2> QED BY <1>1, <2>1
<1>4. IsPrefix(s, t) <=> (l <= n /\ \A k \in 1..l : s[k] = t[k])
  BY Prefix
<1>5. s = u => l = n + 1
  BY <1>1
<1> HIDE DEF l, n
<1>6. l <= n => \A k \in 1..l : u[k] = t[k]
  BY <1>1
<1>7. IsPrefix(s, u) <=> (IsPrefix(s, t) \/ s = u)
  <2>1. CASE l <= n
    <3>1. l <= n + 1 /\ l # n + 1
      BY <1>1, <2>1
    <3>2. (\A k \in 1..l : s[k] = u[k]) <=> (\A k \in 1..l : s[k] = t[k])
      BY <1>6, <2>1
    <3> QED BY <1>3, <1>4, <1>5, <2>1, <3>1, <3>2
  <2>2. CASE ~(l <= n)
    <3>1. l <= n + 1 <=> l = n + 1
      BY <1>1, <2>2
    <3>2. s = u => \A k \in 1..l : s[k] = u[k]
      OBVIOUS
    <3> QED BY <1>2, <1>3, <1>4, <1>5, <2>2, <3>1, <3>2
  <2> QED BY <2>1, <2>2
<1> QED BY <1>7 DEF u

LEMMA PrefixOfEmpty ==
  ASSUME NEW S, NEW s \in Seq(S)
  PROVE  /\ IsPrefix(s, <<>>) => s = <<>>
         /\ IsPrefix(s, s)
<1>1. <<>> \in Seq(S) /\ Len(<<>>) = 0 /\ Len(s) \in Nat
  BY EmptySeq, LenProperties
<1>2. IsPrefix(s, <<>>) => Len(s) = 0
  <2> DEFINE e == <<>>
  <2>1. e \in Seq(S) /\ Len(e) = 0
    BY <1>1
  <2> HIDE DEF e
  <2>2. IsPrefix(s, e) => Len(s) <= Len(e)
    BY <2>1, Prefix
  <2>3. IsPrefix(s, e) => Len(s) = 0
    BY <1>1, <2>1, <2>2
  <2> QED BY <2>3 DEF e
<1>3. Len(s) = 0 => s = <<>>
  BY <1>1, EmptySeq
<1>4. IsPrefix(s, s)
  <2>1. IsPrefix(s, s) <=> (Len(s) <= Len(s) /\ \A k \in 1..Len(s) : s[k] = s[k])
    BY Prefix
  <2> QED BY <1>1, <2>1
<1> QED BY <1>2, <1>3, <1>4

-----------------------------------------------------------------------------
(***************************************************************************)
(* The recursive function of PlacesIn exists, step by step up to the bound *)
(* of the inode numbers, and gives every inode at most one place.          *)
(***************************************************************************)
PlaceRound(ino, f, i) ==
  IF i = Root THEN {<<>>}
  ELSE UNION {{Append(path, e[2]) : path \in f[e[1]]} :
                e \in {x \in EntriesIn(ino) : ino[x[1]].children[x[2]] = i /\ x[1] < i}}

ArePlaces(ino, f, m) == f = [i \in 1..m |-> PlaceRound(ino, f, i)]

LEMMA EntryParts ==
  ASSUME NEW ino, NEW e \in EntriesIn(ino)
  PROVE  /\ e[1] \in DOMAIN ino /\ e[2] \in DOMAIN ino[e[1]].children
         /\ e = <<e[1], e[2]>>
BY DEF EntriesIn

LEMMA EntryIs ==
  ASSUME NEW ino, NEW d \in DOMAIN ino, NEW n \in DOMAIN ino[d].children
  PROVE  <<d, n>> \in EntriesIn(ino)
BY DEF EntriesIn

LEMMA PlacesExist ==
  ASSUME NEW ino, NEW next, TreeOK(ino, next)
  PROVE  \E f : ArePlaces(ino, f, MaxInode)
<1> DEFINE M == MaxInode
           Found == [m \in 0..M |-> {1}]
           g == [m \in 0..M |-> IF \E f : ArePlaces(ino, f, m) THEN 1 ELSE 0]
<1>0. M \in Nat /\ DOMAIN ino \subseteq 1..M
  BY BoundsAssumption DEF TreeOK
<1>1. g[0] \in Found[0]
  <2>1. ArePlaces(ino, [i \in 1..0 |-> {}], 0)
    BY DEF ArePlaces
  <2> QED BY <1>0, <2>1
<1>2. ASSUME NEW k \in 0 .. M - 1, g[k] \in Found[k]
      PROVE  g[k + 1] \in Found[k + 1]
  <2>1. k \in 0..M /\ k + 1 \in 0..M /\ k \in Nat
    BY <1>0
  <2>2. PICK f : ArePlaces(ino, f, k)
    BY <1>2, <2>1
  <2> DEFINE h == [i \in 1 .. k + 1 |-> PlaceRound(ino, f, i)]
  <2>3. \A i \in 1..k : h[i] = f[i]
    BY <2>1, <2>2 DEF ArePlaces
  <2>4. \A i \in 1 .. k + 1 : \A x \in EntriesIn(ino) : x[1] < i => x[1] \in 1..k
    BY <1>0, <2>1, EntryParts
  <2> HIDE DEF h
  <2>5. \A i \in 1 .. k + 1 : PlaceRound(ino, h, i) = PlaceRound(ino, f, i)
    <3> SUFFICES ASSUME NEW i \in 1 .. k + 1
                 PROVE  PlaceRound(ino, h, i) = PlaceRound(ino, f, i)
      OBVIOUS
    <3> DEFINE E == {x \in EntriesIn(ino) : ino[x[1]].children[x[2]] = i /\ x[1] < i}
    <3>1. \A e \in E : h[e[1]] = f[e[1]]
      BY <2>3, <2>4
    <3> HIDE DEF E
    <3>2. {{Append(path, e[2]) : path \in h[e[1]]} : e \in E}
          = {{Append(path, e[2]) : path \in f[e[1]]} : e \in E}
      <4>1. \A e \in E : {Append(path, e[2]) : path \in h[e[1]]} = {Append(path, e[2]) : path \in f[e[1]]}
        BY <3>1
      <4> QED BY <4>1
    <3> QED BY <3>2 DEF PlaceRound, E
  <2>6. ArePlaces(ino, h, k + 1)
    BY <2>5 DEF ArePlaces, h
  <2> QED BY <2>1, <2>6
<1>3. g[M] \in Found[M]
  <2> HIDE DEF g, Found
  <2> QED BY <1>0, <1>1, <1>2, Rounds
<1>4. M \in 0..M
  BY <1>0
<1> QED BY <1>3, <1>4

LEMMA PlacesAre ==
  ASSUME NEW ino, NEW next, TreeOK(ino, next)
  PROVE  \E f : ArePlaces(ino, f, MaxInode) /\ PlacesIn(ino) = [i \in DOMAIN ino |-> f[i]]
<1> DEFINE IsF(f) == f = [i \in 1..MaxInode |->
                            IF i = Root THEN {<<>>}
                            ELSE UNION {{Append(path, e[2]) : path \in f[e[1]]} :
                                          e \in {x \in EntriesIn(ino) :
                                                   ino[x[1]].children[x[2]] = i /\ x[1] < i}}]
           places == CHOOSE f : IsF(f)
<1>1. PlacesIn(ino) = [i \in DOMAIN ino |-> places[i]]
  BY DEF PlacesIn
<1>2. \E f : IsF(f)
  <2>1. PICK f : ArePlaces(ino, f, MaxInode)
    BY PlacesExist
  <2>2. IsF(f)
    BY <2>1 DEF ArePlaces, PlaceRound
  <2> QED BY <2>2
<1>3. IsF(places)
  <2> HIDE DEF IsF
  <2> QED BY <1>2
<1>4. ArePlaces(ino, places, MaxInode)
  BY <1>3 DEF ArePlaces, PlaceRound
<1> QED BY <1>1, <1>4

LEMMA PlaceRounds ==
  ASSUME NEW ino, NEW next, TreeOK(ino, next), NEW f, ArePlaces(ino, f, MaxInode)
  PROVE  /\ f[Root] = {<<>>}
         /\ \A d \in DOMAIN ino : \A n \in DOMAIN ino[d].children :
              f[ino[d].children[n]] = {Append(p, n) : p \in f[d]}
         /\ \A i \in 1..MaxInode : i # Root /\ f[i] # {} =>
              \E d \in DOMAIN ino : \E n \in DOMAIN ino[d].children :
                d < i /\ f[d] # {} /\ ino[d].children[n] = i
<1>0. /\ MaxInode \in Nat /\ DOMAIN ino \subseteq 1..MaxInode /\ Root \in DOMAIN ino
      /\ \A i \in 1..MaxInode : f[i] = PlaceRound(ino, f, i)
  <2>1. MaxInode \in Nat /\ DOMAIN ino \subseteq 1..MaxInode /\ Root \in DOMAIN ino
    BY BoundsAssumption DEF TreeOK
  <2>2. \A i \in 1..MaxInode : f[i] = PlaceRound(ino, f, i)
    BY DEF ArePlaces
  <2> QED BY <2>1, <2>2
<1>1. f[Root] = {<<>>}
  BY <1>0 DEF PlaceRound
<1>2. ASSUME NEW d \in DOMAIN ino, NEW n \in DOMAIN ino[d].children
      PROVE  f[ino[d].children[n]] = {Append(p, n) : p \in f[d]}
  <2> DEFINE c == ino[d].children[n]
             E == {x \in EntriesIn(ino) : ino[x[1]].children[x[2]] = c /\ x[1] < c}
  <2>1. c \in DOMAIN ino /\ c > d
    BY DEF TreeOK
  <2>2. c \in 1..MaxInode /\ d \in 1..MaxInode /\ c # Root
    BY <1>0, <2>1 DEF Root
  <2>3. E = {<<d, n>>}
    <3>1. <<d, n>> \in E
      BY <2>1, <2>2, EntryIs
    <3>2. ASSUME NEW x \in E
          PROVE  x = <<d, n>>
      <4>1. x[1] \in DOMAIN ino /\ x[2] \in DOMAIN ino[x[1]].children /\ x = <<x[1], x[2]>>
        BY EntryParts
      <4>2. x[1] = d /\ x[2] = n
        BY <4>1 DEF TreeOK
      <4> QED BY <4>1, <4>2
    <3> QED BY <3>1, <3>2
  <2> HIDE DEF E, c
  <2>4. f[c] = UNION {{Append(path, e[2]) : path \in f[e[1]]} : e \in E}
    BY <1>0, <2>2 DEF PlaceRound, E
  <2>5. f[c] = {Append(p, n) : p \in f[d]}
    BY <2>3, <2>4
  <2> QED BY <2>5 DEF c
<1>3. ASSUME NEW i \in 1..MaxInode, i # Root, f[i] # {}
      PROVE  \E d \in DOMAIN ino : \E n \in DOMAIN ino[d].children :
               d < i /\ f[d] # {} /\ ino[d].children[n] = i
  <2> DEFINE E == {x \in EntriesIn(ino) : ino[x[1]].children[x[2]] = i /\ x[1] < i}
  <2>1. f[i] = UNION {{Append(path, e[2]) : path \in f[e[1]]} : e \in E}
    BY <1>0, <1>3 DEF PlaceRound
  <2>2. \E e \in E : f[e[1]] # {}
    <3> HIDE DEF E
    <3> QED BY <1>3, <2>1
  <2> QED BY <2>2, EntryParts
<1> QED BY <1>1, <1>2, <1>3

LEMMA OnePlace ==
  ASSUME NEW ino, NEW next, TreeOK(ino, next), NEW f, ArePlaces(ino, f, MaxInode)
  PROVE  \A i \in 1..MaxInode : f[i] \subseteq Seq(Names) /\ \A p, q \in f[i] : p = q
<1> DEFINE Good(i) == f[i] \subseteq Seq(Names) /\ \A p, q \in f[i] : p = q
           Bad == {i \in 1..MaxInode : ~Good(i)}
<1>1. ASSUME Bad # {}
      PROVE  FALSE
  <2> DEFINE i == Min(Bad)
  <2>1. i \in Bad /\ \A x \in Bad : i <= x
    <3>1. Bad \in SUBSET Nat
      OBVIOUS
    <3> HIDE DEF Bad
    <3> QED BY <1>1, <3>1, MinOfNat
  <2> HIDE DEF i
  <2>2. i \in 1..MaxInode /\ ~Good(i)
    BY <2>1
  <2>3. i # Root
    <3>1. f[Root] = {<<>>} /\ <<>> \in Seq(Names)
      BY PlaceRounds, EmptySeq
    <3>2. Good(Root)
      BY <3>1
    <3> QED BY <2>2, <3>2
  <2>4. f[i] # {}
    BY <2>2
  <2>5. PICK d \in DOMAIN ino : \E n \in DOMAIN ino[d].children :
           d < i /\ f[d] # {} /\ ino[d].children[n] = i
    BY <2>2, <2>3, <2>4, PlaceRounds
  <2>6. PICK n \in DOMAIN ino[d].children : d < i /\ f[d] # {} /\ ino[d].children[n] = i
    BY <2>5
  <2>7. d \in 1..MaxInode /\ MaxInode \in Nat
    BY BoundsAssumption DEF TreeOK
  <2>8. Good(d)
    <3>1. d \notin Bad
      BY <2>1, <2>2, <2>6, <2>7
    <3> HIDE DEF Good
    <3> QED BY <2>7, <3>1
  <2>9. f[i] = {Append(p, n) : p \in f[d]}
    BY <2>6, PlaceRounds
  <2>10. n \in Names
    BY DEF TreeOK, Inodes
  <2>11. \A p \in f[d] : Append(p, n) \in Seq(Names)
    BY <2>8, <2>10, AppendProperties
  <2>12. Good(i)
    BY <2>8, <2>9, <2>11
  <2> QED BY <2>2, <2>12
<1> QED BY <1>1

LEMMA PlaceIs ==
  ASSUME NEW ino, NEW next, TreeOK(ino, next)
  PROVE  IsPlace(ino, PlaceIn(ino))
<1>1. PICK f : ArePlaces(ino, f, MaxInode) /\ PlacesIn(ino) = [i \in DOMAIN ino |-> f[i]]
  BY PlacesAre
<1> DEFINE pl == PlaceIn(ino)
           D == {j \in DOMAIN ino : f[j] # {}}
<1>2. pl = [i \in D |-> CHOOSE path \in f[i] : TRUE]
  <2>1. pl = [i \in {j \in DOMAIN ino : PlacesIn(ino)[j] # {}} |->
                CHOOSE path \in PlacesIn(ino)[i] : TRUE]
    BY DEF PlaceIn
  <2>2. \A j \in DOMAIN ino : PlacesIn(ino)[j] = f[j]
    BY <1>1
  <2> HIDE DEF pl
  <2> QED BY <2>1, <2>2
<1>3. DOMAIN pl = D /\ \A i \in D : pl[i] \in f[i]
  <2> HIDE DEF pl
  <2> QED BY <1>2
<1> HIDE DEF pl
<1>4. MaxInode \in Nat /\ DOMAIN ino \subseteq 1..MaxInode /\ Root \in DOMAIN ino
  BY BoundsAssumption DEF TreeOK
<1>5. \A i \in D : pl[i] \in Seq(Names) /\ f[i] = {pl[i]}
  BY <1>1, <1>3, <1>4, OnePlace
<1>6. pl \in [D -> Seq(Names)]
  BY <1>2, <1>5
<1>7. Root \in D /\ pl[Root] = <<>>
  BY <1>1, <1>3, <1>4, PlaceRounds
<1>8. ASSUME NEW d \in D, NEW n \in DOMAIN ino[d].children
      PROVE  ino[d].children[n] \in D /\ pl[ino[d].children[n]] = Append(pl[d], n)
  <2>1. f[ino[d].children[n]] = {Append(p, n) : p \in f[d]}
    BY <1>1, PlaceRounds
  <2>2. f[d] = {pl[d]} /\ ino[d].children[n] \in DOMAIN ino
    BY <1>5 DEF TreeOK
  <2>3. f[ino[d].children[n]] = {Append(pl[d], n)}
    BY <2>1, <2>2
  <2> QED BY <1>3, <2>2, <2>3
<1>9. ASSUME NEW i \in D \ {Root}
      PROVE  \E d \in D : \E n \in DOMAIN ino[d].children : ino[d].children[n] = i
  BY <1>1, <1>4, PlaceRounds
<1>10. IsPlace(ino, pl)
  <2> HIDE DEF D
  <2>1. D \subseteq DOMAIN ino
    BY DEF D
  <2> QED BY <1>3, <1>6, <1>7, <1>8, <1>9, <2>1 DEF IsPlace
<1> QED BY <1>10 DEF pl

(***************************************************************************)
(* The tree determines the places, and no two inodes have the same.        *)
(***************************************************************************)
LEMMA OnlyPlace ==
  ASSUME NEW ino, NEW next, TreeOK(ino, next),
         NEW a, IsPlace(ino, a), NEW b, IsPlace(ino, b)
  PROVE  a = b
<1> DEFINE Same(i) == (i \in DOMAIN a <=> i \in DOMAIN b) /\ (i \in DOMAIN a => a[i] = b[i])
           Bad == {i \in DOMAIN ino : ~Same(i)}
<1>0. DOMAIN ino \subseteq Nat
  BY DEF TreeOK
<1>1. ASSUME Bad # {}
      PROVE  FALSE
  <2> DEFINE i == Min(Bad)
  <2>1. i \in Bad /\ \A x \in Bad : i <= x
    <3>1. Bad \in SUBSET Nat
      BY <1>0
    <3> HIDE DEF Bad
    <3> QED BY <1>1, <3>1, MinOfNat
  <2> HIDE DEF i
  <2>2. i \in DOMAIN ino /\ ~Same(i)
    BY <2>1
  <2>3. i # Root
    <3>1. Same(Root)
      BY DEF IsPlace
    <3> QED BY <2>2, <3>1
  <2>4. ASSUME NEW d \in DOMAIN ino, NEW n \in DOMAIN ino[d].children, ino[d].children[n] = i
        PROVE  Same(d)
    <3>1. d < i
      BY <2>4 DEF TreeOK
    <3>2. d \notin Bad
      BY <1>0, <2>1, <2>2, <3>1
    <3> HIDE DEF Same
    <3> QED BY <3>2
  <2>5. ASSUME i \in DOMAIN a
        PROVE  Same(i)
    <3>1. PICK d \in DOMAIN a : \E n \in DOMAIN ino[d].children : ino[d].children[n] = i
      BY <2>3, <2>5 DEF IsPlace
    <3>2. PICK n \in DOMAIN ino[d].children : ino[d].children[n] = i
      BY <3>1
    <3>3. d \in DOMAIN ino /\ i \in DOMAIN a /\ a[i] = Append(a[d], n)
      BY <3>2 DEF IsPlace
    <3>4. Same(d)
      BY <2>4, <3>2, <3>3
    <3>5. i \in DOMAIN b /\ b[i] = Append(b[d], n)
      BY <3>2, <3>4 DEF IsPlace
    <3> QED BY <3>3, <3>4, <3>5
  <2>6. ASSUME i \in DOMAIN b
        PROVE  Same(i)
    <3>1. PICK d \in DOMAIN b : \E n \in DOMAIN ino[d].children : ino[d].children[n] = i
      BY <2>3, <2>6 DEF IsPlace
    <3>2. PICK n \in DOMAIN ino[d].children : ino[d].children[n] = i
      BY <3>1
    <3>3. d \in DOMAIN ino /\ i \in DOMAIN b /\ b[i] = Append(b[d], n)
      BY <3>2 DEF IsPlace
    <3>4. Same(d)
      BY <2>4, <3>2, <3>3
    <3>5. i \in DOMAIN a /\ a[i] = Append(a[d], n)
      BY <3>2, <3>4 DEF IsPlace
    <3> QED BY <3>3, <3>4, <3>5
  <2> QED BY <2>2, <2>5, <2>6
<1>2. \A i \in DOMAIN ino : Same(i)
  BY <1>1
<1>3. a = [i \in DOMAIN a |-> a[i]] /\ b = [i \in DOMAIN b |-> b[i]]
      /\ DOMAIN a \subseteq DOMAIN ino /\ DOMAIN b \subseteq DOMAIN ino
  BY DEF IsPlace
<1> QED BY <1>2, <1>3

LEMMA PlacesDiffer ==
  ASSUME NEW ino, NEW next, TreeOK(ino, next), NEW pl, IsPlace(ino, pl)
  PROVE  \A i, j \in DOMAIN pl : pl[i] = pl[j] => i = j
<1> DEFINE Good(i) == \A j \in DOMAIN pl : pl[i] = pl[j] => i = j
           Bad == {i \in DOMAIN pl : ~Good(i)}
<1>0. DOMAIN pl \subseteq Nat /\ \A i \in DOMAIN pl : pl[i] \in Seq(Names)
  BY DEF TreeOK, IsPlace
<1>1. ASSUME NEW i \in DOMAIN pl, i # Root
      PROVE  \E d \in DOMAIN pl : \E n \in Names :
               /\ d < i /\ n \in DOMAIN ino[d].children
               /\ ino[d].children[n] = i /\ pl[i] = Append(pl[d], n)
  <2>1. PICK d \in DOMAIN pl : \E n \in DOMAIN ino[d].children : ino[d].children[n] = i
    BY <1>1 DEF IsPlace
  <2>2. PICK n \in DOMAIN ino[d].children : ino[d].children[n] = i
    BY <2>1
  <2>3. d \in DOMAIN ino /\ n \in Names /\ d < i
    BY <2>2 DEF TreeOK, Inodes, IsPlace
  <2> QED BY <2>2, <2>3 DEF IsPlace
<1>2. ASSUME Bad # {}
      PROVE  FALSE
  <2> DEFINE i == Min(Bad)
  <2>1. i \in Bad /\ \A x \in Bad : i <= x
    <3>1. Bad \in SUBSET Nat
      BY <1>0
    <3> HIDE DEF Bad
    <3> QED BY <1>2, <3>1, MinOfNat
  <2> HIDE DEF i
  <2>2. i \in DOMAIN pl /\ ~Good(i)
    BY <2>1
  <2>3. PICK j \in DOMAIN pl : pl[i] = pl[j] /\ i # j
    BY <2>2
  <2>4. \A k \in DOMAIN pl : k # Root => pl[k] # <<>>
    BY <1>0, <1>1, AppendProperties
  <2>5. i # Root /\ j # Root
    BY <2>2, <2>3, <2>4 DEF IsPlace
  <2>6. PICK d \in DOMAIN pl, n \in Names :
           d < i /\ n \in DOMAIN ino[d].children /\ ino[d].children[n] = i /\ pl[i] = Append(pl[d], n)
    BY <1>1, <2>2, <2>5
  <2>7. PICK e \in DOMAIN pl, m \in Names :
           e < j /\ m \in DOMAIN ino[e].children /\ ino[e].children[m] = j /\ pl[j] = Append(pl[e], m)
    BY <1>1, <2>5
  <2>8. pl[d] = pl[e] /\ n = m
    <3>1. pl[d] \in Seq(Names) /\ pl[e] \in Seq(Names) /\ Append(pl[d], n) = Append(pl[e], m)
      BY <1>0, <2>3, <2>6, <2>7
    <3> QED BY <3>1, AppendInjective
  <2>9. Good(d)
    <3>1. d \notin Bad
      <4> HIDE DEF Good
      <4> QED BY <1>0, <2>1, <2>2, <2>6
    <3> HIDE DEF Good
    <3> QED BY <3>1
  <2>10. d = e
    BY <2>8, <2>9
  <2> QED BY <2>3, <2>6, <2>7, <2>8, <2>10
<1> QED BY <1>2

-----------------------------------------------------------------------------
(***************************************************************************)
(* What create, mkdir and unlink do to the places.                         *)
(***************************************************************************)
LEMMA PlaceAbove ==
  ASSUME NEW ino, NEW next, TreeOK(ino, next), NEW pl, IsPlace(ino, pl),
         NEW i \in DOMAIN pl, i # Root
  PROVE  \E d \in DOMAIN pl : \E n \in Names :
           /\ d < i /\ n \in DOMAIN ino[d].children
           /\ ino[d].children[n] = i /\ pl[i] = Append(pl[d], n)
<1>1. PICK d \in DOMAIN pl : \E n \in DOMAIN ino[d].children : ino[d].children[n] = i
  BY DEF IsPlace
<1>2. PICK n \in DOMAIN ino[d].children : ino[d].children[n] = i
  BY <1>1
<1>3. d \in DOMAIN ino /\ n \in Names /\ d < i
  BY <1>2 DEF TreeOK, Inodes, IsPlace
<1> QED BY <1>2, <1>3 DEF IsPlace

LEMMA AddIs ==
  ASSUME TreeOK(inodes, next_inode), NEW dir \in DOMAIN inodes, NEW name \in STRING,
         name \notin DOMAIN inodes[dir].children, NEW type, Add(dir, name, type)
  PROVE  /\ next_inode \notin DOMAIN inodes /\ next_inode # dir
         /\ DOMAIN inodes' = DOMAIN inodes \union {next_inode}
         /\ inodes'[next_inode].type = type /\ inodes'[next_inode].data = <<>>
         /\ DOMAIN inodes'[next_inode].children = {}
         /\ \A i \in DOMAIN inodes : /\ inodes'[i].type = inodes[i].type
                                     /\ inodes'[i].data = inodes[i].data
         /\ \A i \in DOMAIN inodes \ {dir} : inodes'[i].children = inodes[i].children
         /\ DOMAIN inodes'[dir].children = DOMAIN inodes[dir].children \union {name}
         /\ inodes'[dir].children[name] = next_inode
         /\ \A n \in DOMAIN inodes[dir].children :
              inodes'[dir].children[n] = inodes[dir].children[n] /\ n # name
<1> DEFINE old == inodes[dir].children
           kids == [n \in DOMAIN old \union {name} |-> IF n = name THEN next_inode ELSE old[n]]
           leaf == Inode(type, <<>>, NoChildren)
           parent == [inodes[dir] EXCEPT !.children = kids]
<1>1. next_inode \notin DOMAIN inodes /\ next_inode # dir
  BY DEF TreeOK
<1>2. inodes[dir] \in Inodes
  BY InodeParts
<1>3. leaf.type = type /\ leaf.data = <<>> /\ DOMAIN leaf.children = {}
  BY DEF Inode, NoChildren
<1>4. parent.children = kids /\ parent.type = inodes[dir].type /\ parent.data = inodes[dir].data
  BY <1>2 DEF Inodes
<1>5. inodes' = [i \in DOMAIN inodes \union {next_inode} |->
                   CASE i = next_inode -> leaf
                     [] i = dir        -> parent
                     [] OTHER          -> inodes[i]]
  BY DEF Add
<1> HIDE DEF leaf, parent, kids
<1>6. /\ DOMAIN inodes' = DOMAIN inodes \union {next_inode}
      /\ inodes'[next_inode] = leaf /\ inodes'[dir] = parent
      /\ \A i \in DOMAIN inodes \ {dir} : inodes'[i] = inodes[i]
  BY <1>1, <1>5
<1>7. /\ DOMAIN kids = DOMAIN old \union {name} /\ kids[name] = next_inode
      /\ \A n \in DOMAIN old : kids[n] = old[n] /\ n # name
  BY DEF kids
<1> QED BY <1>1, <1>3, <1>4, <1>6, <1>7

LEMMA AddPlace ==
  ASSUME TreeOK(inodes, next_inode), NEW pl, IsPlace(inodes, pl),
         NEW dir \in DOMAIN pl, NEW name \in STRING,
         name \notin DOMAIN inodes[dir].children, NEW type, Add(dir, name, type),
         NEW new, new = Store!Extend(pl, next_inode, Append(pl[dir], name))
  PROVE  IsPlace(inodes', new)
<1> DEFINE N == next_inode
<1>1. /\ DOMAIN pl \subseteq DOMAIN inodes /\ pl \in [DOMAIN pl -> Seq(Names)]
      /\ Root \in DOMAIN pl /\ pl[Root] = <<>> /\ dir \in DOMAIN inodes
  BY DEF IsPlace
<1>2. /\ N \notin DOMAIN inodes /\ N # dir
      /\ DOMAIN inodes' = DOMAIN inodes \union {N}
      /\ DOMAIN inodes'[N].children = {}
      /\ \A i \in DOMAIN inodes \ {dir} : inodes'[i].children = inodes[i].children
      /\ DOMAIN inodes'[dir].children = DOMAIN inodes[dir].children \union {name}
      /\ inodes'[dir].children[name] = N
      /\ \A n \in DOMAIN inodes[dir].children :
           inodes'[dir].children[n] = inodes[dir].children[n] /\ n # name
  BY <1>1, AddIs
<1>3. name \in Names
  BY DEF Names
<1>4. Append(pl[dir], name) \in Seq(Names)
  BY <1>1, <1>3, AppendProperties
<1>5. /\ DOMAIN new = DOMAIN pl \union {N} /\ new[N] = Append(pl[dir], name)
      /\ \A i \in DOMAIN pl : new[i] = pl[i] /\ i # N
      /\ new = [i \in DOMAIN new |-> new[i]]
  BY <1>1, <1>2 DEF Store!Extend
<1>6. DOMAIN new \subseteq DOMAIN inodes' /\ new \in [DOMAIN new -> Seq(Names)]
  <2>1. \A i \in DOMAIN new : new[i] \in Seq(Names)
    BY <1>1, <1>4, <1>5
  <2>2. DOMAIN new \subseteq DOMAIN inodes'
    BY <1>1, <1>2, <1>5
  <2> QED BY <1>5, <2>1, <2>2
<1>7. Root \in DOMAIN new /\ new[Root] = <<>>
  BY <1>1, <1>5
<1>8. ASSUME NEW d \in DOMAIN new, NEW n \in DOMAIN inodes'[d].children
      PROVE  /\ inodes'[d].children[n] \in DOMAIN new
             /\ new[inodes'[d].children[n]] = Append(new[d], n)
  <2>1. CASE d = N
    BY <1>2, <2>1
  <2>2. CASE d = dir /\ n = name
    BY <1>2, <1>5, <2>2
  <2>3. CASE d # N /\ ~(d = dir /\ n = name)
    <3>1. d \in DOMAIN pl /\ d \in DOMAIN inodes
      BY <1>1, <1>5, <2>3
    <3>2. n \in DOMAIN inodes[d].children /\ inodes'[d].children[n] = inodes[d].children[n]
      BY <1>2, <2>3, <3>1
    <3>3. /\ inodes[d].children[n] \in DOMAIN pl
          /\ pl[inodes[d].children[n]] = Append(pl[d], n)
      BY <3>1, <3>2 DEF IsPlace
    <3> QED BY <1>5, <3>1, <3>2, <3>3
  <2> QED BY <2>1, <2>2, <2>3
<1>9. ASSUME NEW i \in DOMAIN new \ {Root}
      PROVE  \E d \in DOMAIN new : \E n \in DOMAIN inodes'[d].children : inodes'[d].children[n] = i
  <2>1. CASE i = N
    BY <1>2, <1>5, <2>1
  <2>2. CASE i # N
    <3>1. i \in DOMAIN pl \ {Root}
      BY <1>5, <2>2
    <3>2. PICK d \in DOMAIN pl : \E n \in DOMAIN inodes[d].children : inodes[d].children[n] = i
      BY <3>1 DEF IsPlace
    <3>3. PICK n \in DOMAIN inodes[d].children : inodes[d].children[n] = i
      BY <3>2
    <3>4. n \in DOMAIN inodes'[d].children /\ inodes'[d].children[n] = inodes[d].children[n]
      BY <1>1, <1>2
    <3> QED BY <1>5, <3>3, <3>4
  <2> QED BY <2>1, <2>2
<1> QED BY <1>6, <1>7, <1>8, <1>9 DEF IsPlace

Removed(old, new, dir, name, v) ==
  /\ v \in DOMAIN old /\ v # dir /\ v # Root
  /\ DOMAIN new = DOMAIN old \ {v}
  /\ \A i \in DOMAIN new : new[i].type = old[i].type /\ new[i].data = old[i].data
  /\ \A i \in DOMAIN new \ {dir} : new[i].children = old[i].children
  /\ DOMAIN new[dir].children = DOMAIN old[dir].children \ {name}
  /\ \A n \in DOMAIN old[dir].children \ {name} : new[dir].children[n] = old[dir].children[n]

LEMMA RemoveIs ==
  ASSUME TreeOK(inodes, next_inode), NEW dir \in DOMAIN inodes,
         NEW name \in DOMAIN inodes[dir].children, RemoveEntry(dir, name)
  PROVE  Removed(inodes, inodes', dir, name, inodes[dir].children[name])
<1> DEFINE old == inodes[dir].children
           v == inodes[dir].children[name]
           kids == [n \in DOMAIN old \ {name} |-> old[n]]
           parent == [inodes[dir] EXCEPT !.children = kids]
<1>1. v \in DOMAIN inodes /\ v # dir /\ v # Root
  <2>1. v \in DOMAIN inodes /\ v > dir /\ dir \in Nat /\ dir >= 1
    BY InodeParts DEF TreeOK
  <2> QED BY <2>1 DEF Root
<1>2. inodes[dir] \in Inodes
  BY InodeParts
<1>3. parent.children = kids /\ parent.type = inodes[dir].type /\ parent.data = inodes[dir].data
  BY <1>2 DEF Inodes
<1>4. inodes' = [i \in DOMAIN inodes \ {v} |-> IF i = dir THEN parent ELSE inodes[i]]
  BY DEF RemoveEntry
<1> HIDE DEF parent, kids
<1>5. /\ DOMAIN inodes' = DOMAIN inodes \ {v} /\ inodes'[dir] = parent
      /\ \A i \in DOMAIN inodes' \ {dir} : inodes'[i] = inodes[i]
  BY <1>1, <1>4
<1>6. /\ DOMAIN kids = DOMAIN old \ {name}
      /\ \A n \in DOMAIN old \ {name} : kids[n] = old[n]
  BY DEF kids
<1>7. Removed(inodes, inodes', dir, name, v)
  BY <1>1, <1>3, <1>5, <1>6 DEF Removed
<1> QED BY <1>7

LEMMA RemovePlace ==
  ASSUME TreeOK(inodes, next_inode), NEW pl, IsPlace(inodes, pl),
         NEW dir \in DOMAIN pl, NEW name \in DOMAIN inodes[dir].children,
         RemoveEntry(dir, name), NEW v, v = inodes[dir].children[name],
         NEW new, new = Store!Without(pl, {j \in DOMAIN pl : IsPrefix(pl[v], pl[j])})
  PROVE  v \in DOMAIN pl /\ pl[v] # <<>> /\ IsPlace(inodes', new)
<1>1. /\ DOMAIN pl \subseteq DOMAIN inodes /\ pl \in [DOMAIN pl -> Seq(Names)]
      /\ Root \in DOMAIN pl /\ pl[Root] = <<>> /\ dir \in DOMAIN inodes
  BY DEF IsPlace
<1>2. /\ v \in DOMAIN inodes /\ v # dir /\ v # Root
      /\ DOMAIN inodes' = DOMAIN inodes \ {v}
      /\ \A i \in DOMAIN inodes' \ {dir} : inodes'[i].children = inodes[i].children
      /\ DOMAIN inodes'[dir].children = DOMAIN inodes[dir].children \ {name}
      /\ \A n \in DOMAIN inodes[dir].children \ {name} :
           inodes'[dir].children[n] = inodes[dir].children[n]
  <2>1. dir \in DOMAIN inodes
    BY <1>1
  <2>2. Removed(inodes, inodes', dir, name, inodes[dir].children[name])
    BY <2>1, RemoveIs
  <2> QED BY <2>2 DEF Removed
<1>3. name \in Names
  BY <1>1, InodeParts
<1>4. v \in DOMAIN pl /\ pl[v] = Append(pl[dir], name) /\ pl[v] # <<>> /\ pl[v] \in Seq(Names)
  <2>1. v \in DOMAIN pl /\ pl[v] = Append(pl[dir], name)
    BY DEF IsPlace
  <2> QED BY <1>1, <1>3, <2>1, AppendProperties
<1> DEFINE Below(j) == IsPrefix(pl[v], pl[j])
<1>5. /\ DOMAIN new = {j \in DOMAIN pl : ~Below(j)}
      /\ \A i \in DOMAIN new : new[i] = pl[i]
      /\ new = [i \in DOMAIN new |-> new[i]]
  BY DEF Store!Without
<1>6. Below(v) /\ ~Below(Root)
  BY <1>1, <1>4, PrefixOfEmpty
<1>7. ASSUME NEW d \in DOMAIN pl, NEW n \in DOMAIN inodes[d].children
      PROVE  Below(inodes[d].children[n]) <=> (Below(d) \/ inodes[d].children[n] = v)
  <2>1. inodes[d].children[n] \in DOMAIN pl /\ pl[inodes[d].children[n]] = Append(pl[d], n)
    BY DEF IsPlace
  <2>2. n \in Names /\ pl[d] \in Seq(Names)
    BY <1>1, InodeParts
  <2>3. Below(inodes[d].children[n]) <=> (Below(d) \/ pl[v] = Append(pl[d], n))
    <3>1. IsPrefix(pl[v], Append(pl[d], n)) <=> (IsPrefix(pl[v], pl[d]) \/ pl[v] = Append(pl[d], n))
      BY <1>4, <2>2, PrefixOfAppend, ZenonT(60)
    <3> QED BY <2>1, <3>1
  <2>4. pl[v] = pl[inodes[d].children[n]] <=> inodes[d].children[n] = v
    BY <1>4, <2>1, PlacesDiffer
  <2> HIDE DEF Below
  <2> QED BY <2>1, <2>3, <2>4
<1> HIDE DEF Below
<1>8. DOMAIN new \subseteq DOMAIN inodes' /\ new \in [DOMAIN new -> Seq(Names)]
  BY <1>1, <1>2, <1>5, <1>6
<1>9. Root \in DOMAIN new /\ new[Root] = <<>>
  BY <1>1, <1>5, <1>6
<1>10. ASSUME NEW d \in DOMAIN new, NEW n \in DOMAIN inodes'[d].children
       PROVE  /\ inodes'[d].children[n] \in DOMAIN new
              /\ new[inodes'[d].children[n]] = Append(new[d], n)
  <2>1. d \in DOMAIN pl /\ ~Below(d) /\ d \in DOMAIN inodes' /\ d \in DOMAIN inodes
    BY <1>1, <1>5, <1>8
  <2>2. /\ n \in DOMAIN inodes[d].children /\ inodes'[d].children[n] = inodes[d].children[n]
        /\ ~(d = dir /\ n = name)
    BY <1>2, <2>1
  <2>3. inodes[d].children[n] # v
    BY <1>1, <2>1, <2>2 DEF TreeOK
  <2>4. /\ inodes[d].children[n] \in DOMAIN pl
        /\ pl[inodes[d].children[n]] = Append(pl[d], n)
    BY <2>1, <2>2 DEF IsPlace
  <2>5. ~Below(inodes[d].children[n])
    BY <1>7, <2>1, <2>2, <2>3
  <2> QED BY <1>5, <2>1, <2>2, <2>4, <2>5
<1>11. ASSUME NEW i \in DOMAIN new \ {Root}
       PROVE  \E d \in DOMAIN new : \E n \in DOMAIN inodes'[d].children : inodes'[d].children[n] = i
  <2>1. i \in DOMAIN pl \ {Root} /\ ~Below(i) /\ i # v
    BY <1>5, <1>6
  <2>2. PICK d \in DOMAIN pl : \E n \in DOMAIN inodes[d].children : inodes[d].children[n] = i
    BY <2>1 DEF IsPlace
  <2>3. PICK n \in DOMAIN inodes[d].children : inodes[d].children[n] = i
    BY <2>2
  <2>4. ~Below(d)
    BY <1>7, <2>1, <2>3
  <2>5. d \in DOMAIN new /\ d \in DOMAIN inodes'
    BY <1>5, <1>8, <2>4
  <2>6. ~(d = dir /\ n = name)
    BY <2>1, <2>3
  <2>7. n \in DOMAIN inodes'[d].children /\ inodes'[d].children[n] = inodes[d].children[n]
    BY <1>2, <2>5, <2>6
  <2> QED BY <2>3, <2>5, <2>7
<1>12. IsPlace(inodes', new)
  BY <1>8, <1>9, <1>10, <1>11 DEF IsPlace
<1> QED BY <1>4, <1>12

-----------------------------------------------------------------------------
(***************************************************************************)
(* A path of the root file system stays in it when it is cut, so that the  *)
(* parent that create, mkdir and unlink resolve is a directory of the tree *)
(* and not a number of a device.  resolve starts at the root and so finds  *)
(* only inodes that have a place, never one that was cut off.              *)
(***************************************************************************)
LEMMA TwoNames ==
  ASSUME NEW S, NEW a \in S, NEW b \in S, NEW t, t = <<a, b>>
  PROVE  t \in Seq(S) /\ Len(t) = 2 /\ t[1] = a /\ t[2] = b
<1>1. Len(t) = 2 /\ t[1] = a /\ t[2] = b
  OBVIOUS
<1>2. t \in Seq(S)
  OBVIOUS
<1> QED BY <1>1, <1>2

LEMMA PathNames ==
  /\ Paths \subseteq Seq(Names)
  /\ RootPath \in Seq(Names) /\ Len(RootPath) = 2 /\ RootPath[1] = "" /\ RootPath[2] = ""
  /\ DevMount \in Seq(Names) /\ Len(DevMount) = 2 /\ DevMount[1] = "" /\ DevMount[2] = "dev"
<1>1. STRING \subseteq Names /\ "" \in Names /\ "dev" \in Names
  BY DEF Names
<1> DEFINE none == ""
           dev == "dev"
<1>2. /\ RootPath = <<none, none>> /\ DevMount = <<none, dev>>
      /\ none \in Names /\ dev \in Names
  BY <1>1 DEF RootPath, DevMount
<1> HIDE DEF none, dev
<1>3. /\ RootPath \in Seq(Names) /\ Len(RootPath) = 2 /\ RootPath[1] = none /\ RootPath[2] = none
      /\ DevMount \in Seq(Names) /\ Len(DevMount) = 2 /\ DevMount[1] = none /\ DevMount[2] = dev
  BY <1>2, TwoNames
<1>4. ASSUME NEW path \in Paths
      PROVE  path \in Seq(Names)
  BY <1>1, PathsAssumption, SeqMonotonic
<1> QED BY <1>3, <1>4 DEF none, dev

Agrees(s, t) == Len(s) <= Len(t) /\ \A k \in 1..Len(s) : s[k] = t[k]

LEMMA PrefixAgrees ==
  ASSUME NEW S, NEW s \in Seq(S), NEW t \in Seq(S)
  PROVE  IsPrefix(s, t) <=> Agrees(s, t)
BY Prefix DEF Agrees

LEMMA PrefixOfTwo ==
  ASSUME NEW S, NEW s \in Seq(S), NEW t \in Seq(S), Len(s) = 2
  PROVE  IsPrefix(s, t) <=> (Len(t) >= 2 /\ t[1] = s[1] /\ t[2] = s[2])
<1>1. IsPrefix(s, t) <=> Agrees(s, t)
  BY PrefixAgrees
<1>2. (\A k \in 1..2 : s[k] = t[k]) <=> (s[1] = t[1] /\ s[2] = t[2])
  OBVIOUS
<1>3. Len(t) \in Nat
  BY LenProperties
<1> QED BY <1>1, <1>2, <1>3 DEF Agrees

LEMMA DevPrefix ==
  ASSUME NEW t \in Seq(Names)
  PROVE  IsPrefix(DevMount, t) <=> (Len(t) >= 2 /\ t[1] = "" /\ t[2] = "dev")
<1>1. IsPrefix(DevMount, t) <=> (Len(t) >= 2 /\ t[1] = DevMount[1] /\ t[2] = DevMount[2])
  BY PathNames, PrefixOfTwo
<1> QED BY <1>1, PathNames

LEMMA RootPathLen ==
  ASSUME NEW path \in Seq(Names), FindMount(path) = "root"
  PROVE  Len(path) > 1 /\ Len(path) \in Nat /\ path[1] = "" /\ ~IsPrefix(DevMount, path)
<1>1. CASE IsPrefix(DevMount, path)
  BY <1>1 DEF FindMount
<1>2. CASE ~IsPrefix(DevMount, path) /\ ~(Len(path) > 1 /\ path[1] = "")
  BY <1>2 DEF FindMount
<1> QED BY <1>1, <1>2, LenProperties

LEMMA ParentNotDev ==
  ASSUME NEW path \in Seq(Names), FindMount(path) = "root",
         NEW parent \in {RootPath, Front(path)}
  PROVE  parent \in Seq(Names) /\ FindMount(parent) # "dev"
<1>1. /\ Len(path) \in Nat /\ Len(path) > 1 /\ ~IsPrefix(DevMount, path)
      /\ \A k \in 1..Len(path) : path[k] \in Names
  BY RootPathLen, ElementOfSeq
<1>2. CASE parent = RootPath
  <2>1. parent \in Seq(Names) /\ parent[2] = ""
    BY <1>2, PathNames
  <2>2. ~IsPrefix(DevMount, parent)
    BY <2>1, DevPrefix
  <2> QED BY <2>1, <2>2 DEF FindMount
<1>3. CASE parent = Front(path)
  <2> DEFINE n == Len(path) - 1
  <2>1. n \in Nat /\ n >= 1 /\ 1 \in Int /\ n \in Int /\ n - 1 + 1 = n
        /\ \A k \in 1..n : k \in 1..Len(path) /\ 1 + k - 1 = k
    BY <1>1
  <2>2. parent = SubSeq(path, 1, n)
    BY <1>3 DEF Front
  <2>3. parent \in Seq(Names) /\ Len(parent) = n /\ \A k \in 1..n : parent[k] = path[k]
    <3> HIDE DEF n
    <3>1. \A k \in 1..n : path[k] \in Names
      BY <1>1, <2>1
    <3>2. /\ SubSeq(path, 1, n) \in Seq(Names)
          /\ Len(SubSeq(path, 1, n)) = IF 1 <= n THEN n - 1 + 1 ELSE 0
          /\ \A k \in 1 .. n - 1 + 1 : SubSeq(path, 1, n)[k] = path[1 + k - 1]
      BY <2>1, <3>1, SubSeqProperties
    <3> QED BY <2>1, <2>2, <3>2
  <2>4. ASSUME IsPrefix(DevMount, parent)
        PROVE  FALSE
    <3>1. Len(parent) >= 2 /\ parent[1] = "" /\ parent[2] = "dev"
      BY <2>3, <2>4, DevPrefix
    <3>2. 1 \in 1..n /\ 2 \in 1..n /\ Len(path) >= 2
      <4>1. n \in Nat /\ n >= 2
        BY <2>1, <2>3, <3>1
      <4> QED BY <1>1, <4>1
    <3>3. path[1] = "" /\ path[2] = "dev"
      BY <2>3, <3>1, <3>2
    <3> QED BY <1>1, <3>2, <3>3, DevPrefix
  <2> QED BY <2>3, <2>4 DEF FindMount
<1> QED BY <1>2, <1>3

LEMMA ResolvePlaced ==
  ASSUME FilesInv, NEW pl, IsPlace(inodes, pl), NEW path \in Seq(Names),
         FindMount(path) # "dev"
  PROVE  Resolve(path) \in DOMAIN pl \union {0}
<1> DEFINE Good == DOMAIN pl \union {0}
<1>1. CASE FindMount(path) = "root"
  <2>1. Root \in Good
    BY DEF IsPlace
  <2>2. ASSUME NEW i \in Good, NEW name \in Names
        PROVE  Walk(i, name) \in Good
    <3>1. i \in DOMAIN inodes => i # 0
      BY Unfold DEF TreeOK
    <3>2. CASE i \in DOMAIN pl
      BY <2>2, <3>2 DEF Walk, Lookup, IsPlace
    <3>3. CASE i = 0
      BY <2>2, <3>1, <3>3 DEF Walk, Lookup
    <3> QED BY <2>2, <3>2, <3>3
  <2>3. Components(path) \in Seq(Names)
    BY ComponentsAreNames
  <2> HIDE DEF Good
  <2>4. FoldLeft(Walk, Root, Components(path)) \in Good
    BY <2>1, <2>2, <2>3, WalkKeeps
  <2>5. Resolve(path) = FoldLeft(Walk, Root, Components(path))
    BY <1>1 DEF Resolve
  <2> QED BY <2>4, <2>5 DEF Good
<1>2. CASE FindMount(path) # "root"
  BY <1>2, ResolveNone
<1> QED BY <1>1, <1>2

LEMMA Parents ==
  ASSUME NEW path
  PROVE  /\ SplitParentName(path) \in {RootPath, Front(path)}
         /\ RsplitOnce(path) \in {RootPath, Front(path)}
BY DEF SplitParentName, RsplitOnce

-----------------------------------------------------------------------------
(***************************************************************************)
(* create and mkdir are Create of FileStore, unlink is Unlink.             *)
(***************************************************************************)
LEMMA ObjectParts ==
  ASSUME NEW ino
  PROVE  /\ DOMAIN ObjectsIn(ino) = DOMAIN ino
         /\ \A i \in DOMAIN ino : ObjectsIn(ino)[i] = [type |-> ino[i].type, data |-> ino[i].data]
BY DEF ObjectsIn

LEMMA CreateMaps ==
  ASSUME TreeOK(inodes, next_inode), NEW pl, IsPlace(inodes, pl),
         NEW dir \in DOMAIN pl, inodes[dir].type = "Directory", NEW name \in STRING,
         name \notin DOMAIN inodes[dir].children, NEW type, Add(dir, name, type),
         NEW path, path = Append(pl[dir], name)
  PROVE  /\ \A i \in DOMAIN pl : pl[i] # path
         /\ path # <<>> /\ Store!IsDirectory(pl, Front(path))
         /\ ObjectsIn(inodes') =
              Store!Extend(ObjectsIn(inodes), next_inode, [type |-> type, data |-> <<>>])
<1>1. /\ DOMAIN pl \subseteq DOMAIN inodes /\ \A i \in DOMAIN pl : pl[i] \in Seq(Names)
      /\ pl[Root] = <<>> /\ dir \in DOMAIN inodes
  BY DEF IsPlace
<1>2. name \in Names
  BY DEF Names
<1>3. Front(path) = pl[dir] /\ path # <<>> /\ path \in Seq(Names)
  BY <1>1, <1>2, FrontOfAppend
<1>4. ASSUME NEW i \in DOMAIN pl, pl[i] = path
      PROVE  FALSE
  <2>1. i # Root
    BY <1>1, <1>3, <1>4
  <2>2. PICK d \in DOMAIN pl, n \in Names :
           n \in DOMAIN inodes[d].children /\ inodes[d].children[n] = i /\ pl[i] = Append(pl[d], n)
    BY <2>1, PlaceAbove
  <2>3. pl[d] = pl[dir] /\ n = name
    <3>1. pl[d] \in Seq(Names) /\ pl[dir] \in Seq(Names) /\ Append(pl[d], n) = Append(pl[dir], name)
      BY <1>1, <1>4, <2>2
    <3> QED BY <1>2, <3>1, AppendInjective
  <2>4. d = dir
    BY <2>3, PlacesDiffer
  <2> QED BY <2>2, <2>3, <2>4
<1>5. Store!IsDirectory(pl, Front(path))
  <2>1. ObjectsIn(inodes)[dir].type = "Directory"
    BY <1>1 DEF ObjectsIn
  <2> QED BY <1>3, <2>1 DEF Store!IsDirectory
<1>6. ObjectsIn(inodes') =
        Store!Extend(ObjectsIn(inodes), next_inode, [type |-> type, data |-> <<>>])
  <2>1. /\ DOMAIN inodes' = DOMAIN inodes \union {next_inode} /\ next_inode \notin DOMAIN inodes
        /\ inodes'[next_inode].type = type /\ inodes'[next_inode].data = <<>>
        /\ \A i \in DOMAIN inodes : inodes'[i].type = inodes[i].type /\ inodes'[i].data = inodes[i].data
    BY <1>1, AddIs, ZenonT(30)
  <2>2. \A i \in DOMAIN inodes' : [type |-> inodes'[i].type, data |-> inodes'[i].data] =
          IF i = next_inode THEN [type |-> type, data |-> <<>>]
          ELSE [type |-> inodes[i].type, data |-> inodes[i].data]
    BY <2>1
  <2>3. DOMAIN ObjectsIn(inodes) \union {next_inode} = DOMAIN inodes'
    BY <2>1, ObjectParts
  <2> QED BY <2>1, <2>2, <2>3, ObjectParts DEF Store!Extend, ObjectsIn
<1> QED BY <1>3, <1>4, <1>5, <1>6

LEMMA CreateRefines ==
  ASSUME StoreInv, NEW path \in Paths, NEW parent \in {RootPath, Front(path)},
         CanAdd(path, parent), next_inode <= MaxInode, NEW type \in {"Regular", "Directory"},
         Add(Resolve(parent), Last(path), type)
  PROVE  Store!Next /\ LeavesOK(inodes')
<1> DEFINE dir == Resolve(parent)
           name == Last(path)
           pl == Place
           spot == Append(pl[dir], name)
           new == Store!Extend(pl, next_inode, spot)
<1>0. FilesInv /\ LeavesOK(inodes) /\ TreeOK(inodes, next_inode)
  BY Unfold DEF StoreInv
<1>1. IsPlace(inodes, pl)
  BY <1>0, PlaceIs DEF Place
<1>2. /\ FindMount(path) = "root" /\ path \in Seq(Names) /\ path \in Seq(STRING)
      /\ dir \in DOMAIN inodes /\ inodes[dir].type = "Directory"
      /\ name \notin DOMAIN inodes[dir].children /\ name \in STRING
  BY PathNames, PathsAssumption, LastIsName DEF CanAdd, IsDir
<1>3. TreeOK(inodes', next_inode') /\ next_inode' = next_inode + 1
  BY <1>0, AddStep
<1> HIDE DEF pl
<1>4. dir \in DOMAIN pl
  <2>1. parent \in Seq(Names) /\ FindMount(parent) # "dev"
    BY <1>2, ParentNotDev
  <2>2. dir \in DOMAIN pl \union {0}
    BY <1>0, <1>1, <2>1, ResolvePlaced
  <2>3. dir # 0
    BY <1>0, <1>2 DEF TreeOK
  <2> QED BY <2>2, <2>3
<1>5. Add(dir, name, type)
  OBVIOUS
<1> HIDE DEF dir, name
<1>6. IsPlace(inodes', new)
  BY <1>0, <1>1, <1>2, <1>4, <1>5, AddPlace
<1>7. /\ \A i \in DOMAIN pl : pl[i] # spot
      /\ spot # <<>> /\ Store!IsDirectory(pl, Front(spot))
      /\ ObjectsIn(inodes') =
           Store!Extend(ObjectsIn(inodes), next_inode, [type |-> type, data |-> <<>>])
  BY <1>0, <1>1, <1>2, <1>4, <1>5, CreateMaps
<1>8. PlaceIn(inodes') = new
  <2>1. IsPlace(inodes', PlaceIn(inodes'))
    BY <1>3, PlaceIs
  <2> HIDE DEF new
  <2> QED BY <1>3, <1>6, <2>1, OnlyPlace
<1>9. new[next_inode] = spot
  BY DEF Store!Extend
<1> HIDE DEF new, spot
<1>10. Store!Next
  <2>1. Place' = new /\ Place'[next_inode] = spot
    BY <1>8, <1>9 DEF Place
  <2>2. ObjectsIn(inodes)' = ObjectsIn(inodes')
    BY DEF ObjectsIn
  <2>3. Store!Front(spot) = Front(spot)
    BY DEF Front, Store!Front
  <2>4. Store!Create(pl, spot, type)
    BY <1>3, <1>7, <2>1, <2>2, <2>3 DEF Store!Create, new
  <2> QED BY <1>3, <2>1, <2>4 DEF Store!Next, pl
<1>11. LeavesOK(inodes')
  BY <1>0, <1>2, <1>5, AddIs DEF LeavesOK
<1> QED BY <1>10, <1>11

LEMMA UnlinkRefines ==
  ASSUME StoreInv, NEW path \in Paths, SysUnlink(path)
  PROVE  Store!Next /\ LeavesOK(inodes')
<1> DEFINE dir == Resolve(RsplitOnce(path))
           name == Last(path)
           v == inodes[dir].children[name]
           pl == Place
           below == {j \in DOMAIN pl : IsPrefix(pl[v], pl[j])}
           new == Store!Without(pl, below)
<1>0. FilesInv /\ LeavesOK(inodes) /\ TreeOK(inodes, next_inode) /\ next_inode \in Nat
  BY Unfold DEF StoreInv
<1>1. IsPlace(inodes, pl)
  BY <1>0, PlaceIs DEF Place
<1>2. /\ FindMount(path) = "root" /\ path \in Seq(Names)
      /\ dir \in DOMAIN inodes /\ name \in DOMAIN inodes[dir].children
      /\ RemoveEntry(dir, name) /\ next_inode' = next_inode
  BY PathNames DEF SysUnlink, CanRemove, IsDir
<1>3. TreeOK(inodes', next_inode)
  BY <1>0, <1>2, UnlinkStep DEF FilesInv
<1> HIDE DEF pl
<1>4. dir \in DOMAIN pl
  <2>1. RsplitOnce(path) \in {RootPath, Front(path)}
    BY Parents
  <2>2. RsplitOnce(path) \in Seq(Names) /\ FindMount(RsplitOnce(path)) # "dev"
    BY <1>2, <2>1, ParentNotDev
  <2>3. dir \in DOMAIN pl \union {0}
    BY <1>0, <1>1, <2>2, ResolvePlaced
  <2>4. dir # 0
    BY <1>0, <1>2 DEF TreeOK
  <2> QED BY <2>3, <2>4
<1> HIDE DEF dir, name
<1>5. v \in DOMAIN pl /\ pl[v] # <<>> /\ IsPlace(inodes', new)
  <2> HIDE DEF v, new
  <2> QED BY <1>0, <1>1, <1>2, <1>4, RemovePlace DEF v, new
<1>6. /\ v \in DOMAIN inodes /\ DOMAIN inodes' = DOMAIN inodes \ {v}
      /\ \A i \in DOMAIN inodes' : /\ inodes'[i].type = inodes[i].type
                                   /\ inodes'[i].data = inodes[i].data
  BY <1>0, <1>2, RemoveIs DEF Removed
<1>7. PlaceIn(inodes') = new
  <2>1. IsPlace(inodes', PlaceIn(inodes'))
    BY <1>3, PlaceIs
  <2> HIDE DEF new
  <2> QED BY <1>3, <1>5, <2>1, OnlyPlace
<1>8. ObjectsIn(inodes') = Store!Without(ObjectsIn(inodes), {v})
  <2> HIDE DEF v
  <2>1. DOMAIN ObjectsIn(inodes) \ {v} = DOMAIN inodes'
    BY <1>6 DEF ObjectsIn
  <2>2. \A i \in DOMAIN inodes' : ObjectsIn(inodes)[i] = [type |-> inodes'[i].type, data |-> inodes'[i].data]
    BY <1>6 DEF ObjectsIn
  <2> QED BY <2>1, <2>2 DEF Store!Without, ObjectsIn
<1> HIDE DEF new
<1>9. Store!Next
  <2>1. Place' = new
    BY <1>7 DEF Place
  <2>2. ObjectsIn(inodes)' = ObjectsIn(inodes')
    BY DEF ObjectsIn
  <2>3. below = {j \in DOMAIN pl : Store!IsPrefix(pl[v], pl[j])}
    BY DEF IsPrefix, Store!IsPrefix
  <2> HIDE DEF v, below
  <2>4. Store!Unlink(pl, v)
    BY <1>2, <1>5, <1>8, <2>1, <2>2, <2>3 DEF Store!Unlink, new
  <2>5. v \in DOMAIN ObjectsIn(inodes) \ DOMAIN ObjectsIn(inodes)'
    BY <1>6, <2>2 DEF ObjectsIn
  <2> QED BY <1>2, <1>5, <2>4, <2>5 DEF Store!Next, pl
<1>10. LeavesOK(inodes')
  <2> HIDE DEF v
  <2>1. Removed(inodes, inodes', dir, name, v)
    BY <1>0, <1>2, RemoveIs DEF v
  <2> QED BY <1>0, <1>2, <2>1 DEF LeavesOK, Removed
<1> QED BY <1>9, <1>10

(***************************************************************************)
(* write is Write: as no offset lies behind the end of its file, padding   *)
(* with zeros never happens.                                               *)
(***************************************************************************)
LEMMA Cut ==
  ASSUME NEW S, NEW s \in Seq(S), NEW m \in Nat, NEW n \in Nat, 1 <= m, n <= Len(s),
         NEW l \in Nat, l = IF m <= n THEN n - m + 1 ELSE 0, NEW t, t = SubSeq(s, m, n)
  PROVE  t \in Seq(S) /\ Len(t) = l /\ \A k \in 1..l : t[k] = s[m + k - 1]
<1>1. m \in Int /\ n \in Int /\ \A i \in m..n : s[i] \in S
  <2>1. \A i \in m..n : i \in 1..Len(s)
    BY LenProperties
  <2> QED BY <2>1, ElementOfSeq
<1>2. /\ SubSeq(s, m, n) \in Seq(S) /\ Len(SubSeq(s, m, n)) = IF m <= n THEN n - m + 1 ELSE 0
      /\ \A i \in 1 .. n - m + 1 : SubSeq(s, m, n)[i] = s[m + i - 1]
  BY <1>1, SubSeqProperties
<1>3. \A k \in 1..l : k \in 1 .. n - m + 1
  OBVIOUS
<1> QED BY <1>2, <1>3

Joined(S, u, s, t, m, n) ==
  /\ u \in Seq(S) /\ Len(u) = m + n
  /\ \A k \in 1 .. m + n : k <= m => u[k] = s[k]
  /\ \A k \in 1 .. m + n : ~(k <= m) => u[k] = t[k - m]

LEMMA Join ==
  ASSUME NEW S, NEW s \in Seq(S), NEW t \in Seq(S), NEW m, m = Len(s), NEW n, n = Len(t),
         NEW u, u = s \o t
  PROVE  Joined(S, u, s, t, m, n)
<1>1. /\ u \in Seq(S) /\ Len(u) = Len(s) + Len(t)
      /\ \A i \in 1 .. Len(s) + Len(t) : u[i] = IF i <= Len(s) THEN s[i] ELSE t[i - Len(s)]
  BY ConcatProperties
<1> QED BY <1>1 DEF Joined

LEMMA WrittenIsOverwrite ==
  ASSUME NEW S, NEW data \in Seq(S), NEW offset \in Nat, offset <= Len(data),
         NEW bytes \in Seq(S), NEW w \in Seq(S), w = Written(data, offset, bytes),
         Len(w) = Max({offset + Len(bytes), Len(data)})
  PROVE  w = Store!Overwrite(data, offset, bytes)
<1> DEFINE L == Len(data)
           B == Len(bytes)
           m == offset + B + 1
           l == IF m <= L THEN L - m + 1 ELSE 0
           a == SubSeq(data, 1, offset)
           c == SubSeq(data, m, L)
           ab == a \o bytes
           r == ab \o c
           b(k) == k > offset /\ k <= offset + Len(bytes)
           byte(k) == CASE b(k) -> bytes[k - offset]
                        [] k <= Len(data) /\ ~b(k) -> data[k]
                        [] OTHER -> 0
<1>1. L \in Nat /\ B \in Nat /\ m \in Nat /\ l \in Nat /\ 1 \in Nat /\ L <= L
  BY LenProperties
<1>2. r = Store!Overwrite(data, offset, bytes)
  BY DEF Store!Overwrite
<1>3. Len(w) = IF offset + B >= L THEN offset + B ELSE L
  BY <1>1, MaxOfTwo
<1>4. w = [k \in 1 .. Max({offset + Len(bytes), Len(data)}) |-> byte(k)]
  BY DEF Written
<1>5. \A k \in 1 .. Len(w) : w[k] = byte(k)
  BY <1>4
<1>6. ASSUME NEW k \in 1 .. Len(w)
      PROVE  w[k] = IF offset < k /\ k <= offset + B THEN bytes[k - offset] ELSE data[k]
  <2>1. w[k] = byte(k)
    BY <1>5
  <2>2. CASE b(k)
    BY <2>1, <2>2
  <2>3. CASE ~b(k)
    <3>1. k <= L
      BY <1>1, <1>3, <2>3
    <3>2. byte(k) = data[k]
      BY <2>3, <3>1
    <3> QED BY <2>1, <2>3, <3>2
  <2> QED BY <2>2, <2>3
<1> HIDE DEF L, B
<1>7. a \in Seq(S) /\ Len(a) = offset /\ \A k \in 1..offset : a[k] = data[k]
  <2> HIDE DEF a
  <2>1. offset = IF 1 <= offset THEN offset - 1 + 1 ELSE 0
    OBVIOUS
  <2>2. a \in Seq(S) /\ Len(a) = offset /\ \A k \in 1..offset : a[k] = data[1 + k - 1]
    BY <1>1, <2>1, Cut DEF a
  <2> QED BY <2>2
<1>8. c \in Seq(S) /\ Len(c) = l /\ \A k \in 1..l : c[k] = data[m + k - 1]
  <2> HIDE DEF c, l, m
  <2>1. 1 <= m /\ l = IF m <= L THEN L - m + 1 ELSE 0
    BY <1>1 DEF l, m
  <2> QED BY <1>1, <2>1, Cut DEF c, L
<1> HIDE DEF a, c
<1>9. /\ ab \in Seq(S) /\ Len(ab) = offset + B
      /\ \A k \in 1 .. offset + B : k <= offset => ab[k] = a[k]
      /\ \A k \in 1 .. offset + B : ~(k <= offset) => ab[k] = bytes[k - offset]
  <2> HIDE DEF ab
  <2>1. offset = Len(a) /\ B = Len(bytes) /\ ab = a \o bytes
    BY <1>7 DEF B, ab
  <2>2. Joined(S, ab, a, bytes, offset, B)
    BY <1>7, <2>1, Join
  <2> QED BY <2>2 DEF Joined
<1> HIDE DEF ab, l
<1>10. /\ r \in Seq(S) /\ Len(r) = offset + B + l
       /\ \A k \in 1 .. offset + B + l : k <= offset + B => r[k] = ab[k]
       /\ \A k \in 1 .. offset + B + l : ~(k <= offset + B) => r[k] = c[k - (offset + B)]
  <2> HIDE DEF r
  <2> DEFINE n == offset + B
  <2>1. n = Len(ab) /\ l = Len(c) /\ r = ab \o c
    BY <1>8, <1>9 DEF r
  <2> HIDE DEF n
  <2>2. Joined(S, r, ab, c, n, l)
    BY <1>8, <1>9, <2>1, Join
  <2> QED BY <2>2 DEF Joined, n
<1> USE DEF l
<1> HIDE DEF r
<1>11. Len(r) = Len(w)
  BY <1>1, <1>3, <1>10, SMTT(30)
<1>12. ASSUME NEW k \in 1 .. Len(w)
       PROVE  w[k] = r[k]
  <2>0. k \in 1 .. offset + B + l /\ k \in Nat /\ k >= 1
    BY <1>1, <1>10, <1>11
  <2>1. CASE k <= offset
    <3>1. k <= offset + B /\ k \in 1 .. offset + B /\ k \in 1..offset /\ ~(offset < k)
      BY <1>1, <2>0, <2>1
    <3>2. r[k] = ab[k]
      BY <1>10, <2>0, <3>1
    <3>3. ab[k] = data[k]
      BY <1>7, <1>9, <2>1, <3>1
    <3> QED BY <1>6, <3>1, <3>2, <3>3
  <2>2. CASE offset < k /\ k <= offset + B
    <3>1. ~(k <= offset) /\ k \in 1 .. offset + B
      BY <1>1, <2>0, <2>2
    <3>2. r[k] = ab[k]
      BY <1>10, <2>0, <2>2
    <3>3. ab[k] = bytes[k - offset]
      BY <1>9, <3>1
    <3> QED BY <1>6, <2>2, <3>2, <3>3
  <2>3. CASE ~(k <= offset + B)
    <3>1. k - (offset + B) \in 1..l /\ m + (k - (offset + B)) - 1 = k
      BY <1>1, <2>0, <2>3
    <3>2. r[k] = c[k - (offset + B)]
      BY <1>10, <2>0, <2>3
    <3>3. c[k - (offset + B)] = data[k]
      BY <1>8, <3>1
    <3> QED BY <1>1, <1>6, <2>3, <3>2, <3>3
  <2> QED BY <1>1, <2>0, <2>1, <2>2, <2>3
<1>13. w = r
  BY <1>10, <1>11, <1>12, SeqEqual
<1> QED BY <1>2, <1>13

LEMMA SameTree ==
  ASSUME NEW ino, NEW pl, IsPlace(ino, pl), NEW new, DOMAIN new = DOMAIN ino,
         \A i \in DOMAIN ino : new[i].children = ino[i].children
  PROVE  IsPlace(new, pl)
<1>1. \A i \in DOMAIN pl : new[i].children = ino[i].children
  BY DEF IsPlace
<1>2. \A d \in DOMAIN pl : \A n \in DOMAIN new[d].children :
        /\ new[d].children[n] \in DOMAIN pl
        /\ pl[new[d].children[n]] = Append(pl[d], n)
  BY <1>1, SMTT(30) DEF IsPlace
<1>3. \A i \in DOMAIN pl \ {Root} :
        \E d \in DOMAIN pl : \E n \in DOMAIN new[d].children : new[d].children[n] = i
  BY <1>1 DEF IsPlace
<1> QED BY <1>2, <1>3 DEF IsPlace

LEMMA WriteRefines ==
  ASSUME StoreInv, NEW p \in DOMAIN tables, NEW fd \in Fds, NEW bytes \in Buffers,
         SysWrite(p, fd, bytes)
  PROVE  Store!Next /\ LeavesOK(inodes')
<1> DEFINE e == tables[p][fd]
           f == e.inode
           o == e.offset
           old == inodes[f].data
           new == Written(old, o, bytes)
           S == Bytes \union {0}
<1>0. FilesInv /\ LeavesOK(inodes) /\ TreeOK(inodes, next_inode)
  BY Unfold DEF StoreInv
<1>1. IsFile(e) /\ inodes' = [inodes EXCEPT ![f].data = new] /\ next_inode' = next_inode
  <2>1. f \in DOMAIN inodes /\ inodes \in [DOMAIN inodes -> Inodes]
    BY <1>0 DEF SysWrite, IsFile, TreeOK
  <2> QED BY <2>1 DEF SysWrite
<1>2. /\ f \in DOMAIN inodes /\ o \in Nat /\ inodes[f].type = "Regular"
      /\ old \in Seq(S) /\ Len(old) \in Nat /\ o <= Len(old)
  BY <1>0, <1>1, FileOpen
<1>3. bytes \in Seq(Bytes) /\ bytes \in Seq(S)
  <2>1. PICK n \in 1..MaxWrite : bytes \in [1..n -> Bytes]
    BY DEF Buffers
  <2>2. n \in Nat
    BY BoundsAssumption
  <2>3. bytes \in Seq(Bytes)
    BY <2>1, <2>2
  <2> QED BY <2>3, SeqMonotonic
<1>4. new \in Seq(S) /\ Len(new) = Max({o + Len(bytes), Len(old)})
  BY <1>2, <1>3, WrittenOK
<1>5. new = Store!Overwrite(old, o, bytes)
  <2> HIDE DEF new, S
  <2> QED BY <1>2, <1>3, <1>4, WrittenIsOverwrite DEF new
<1> HIDE DEF f, o, new
<1>6. /\ DOMAIN inodes' = DOMAIN inodes /\ inodes'[f].data = new
      /\ \A i \in DOMAIN inodes \ {f} : inodes'[i] = inodes[i]
      /\ \A i \in DOMAIN inodes : /\ inodes'[i].type = inodes[i].type
                                  /\ inodes'[i].children = inodes[i].children
  <2>1. inodes \in [DOMAIN inodes -> Inodes] /\ inodes[f] \in Inodes
    BY <1>0, <1>2 DEF TreeOK
  <2>2. inodes' = [inodes EXCEPT ![f] = [inodes[f] EXCEPT !.data = new]]
    BY <1>1, <1>2, <2>1
  <2>3. LET x == [inodes[f] EXCEPT !.data = new]
        IN  x.data = new /\ x.type = inodes[f].type /\ x.children = inodes[f].children
    BY <2>1 DEF Inodes
  <2> QED BY <1>2, <2>1, <2>2, <2>3
<1>7. Place' = Place /\ next_inode' = next_inode
  <2>1. IsPlace(inodes, PlaceIn(inodes))
    BY <1>0, PlaceIs
  <2>2. IsPlace(inodes', PlaceIn(inodes))
    BY <1>6, <2>1, SameTree
  <2>3. TreeOK(inodes', next_inode)
    BY <1>0, <1>1, WriteStep DEF FilesInv
  <2>4. IsPlace(inodes', PlaceIn(inodes'))
    BY <2>3, PlaceIs
  <2>5. PlaceIn(inodes') = PlaceIn(inodes)
    BY <2>2, <2>3, <2>4, OnlyPlace
  <2> QED BY <1>1, <2>5 DEF Place
<1> DEFINE ob == ObjectsIn(inodes)
<1>8. ob[f].type = "Regular" /\ ob[f].data = old /\ f \in DOMAIN ob
  BY <1>2 DEF ObjectsIn
<1>9. ObjectsIn(inodes)' = [ob EXCEPT ![f].data = new]
  <2>1. ObjectsIn(inodes)' = [i \in DOMAIN inodes |-> [type |-> inodes'[i].type, data |-> inodes'[i].data]]
    BY <1>6 DEF ObjectsIn
  <2>2. [ob EXCEPT ![f].data = new] =
          [i \in DOMAIN inodes |-> IF i = f THEN [type |-> inodes[f].type, data |-> new]
                                   ELSE [type |-> inodes[i].type, data |-> inodes[i].data]]
    <3> DEFINE x == [ob[f] EXCEPT !.data = new]
    <3>1. /\ ob = [i \in DOMAIN inodes |-> [type |-> inodes[i].type, data |-> inodes[i].data]]
          /\ [ob EXCEPT ![f].data = new] = [ob EXCEPT ![f] = x]
      BY <1>2 DEF ObjectsIn
    <3>2. x = [type |-> inodes[f].type, data |-> new]
      BY <1>2, <3>1
    <3> HIDE DEF x, ob
    <3> QED BY <1>2, <3>1, <3>2
  <2>3. \A i \in DOMAIN inodes : [type |-> inodes'[i].type, data |-> inodes'[i].data] =
          IF i = f THEN [type |-> inodes[f].type, data |-> new]
          ELSE [type |-> inodes[i].type, data |-> inodes[i].data]
    BY <1>2, <1>6
  <2> QED BY <2>1, <2>2, <2>3
<1> HIDE DEF ob
<1>10. Store!Next
  <2>1. Store!Write(f, o, bytes)
    BY <1>5, <1>7, <1>8, <1>9 DEF Store!Write, ob
  <2>2. bytes \in Store!Buffers
    BY DEF Buffers, Store!Buffers
  <2>3. o \in 0 .. Len(ob[f].data)
    BY <1>2, <1>8
  <2> QED BY <1>7, <1>8, <2>1, <2>2, <2>3 DEF Store!Next, ob
<1>11. LeavesOK(inodes')
  BY <1>0, <1>6 DEF LeavesOK
<1> QED BY <1>10, <1>11

-----------------------------------------------------------------------------
(***************************************************************************)
(* The refinement.                                                         *)
(***************************************************************************)
LEMMA StoreStep ==
  ASSUME StoreInv, [Next]_vars
  PROVE  StoreInv' /\ [Store!Next]_Store!vars
<1>0. FilesInv /\ LeavesOK(inodes)
  BY DEF StoreInv
<1>1. FilesInv'
  BY <1>0, FilesStep
<1> DEFINE Done == [Store!Next]_Store!vars /\ LeavesOK(inodes')
<1>2. ASSUME UNCHANGED <<inodes, next_inode>>
      PROVE  Done
  <2>1. Place' = Place /\ ObjectsIn(inodes)' = ObjectsIn(inodes) /\ next_inode' = next_inode
    BY <1>2 DEF Place, ObjectsIn
  <2> QED BY <1>0, <1>2, <2>1 DEF Store!vars
<1>3. ASSUME NEW path \in Paths, NEW p \in DOMAIN tables, OpenCreate(p, path)
      PROVE  Done
  <2>1. /\ CanAdd(path, SplitParentName(path)) /\ next_inode <= MaxInode
        /\ Add(Resolve(SplitParentName(path)), Last(path), "Regular")
    BY <1>3 DEF OpenCreate
  <2>2. Store!Next /\ LeavesOK(inodes')
    BY <2>1, Parents, CreateRefines
  <2> QED BY <2>2
<1>4. ASSUME NEW path \in Paths, SysMkdir(path)
      PROVE  Done
  <2>1. /\ CanAdd(path, RsplitOnce(path)) /\ next_inode <= MaxInode
        /\ Add(Resolve(RsplitOnce(path)), Last(path), "Directory")
    BY <1>4 DEF SysMkdir
  <2>2. Store!Next /\ LeavesOK(inodes')
    BY <2>1, Parents, CreateRefines
  <2> QED BY <2>2
<1>5. ASSUME NEW path \in Paths, SysUnlink(path)
      PROVE  Done
  BY <1>5, UnlinkRefines
<1>6. ASSUME NEW p \in DOMAIN tables, NEW fd \in Fds, NEW bytes \in Buffers, SysWrite(p, fd, bytes)
      PROVE  Done
  BY <1>6, WriteRefines
<1> HIDE DEF Done
<1>7. Done
  <2>1. CASE UNCHANGED vars
    BY <1>2, <2>1 DEF vars
  <2>2. CASE PathCall
    BY <1>2, <1>3, <1>4, <1>5, <2>2 DEF PathCall, OpenFound
  <2>3. CASE DescriptorCall
    BY <1>2, <1>6, <2>3 DEF DescriptorCall, SysRead, DeviceTransfer, SysClose
  <2>4. CASE ProcessEvent
    BY <1>2, <2>4 DEF ProcessEvent, SysFork, Clear, Exit
  <2> QED BY <2>1, <2>2, <2>3, <2>4 DEF Next
<1> QED BY <1>1, <1>7 DEF StoreInv, LeavesOK, Done

LEMMA StoreInit == Init => StoreInv /\ Store!Init
<1> SUFFICES ASSUME Init PROVE StoreInv /\ Store!Init
  OBVIOUS
<1> DEFINE a == Inode("Directory", <<>>, [bin |-> 2])
           b == Inode("Directory", <<>>, [hello |-> 3])
           c == Inode("Regular", <<0>>, NoChildren)
           pl == Place
<1>1. inodes = <<a, b, c>> /\ next_inode = 4 /\ FilesInv
  BY FilesInit DEF Init
<1>2. /\ a.type = "Directory" /\ DOMAIN a.children = {"bin"} /\ a.children["bin"] = 2
      /\ b.type = "Directory" /\ DOMAIN b.children = {"hello"} /\ b.children["hello"] = 3
      /\ DOMAIN c.children = {}
  BY DEF Inode, NoChildren
<1> HIDE DEF a, b, c
<1>3. DOMAIN inodes = 1..3 /\ inodes[1] = a /\ inodes[2] = b /\ inodes[3] = c
  BY <1>1
<1>4. LeavesOK(inodes)
  BY <1>2, <1>3 DEF LeavesOK
<1>5. TreeOK(inodes, next_inode) /\ IsPlace(inodes, pl)
  BY <1>1, Unfold, PlaceIs DEF Place
<1> HIDE DEF pl
<1>6. DOMAIN pl = 1..3
  <2>1. 1 \in DOMAIN pl /\ DOMAIN pl \subseteq 1..3
    BY <1>3, <1>5 DEF IsPlace, Root
  <2>2. 2 \in DOMAIN pl
    BY <1>2, <1>3, <1>5, <2>1 DEF IsPlace
  <2>3. 3 \in DOMAIN pl
    BY <1>2, <1>3, <1>5, <2>2 DEF IsPlace
  <2> QED BY <2>1, <2>2, <2>3
<1>7. \A i, j \in DOMAIN pl : pl[i] = pl[j] => i = j
  BY <1>5, PlacesDiffer
<1>8. ASSUME NEW i \in DOMAIN pl
      PROVE  i < next_inode /\ (pl[i] = <<>> \/ Store!IsDirectory(pl, Store!Front(pl[i])))
  <2>1. i < next_inode
    BY <1>1, <1>6
  <2>2. CASE i = Root
    BY <1>5, <2>1, <2>2 DEF IsPlace
  <2>3. CASE i # Root
    <3>1. PICK d \in DOMAIN pl, n \in Names :
             n \in DOMAIN inodes[d].children /\ pl[i] = Append(pl[d], n)
      BY <1>5, <2>3, PlaceAbove
    <3>2. pl[d] \in Seq(Names) /\ d \in DOMAIN inodes
      BY <1>5 DEF IsPlace
    <3>3. Front(pl[i]) = pl[d]
      BY <3>1, <3>2, FrontOfAppend
    <3>4. Store!Front(pl[i]) = Front(pl[i])
      BY DEF Front, Store!Front
    <3>5. inodes[d].type = "Directory"
      BY <1>4, <3>1, <3>2 DEF LeavesOK
    <3>6. ObjectsIn(inodes)[d].type = "Directory"
      BY <3>2, <3>5 DEF ObjectsIn
    <3>7. Store!IsDirectory(pl, Store!Front(pl[i]))
      BY <3>3, <3>4, <3>6 DEF Store!IsDirectory
    <3> QED BY <2>1, <3>7
  <2> QED BY <2>2, <2>3
<1>9. DOMAIN pl = DOMAIN ObjectsIn(inodes)
  BY <1>3, <1>6 DEF ObjectsIn
<1>10. Store!Init
  BY <1>7, <1>8, <1>9 DEF Store!Init, pl
<1> QED BY <1>1, <1>4, <1>10 DEF StoreInv

(***************************************************************************)
(* Every step of the system calls is a step of FileStore, or changes       *)
(* nothing that it sees: the tree with its inodes behaves as objects at    *)
(* paths, where an object gets a fresh number, goes with its entry and     *)
(* takes all that lies below it out of the name space, and is written      *)
(* without a hole.                                                         *)
(***************************************************************************)
THEOREM FilesImplementStore == Spec => ImplementsStore
<1>1. StoreInv /\ [Next]_vars => StoreInv' /\ [Store!Next]_Store!vars
  BY StoreStep
<1> QED BY <1>1, StoreInit, PTL DEF Spec, ImplementsStore, Store!Spec

-----------------------------------------------------------------------------
(***************************************************************************)
(* resolve walks down, and a path says where it is: after each component   *)
(* the inode it is at lies at the names so far, and once it has failed     *)
(* nothing lies at those names or below them.                              *)
(***************************************************************************)
Found(pl, i, names) ==
  /\ names \in Seq(Names)
  /\ i # 0 => i \in DOMAIN pl /\ pl[i] = names
  /\ i = 0 => \A j \in DOMAIN pl : ~IsPrefix(names, pl[j])

LEMMA PrefixShorter ==
  ASSUME NEW S, NEW s \in Seq(S), NEW a \in S, NEW t \in Seq(S), IsPrefix(Append(s, a), t)
  PROVE  IsPrefix(s, t)
<1> DEFINE u == Append(s, a)
<1>1. u \in Seq(S) /\ Len(u) = Len(s) + 1 /\ \A k \in 1..Len(s) : u[k] = s[k]
  BY AppendProperties
<1>2. IsPrefix(u, t)
  OBVIOUS
<1> HIDE DEF u
<1>3. Agrees(u, t)
  BY <1>1, <1>2, PrefixAgrees
<1>4. Len(s) \in Nat /\ Len(t) \in Nat
  BY LenProperties
<1>5. Agrees(s, t)
  BY <1>1, <1>3, <1>4 DEF Agrees
<1> QED BY <1>5, PrefixAgrees

LEMMA NothingBelow ==
  ASSUME NEW ino, NEW next, TreeOK(ino, next), NEW pl, IsPlace(ino, pl),
         NEW w \in DOMAIN pl, NEW n \in Names, n \notin DOMAIN ino[w].children
  PROVE  \A i \in DOMAIN pl : ~IsPrefix(Append(pl[w], n), pl[i])
<1> DEFINE q == Append(pl[w], n)
           Bad == {i \in DOMAIN pl : IsPrefix(q, pl[i])}
<1>0. DOMAIN pl \subseteq Nat /\ pl[Root] = <<>> /\ \A i \in DOMAIN pl : pl[i] \in Seq(Names)
  BY DEF TreeOK, IsPlace
<1>1. q \in Seq(Names) /\ q # <<>>
  BY <1>0, FrontOfAppend
<1>2. ASSUME Bad # {}
      PROVE  FALSE
  <2> DEFINE i == Min(Bad)
  <2>1. i \in Bad /\ \A x \in Bad : i <= x
    <3>1. Bad \in SUBSET Nat
      BY <1>0
    <3> HIDE DEF Bad
    <3> QED BY <1>2, <3>1, MinOfNat
  <2> HIDE DEF i, q
  <2>2. i \in DOMAIN pl /\ IsPrefix(q, pl[i])
    BY <2>1
  <2>3. i # Root
    BY <1>0, <1>1, <2>2, PrefixOfEmpty
  <2>4. PICK d \in DOMAIN pl, m \in Names :
           d < i /\ m \in DOMAIN ino[d].children /\ pl[i] = Append(pl[d], m)
    BY <2>2, <2>3, PlaceAbove
  <2>5. d \notin Bad
    <3> HIDE DEF Bad
    <3> QED BY <1>0, <2>1, <2>2, <2>4
  <2>6. ~IsPrefix(q, pl[d])
    BY <2>5
  <2>7. IsPrefix(q, Append(pl[d], m)) <=> (IsPrefix(q, pl[d]) \/ q = Append(pl[d], m))
    BY <1>0, <1>1, PrefixOfAppend
  <2>8. q = Append(pl[d], m)
    BY <2>2, <2>4, <2>6, <2>7
  <2>9. pl[w] = pl[d] /\ n = m
    <3>1. pl[w] \in Seq(Names) /\ pl[d] \in Seq(Names) /\ Append(pl[w], n) = Append(pl[d], m)
      BY <1>0, <2>8 DEF q
    <3> QED BY <3>1, AppendInjective
  <2>10. w = d
    BY <2>9, PlacesDiffer
  <2> QED BY <2>4, <2>9, <2>10
<1> QED BY <1>2

LEMMA FoundStep ==
  ASSUME StoreInv, NEW pl, IsPlace(inodes, pl), NEW i, NEW names, Found(pl, i, names),
         NEW name \in Names
  PROVE  Found(pl, Walk(i, name), AddName(names, name))
<1>0. /\ TreeOK(inodes, next_inode) /\ LeavesOK(inodes) /\ 0 \notin DOMAIN inodes
      /\ DOMAIN pl \subseteq DOMAIN inodes /\ \A j \in DOMAIN pl : pl[j] \in Seq(Names)
  <2>1. TreeOK(inodes, next_inode) /\ LeavesOK(inodes)
    BY Unfold DEF StoreInv
  <2>2. 0 \notin DOMAIN inodes
    BY <2>1 DEF TreeOK
  <2> QED BY <2>1, <2>2 DEF IsPlace
<1>1. names \in Seq(Names)
  BY DEF Found
<1>2. CASE name = ""
  BY <1>2 DEF Walk, AddName
<1>3. CASE name # ""
  <2> DEFINE q == Append(names, name)
             c == Lookup(i, name)
  <2>1. Walk(i, name) = c /\ AddName(names, name) = q
    BY <1>3 DEF Walk, AddName
  <2>2. q \in Seq(Names)
    BY <1>1, AppendProperties
  <2>3. CASE i = 0
    <3>1. c = 0
      BY <1>0, <2>3 DEF Lookup
    <3>2. ASSUME NEW j \in DOMAIN pl, IsPrefix(q, pl[j])
          PROVE  FALSE
      <4>1. IsPrefix(names, pl[j])
        BY <1>0, <1>1, <3>2, PrefixShorter
      <4> QED BY <2>3, <4>1 DEF Found
    <3> HIDE DEF q, c
    <3> QED BY <2>1, <2>2, <3>1, <3>2 DEF Found
  <2>4. CASE i # 0 /\ name \in DOMAIN inodes[i].children
    <3>1. i \in DOMAIN pl /\ pl[i] = names /\ i \in DOMAIN inodes
      BY <1>0, <2>4 DEF Found
    <3>2. inodes[i].type = "Directory"
      BY <1>0, <2>4, <3>1 DEF LeavesOK
    <3>3. c = inodes[i].children[name]
      BY <2>4, <3>1, <3>2 DEF Lookup
    <3>4. c \in DOMAIN pl /\ pl[c] = q /\ c # 0
      BY <1>0, <2>4, <3>1, <3>3 DEF IsPlace
    <3> HIDE DEF q, c
    <3> QED BY <2>1, <2>2, <3>4 DEF Found
  <2>5. CASE i # 0 /\ name \notin DOMAIN inodes[i].children
    <3>1. i \in DOMAIN pl /\ pl[i] = names
      BY <2>5 DEF Found
    <3>2. c = 0
      BY <2>5 DEF Lookup
    <3>3. \A j \in DOMAIN pl : ~IsPrefix(q, pl[j])
      BY <1>0, <2>5, <3>1, NothingBelow
    <3> HIDE DEF q, c
    <3> QED BY <2>1, <2>2, <3>2, <3>3 DEF Found
  <2> QED BY <2>3, <2>4, <2>5
<1> QED BY <1>2, <1>3

(***************************************************************************)
(* The two loops, round by round.                                          *)
(***************************************************************************)
LEMMA WalkRounds ==
  ASSUME NEW s \in Seq(Names)
  PROVE  \E g : /\ g[0] = Root
                /\ \A k \in 0 .. Len(s) - 1 : g[k + 1] = Walk(g[k], s[k + 1])
                /\ FoldLeft(Walk, Root, s) = g[Len(s)]
<1> DEFINE n == Len(s)
           IsFold(f) == f = [T \in SUBSET (1..n) |->
                              IF T = {} THEN Root ELSE Walk(f[T \ {Max(T)}], s[Max(T)])]
           it == CHOOSE f : IsFold(f)
<1>1. n \in Nat /\ DOMAIN s = 1..n
  BY LenProperties
<1>2. FoldLeft(Walk, Root, s) = it[1..n]
  BY <1>1 DEF FoldLeft, MapThenFoldSet
<1>3. IsFold(it)
  <2>1. \E f : IsFold(f)
    BY <1>1, WalkFoldExists
  <2> HIDE DEF IsFold
  <2> QED BY <2>1
<1> HIDE DEF it, n
<1> DEFINE g == [k \in 0..n |-> it[1..k]]
<1>4. g[0] = Root
  <2>1. 1..0 = {} /\ 0 \in 0..n
    BY <1>1
  <2>2. it[{}] = Root
    BY <1>3
  <2> QED BY <2>1, <2>2
<1>5. ASSUME NEW k \in 0 .. n - 1
      PROVE  g[k + 1] = Walk(g[k], s[k + 1])
  <2>1. /\ 1 .. k + 1 \in SUBSET (1..n) /\ 1 .. k + 1 # {} /\ Max(1 .. k + 1) = k + 1
        /\ (1 .. k + 1) \ {k + 1} = 1..k
    BY <1>1, LastPosition
  <2>2. it[1 .. k + 1] = Walk(it[1..k], s[k + 1])
    BY <1>3, <2>1
  <2>3. k \in 0..n /\ k + 1 \in 0..n
    BY <1>1
  <2> QED BY <2>2, <2>3
<1>6. FoldLeft(Walk, Root, s) = g[n]
  BY <1>1, <1>2
<1> HIDE DEF g
<1> QED BY <1>4, <1>5, <1>6 DEF n

LEMMA NamesRounds ==
  ASSUME NEW s \in Seq(Names)
  PROVE  \E g : /\ g[0] = <<>>
                /\ \A k \in 0 .. Len(s) - 1 : g[k + 1] = AddName(g[k], s[k + 1])
                /\ FoldLeft(AddName, <<>>, s) = g[Len(s)]
<1> DEFINE n == Len(s)
           S == Seq(Names)
           G == [x \in S \X Names |-> AddName(x[1], x[2])]
           IsFold(f) == f = [T \in SUBSET (1..n) |->
                              IF T = {} THEN <<>> ELSE AddName(f[T \ {Max(T)}], s[Max(T)])]
           it == CHOOSE f : IsFold(f)
<1>1. n \in Nat /\ DOMAIN s = 1..n /\ \A k \in 1..n : s[k] \in Names
  BY LenProperties, ElementOfSeq
<1>2. FoldLeft(AddName, <<>>, s) = it[1..n]
  <2> HIDE DEF n
  <2> QED BY <1>1 DEF FoldLeft, MapThenFoldSet
<1>3. \A x \in S, e \in Names : AddName(x, e) \in S
  BY AppendProperties DEF AddName
<1>4. <<>> \in S
  BY EmptySeq
<1> HIDE DEF S, n
<1>5. G \in [S \X Names -> S]
  BY <1>3
<1>6. PICK f : IsFoldOf(f, S, G, <<>>, n, s)
  <2> HIDE DEF G
  <2> QED BY <1>1, <1>4, <1>5, FoldExists
<1>7. IsFold(f)
  <2>1. ASSUME NEW T \in SUBSET (1..n)
        PROVE  f[T] = IF T = {} THEN <<>> ELSE AddName(f[T \ {Max(T)}], s[Max(T)])
    <3>1. CASE T = {}
      BY <1>6, <3>1 DEF IsFoldOf
    <3>2. CASE T # {}
      <4>1. f[T \ {Max(T)}] \in S /\ s[Max(T)] \in Names
        BY <1>1, <1>6, <3>2, MaxIn DEF IsFoldOf
      <4>2. G[<<f[T \ {Max(T)}], s[Max(T)]>>] = AddName(f[T \ {Max(T)}], s[Max(T)])
        BY <4>1
      <4> HIDE DEF G
      <4> QED BY <1>6, <3>2, <4>2 DEF IsFoldOf
    <3> QED BY <3>1, <3>2
  <2> HIDE DEF G
  <2>2. f = [T \in SUBSET (1..n) |-> f[T]]
    BY <1>6 DEF IsFoldOf
  <2> QED BY <2>1, <2>2
<1>8. IsFold(it)
  <2> HIDE DEF IsFold
  <2> QED BY <1>7
<1> HIDE DEF it
<1> DEFINE g == [k \in 0..n |-> it[1..k]]
<1>9. g[0] = <<>>
  <2>1. 1..0 = {} /\ 0 \in 0..n
    BY <1>1
  <2>2. it[{}] = <<>>
    BY <1>8
  <2> QED BY <2>1, <2>2
<1>10. ASSUME NEW k \in 0 .. n - 1
       PROVE  g[k + 1] = AddName(g[k], s[k + 1])
  <2>1. /\ 1 .. k + 1 \in SUBSET (1..n) /\ 1 .. k + 1 # {} /\ Max(1 .. k + 1) = k + 1
        /\ (1 .. k + 1) \ {k + 1} = 1..k
    BY <1>1, LastPosition
  <2>2. it[1 .. k + 1] = AddName(it[1..k], s[k + 1])
    BY <1>8, <2>1
  <2>3. k \in 0..n /\ k + 1 \in 0..n
    BY <1>1
  <2> QED BY <2>2, <2>3
<1>11. FoldLeft(AddName, <<>>, s) = g[n]
  BY <1>1, <1>2
<1> HIDE DEF g
<1> QED BY <1>9, <1>10, <1>11 DEF n

LEMMA ResolveFound ==
  ASSUME StoreInv, NEW pl, IsPlace(inodes, pl), NEW path \in Seq(Names),
         FindMount(path) = "root"
  PROVE  Found(pl, Resolve(path), NamesIn(path))
<1> DEFINE s == Components(path)
           n == Len(s)
<1>1. s \in Seq(Names) /\ n \in Nat /\ \A k \in 1..n : s[k] \in Names
  BY ComponentsAreNames, LenProperties, ElementOfSeq
<1>2. Resolve(path) = FoldLeft(Walk, Root, s) /\ NamesIn(path) = FoldLeft(AddName, <<>>, s)
  BY DEF Resolve, NamesIn
<1> HIDE DEF s
<1>3. PICK w : /\ w[0] = Root
               /\ \A k \in 0 .. n - 1 : w[k + 1] = Walk(w[k], s[k + 1])
               /\ FoldLeft(Walk, Root, s) = w[n]
  BY <1>1, WalkRounds
<1>4. PICK q : /\ q[0] = <<>>
               /\ \A k \in 0 .. n - 1 : q[k + 1] = AddName(q[k], s[k + 1])
               /\ FoldLeft(AddName, <<>>, s) = q[n]
  BY <1>1, NamesRounds
<1> DEFINE g == [k \in 0..n |-> IF Found(pl, w[k], q[k]) THEN 1 ELSE 0]
           Good == [k \in 0..n |-> {1}]
<1> HIDE DEF n
<1>5. g[0] \in Good[0]
  <2>1. Found(pl, Root, <<>>)
    <3>1. Root \in DOMAIN pl /\ pl[Root] = <<>> /\ Root # 0 /\ <<>> \in Seq(Names)
      BY EmptySeq DEF IsPlace, Root
    <3> DEFINE e == <<>>
    <3>2. pl[Root] = e /\ e \in Seq(Names)
      BY <3>1
    <3> HIDE DEF e
    <3>3. Found(pl, Root, e)
      BY <3>1, <3>2 DEF Found
    <3> QED BY <3>3 DEF e
  <2> QED BY <1>1, <1>3, <1>4, <2>1
<1>6. ASSUME NEW k \in 0 .. n - 1, g[k] \in Good[k]
      PROVE  g[k + 1] \in Good[k + 1]
  <2>1. k \in 0..n /\ k + 1 \in 0..n /\ k + 1 \in 1..n
    BY <1>1
  <2>2. Found(pl, w[k], q[k])
    BY <1>6, <2>1
  <2>3. Found(pl, Walk(w[k], s[k + 1]), AddName(q[k], s[k + 1]))
    BY <1>1, <2>1, <2>2, FoundStep
  <2> QED BY <1>3, <1>4, <2>1, <2>3
<1>7. g[n] \in Good[n]
  <2> HIDE DEF g, Good
  <2> QED BY <1>1, <1>5, <1>6, Rounds
<1>8. Found(pl, w[n], q[n])
  BY <1>1, <1>7
<1> QED BY <1>2, <1>3, <1>4, <1>8

LEMMA ResolvesOK == StoreInv => ResolveFindsPlace
<1> SUFFICES ASSUME StoreInv, NEW path \in Paths, FindMount(path) = "root",
                    NEW i \in 1..MaxInode
             PROVE  Resolve(path) = i <=> i \in DOMAIN Place /\ Place[i] = NamesIn(path)
  BY DEF ResolveFindsPlace
<1> DEFINE pl == Place
           w == Resolve(path)
           q == NamesIn(path)
<1>1. TreeOK(inodes, next_inode) /\ i # 0
  BY Unfold, BoundsAssumption DEF StoreInv
<1>2. IsPlace(inodes, pl)
  BY <1>1, PlaceIs DEF Place
<1> HIDE DEF pl
<1>3. Found(pl, w, q)
  BY <1>2, PathNames, ResolveFound
<1> HIDE DEF w, q
<1>4. \A j \in DOMAIN pl : pl[i] = pl[j] /\ i \in DOMAIN pl => i = j
  BY <1>1, <1>2, PlacesDiffer
<1>5. CASE w # 0
  BY <1>3, <1>4, <1>5 DEF Found, pl, w, q
<1>6. CASE w = 0
  <2>1. q \in Seq(Names) /\ IsPrefix(q, q)
    BY <1>3, PrefixOfEmpty DEF Found
  <2>2. \A j \in DOMAIN pl : pl[j] # q
    BY <1>3, <1>6, <2>1 DEF Found
  <2> QED BY <1>1, <1>6, <2>2 DEF pl, w, q
<1> QED BY <1>5, <1>6

(***************************************************************************)
(* resolve finds an inode at a path exactly when the place of the inode,   *)
(* found upwards from its entries, is the path with its empty components   *)
(* left out: it misses nothing and finds nothing that was cut off.         *)
(***************************************************************************)
THEOREM ResolveFindsWhatIsThere == Spec => []ResolveFindsPlace
<1>1. StoreInv /\ [Next]_vars => StoreInv'
  BY StoreStep
<1>2. Init => StoreInv
  BY StoreInit
<1> QED BY <1>1, <1>2, ResolvesOK, PTL DEF Spec

=============================================================================
