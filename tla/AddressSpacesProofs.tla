------------------------- MODULE AddressSpacesProofs -------------------------
(***************************************************************************)
(* The frames of AddressSpaces have one use each, for every number of      *)
(* frames, words, processes and images.                                    *)
(*                                                                         *)
(* The invariant gives every frame a tag that says what it is used for:    *)
(* <<p, -1, -1>> is the PML4 of process p, <<p, i, -1>> the table under    *)
(* its entry i, <<p, i, j>> the page under entry j of that table, and      *)
(* <<-1, n, 0>> the place n of the free stack.  A frame has one tag and a  *)
(* tag stands for one place, so no frame is in two places.  The space that *)
(* a call is building has p = 0.                                           *)
(*                                                                         *)
(* On top of that every process finds in its memory what belongs there:    *)
(* Shows follows what the space being built holds, loop by loop.           *)
(***************************************************************************)
EXTENDS AddressSpacesProps, Least, SequenceTheorems

Words    == [Indices -> Nat]
Memory   == [Frames -> Words]
Machines == [mem : Memory, free_stack : Seq(Frames), root : 0..NFrames, ok : BOOLEAN]

Tags   == Int \X Int \X Int
Lost   == <<-2, 0, 0>>

Table(mem, own, p, i, t) ==
  /\ t \in Frames /\ own[t] = <<p, i, -1>>
  /\ \A j \in Indices : mem[t][j] # 0 =>
       mem[t][j] \in Frames /\ own[mem[t][j]] = <<p, i, j>>

Space(mem, own, p, r) ==
  /\ r \in Frames /\ own[r] = <<p, -1, -1>>
  /\ mem[r][W - 1] = NFrames + W
  /\ \A i \in 0 .. W - 2 : mem[r][i] # 0 => Table(mem, own, p, i, mem[r][i])

Spaces(mem, own, roots) == \A p \in Pids : roots[p] # 0 => Space(mem, own, p, roots[p])

Frees(stack, own) == \A n \in DOMAIN stack : own[stack[n]] = <<-1, n, 0>>

Owning(m, roots, own) ==
  /\ m \in Machines /\ own \in [Frames -> Tags]
  /\ Frees(m.free_stack, own)
  /\ Spaces(m.mem, own, roots)
  /\ m.root # 0 => Space(m.mem, own, 0, m.root)

Sound(m, roots) == \E own : Owning(m, roots, own)

\* The state in the middle of an operation: unless it failed it has a space.
Building(m, roots) == Sound(m, roots) /\ (m.ok => m.root # 0)

\* The pages a program may have: all but those of the kernel's entry.
UserPages == {page \in Nat : page \div W \in 0 .. W - 2}

\* The number of pages of a segment, of the stack and of a space.
PageCount(seg) == LastPage(seg) - FirstPage(seg) + 1
StackCount == StackTop - StackBottom + 1
AllPages == W * W

\* The loops of clone_user_space, map_elf_segment and the loader.
CloneFold(b, source) ==
  FoldLeft(LAMBDA n, page : CloneUserPage(n, source, page), b, PagesInOrder)
LoadFold(b, image, seg) ==
  FoldLeft(LAMBDA n, page : LoadPage(n, image, seg, page), b, PagesOf(seg))
SegmentFold(b, image) ==
  FoldLeft(LAMBDA n, seg : MapElfSegment(n, image, seg), b, image.headers)
StackFold(b) == FoldLeft(MapUserPageAlloc, b, StackPages)

\* An image that is loaded, and its program headers.
Linked(image) == image.valid /\ InUserPart(image)
Headers == {h \in [load : BOOLEAN, vaddr : Nat, offset : Nat, filesz : Nat, memsz : Nat] :
              Loads(h) => LastPage(h) \div W < W - 1}

Roots == [p \in Pids |-> procs[p].cr3]

Entry == [state : {"Free", "Alive", "Zombie"}, parent : 0..MaxPid, cr3 : 0..NFrames]

MemInv ==
  /\ Sound(machine, Roots) /\ machine.root = 0 /\ machine.ok
  /\ procs \in [Pids -> Entry]
  /\ \A p \in Pids : procs[p].state = "Free" <=> procs[p].cr3 = 0
  /\ next_pid \in 1 .. MaxPid + 1 /\ current_pid \in 0..MaxPid
  /\ \A p \in Pids : p >= next_pid => procs[p].state = "Free"
  /\ current_pid # 0 => procs[current_pid].state # "Free"
  /\ cr3 = IF current_pid = 0 THEN 0 ELSE procs[current_pid].cr3

-----------------------------------------------------------------------------
(***************************************************************************)
(* Page arithmetic.                                                        *)
(***************************************************************************)
LEMMA PageParts ==
  ASSUME NEW page \in Nat
  PROVE  page % W \in Indices /\ page \div W \in Nat
<1>1. W \in Nat /\ W >= 3
  BY WAssumption
<1> QED BY <1>1 DEF Indices

LEMMA PagesIndexed ==
  ASSUME NEW page \in Pages
  PROVE  page \in Nat /\ page % W \in Indices /\ page \div W \in Indices
<1>1. W \in Nat \ {0} /\ page \in 0 .. W * W - 1
  BY WAssumption DEF Pages
<1>2. page \div W \in 0 .. W - 1
  BY <1>1, DivBelow
<1>3. page \in Nat
  BY <1>1
<1> QED BY <1>2, <1>3, PageParts DEF Indices

LEMMA VaddrsIndexed ==
  ASSUME NEW v \in Vaddrs
  PROVE  v \div W \in Pages /\ v % W \in Indices
<1>1. W \in Nat \ {0} /\ W * W \in Nat
  BY WAssumption
<1>2. v \in 0 .. (W * W) * W - 1
  BY DEF Vaddrs
<1>3. v \div W \in 0 .. W * W - 1
  BY <1>1, <1>2, DivBelow
<1>4. v \in Nat
  BY <1>2
<1> QED BY <1>3, <1>4, PageParts DEF Pages

-----------------------------------------------------------------------------
(***************************************************************************)
(* A space is kept by whatever leaves its frames their tags and does not   *)
(* touch its PML4 and its tables.                                          *)
(***************************************************************************)
LEMMA SpaceKept ==
  ASSUME NEW mem, NEW own, NEW p \in Int, NEW r, Space(mem, own, p, r),
         NEW mem2, NEW own2,
         \A g \in Frames : own[g][1] = p =>
           own2[g] = own[g] /\ (own[g][3] = -1 => mem2[g] = mem[g])
  PROVE  Space(mem2, own2, p, r)
<1>1. r \in Frames /\ own[r] = <<p, -1, -1>> /\ own2[r] = own[r] /\ mem2[r] = mem[r]
  BY DEF Space
<1>2. mem2[r][W - 1] = NFrames + W
  BY <1>1 DEF Space
<1>3. ASSUME NEW i \in 0 .. W - 2, mem2[r][i] # 0
      PROVE  Table(mem2, own2, p, i, mem2[r][i])
  <2> DEFINE t == mem[r][i]
  <2>1. mem2[r][i] = t /\ Table(mem, own, p, i, t)
    BY <1>1, <1>3 DEF Space
  <2> HIDE DEF t
  <2>2. t \in Frames /\ own[t] = <<p, i, -1>>
    BY <2>1 DEF Table
  <2>3. own2[t] = own[t] /\ mem2[t] = mem[t]
    BY <2>2
  <2>4. ASSUME NEW j \in Indices, mem2[t][j] # 0
        PROVE  mem2[t][j] \in Frames /\ own2[mem2[t][j]] = <<p, i, j>>
    <3> DEFINE f == mem[t][j]
    <3>1. mem2[t][j] = f /\ f \in Frames /\ own[f] = <<p, i, j>>
      BY <2>1, <2>3, <2>4 DEF Table
    <3> HIDE DEF f
    <3>2. own2[f] = own[f]
      BY <3>1
    <3> QED BY <3>1, <3>2
  <2> QED BY <2>1, <2>2, <2>3, <2>4 DEF Table
<1> QED BY <1>1, <1>2, <1>3 DEF Space

LEMMA SpacesKept ==
  ASSUME NEW mem, NEW own, NEW roots, Spaces(mem, own, roots), NEW mem2, NEW own2,
         \A g \in Frames : own[g][1] \in Pids /\ roots[own[g][1]] # 0 =>
           own2[g] = own[g] /\ (own[g][3] = -1 => mem2[g] = mem[g])
  PROVE  Spaces(mem2, own2, roots)
<1> SUFFICES ASSUME NEW p \in Pids, roots[p] # 0
             PROVE  Space(mem2, own2, p, roots[p])
  BY DEF Spaces
<1>1. p \in Int /\ Space(mem, own, p, roots[p])
  BY DEF Spaces, Pids
<1>2. \A g \in Frames : own[g][1] = p =>
           own2[g] = own[g] /\ (own[g][3] = -1 => mem2[g] = mem[g])
  OBVIOUS
<1> QED BY <1>1, <1>2, SpaceKept

-----------------------------------------------------------------------------
(***************************************************************************)
(* The parts of a sound machine.                                           *)
(***************************************************************************)
LEMMA MachineParts ==
  ASSUME NEW m \in Machines
  PROVE  /\ m.mem \in Memory /\ m.free_stack \in Seq(Frames) /\ m.root \in 0..NFrames
         /\ m.ok \in BOOLEAN /\ DOMAIN m.free_stack = 1 .. Len(m.free_stack)
         /\ Len(m.free_stack) \in Nat
BY DEF Machines

LEMMA FrameNumbers ==
  ASSUME NEW f \in Frames
  PROVE  f \in Nat /\ f # 0 /\ f \in 0..NFrames
BY NFramesAssumption DEF Frames

LEMMA WordWritten ==
  ASSUME NEW words \in Words, NEW i \in Indices, NEW x \in Nat
  PROVE  [words EXCEPT ![i] = x] \in Words
BY DEF Words

(***************************************************************************)
(* A frame that is no PML4 and no table may hold anything: the pages of    *)
(* programs are written by them, by the loader and by fork.                *)
(***************************************************************************)
LEMMA PageWritten ==
  ASSUME NEW m, NEW roots, NEW own, Owning(m, roots, own),
         NEW f \in Frames, own[f][3] # -1, NEW words \in Words
  PROVE  Owning([m EXCEPT !.mem[f] = words], roots, own)
<1> DEFINE n == [m EXCEPT !.mem[f] = words]
<1>1. m \in Machines /\ own \in [Frames -> Tags] /\ Frees(m.free_stack, own)
      /\ Spaces(m.mem, own, roots) /\ (m.root # 0 => Space(m.mem, own, 0, m.root))
  BY DEF Owning
<1>2. n.mem = [m.mem EXCEPT ![f] = words] /\ n.free_stack = m.free_stack /\ n.root = m.root /\ n.ok = m.ok
  BY <1>1 DEF Machines
<1>3. n \in Machines
  BY <1>1 DEF Machines, Memory
<1>4. \A g \in Frames : own[g][3] = -1 => n.mem[g] = m.mem[g]
  BY <1>1, <1>2 DEF Machines, Memory
<1> HIDE DEF n
<1>5. Spaces(n.mem, own, roots)
  BY <1>1, <1>4, SpacesKept
<1>6. ASSUME n.root # 0
      PROVE  Space(n.mem, own, 0, n.root)
  <2>1. 0 \in Int /\ Space(m.mem, own, 0, n.root)
    BY <1>1, <1>2, <1>6
  <2>2. \A g \in Frames : own[g][1] = 0 =>
          own[g] = own[g] /\ (own[g][3] = -1 => n.mem[g] = m.mem[g])
    BY <1>4
  <2> QED BY <2>1, <2>2, SpaceKept
<1>7. Owning(n, roots, own)
  BY <1>1, <1>2, <1>3, <1>5, <1>6 DEF Owning
<1> QED BY <1>7 DEF n

(***************************************************************************)
(* allocate_frame takes a frame that nobody uses, and it is zero.          *)
(***************************************************************************)
LEMMA AllocOwns ==
  ASSUME NEW m, NEW roots, NEW own, Owning(m, roots, own), ~NoFrames(m)
  PROVE  LET n == AllocateFrame(m)
             f == TopFrame(m)
             own2 == [own EXCEPT ![f] = Lost]
         IN /\ f \in Frames /\ own[f][1] = -1
            /\ n.mem = [m.mem EXCEPT ![f] = Zeroes] /\ n.root = m.root /\ n.ok = m.ok
            /\ Owning(n, roots, own2)
<1> DEFINE n == AllocateFrame(m)
           f == TopFrame(m)
           own2 == [own EXCEPT ![f] = Lost]
           s == m.free_stack
<1>1. m \in Machines /\ own \in [Frames -> Tags] /\ Frees(s, own)
      /\ Spaces(m.mem, own, roots) /\ (m.root # 0 => Space(m.mem, own, 0, m.root))
  BY DEF Owning
<1>2. s \in Seq(Frames) /\ s # <<>> /\ Len(s) \in Nat /\ Len(s) >= 1 /\ f = s[Len(s)] /\ DOMAIN s = 1..Len(s)
  BY <1>1 DEF Machines, NoFrames, TopFrame, Last
<1>3. f \in Frames /\ own[f] = <<-1, Len(s), 0>>
  BY <1>1, <1>2 DEF Frees
<1>4. n.mem = [m.mem EXCEPT ![f] = Zeroes] /\ n.free_stack = Front(s) /\ n.root = m.root /\ n.ok = m.ok
  BY <1>1 DEF AllocateFrame, Machines
<1>5. Front(s) \in Seq(Frames) /\ DOMAIN Front(s) = 1 .. Len(s) - 1
      /\ \A k \in 1 .. Len(s) - 1 : Front(s)[k] = s[k]
  BY <1>2 DEF Front
<1>6. Zeroes \in Words
  BY DEF Zeroes, Words
<1>7. n \in Machines
  BY <1>1, <1>5, <1>6 DEF AllocateFrame, Machines, Memory
<1>8. own2 \in [Frames -> Tags]
  <2>1. Lost \in Tags
    BY DEF Lost, Tags
  <2> QED BY <1>1, <2>1
<1>9. Frees(n.free_stack, own2)
  <2> SUFFICES ASSUME NEW k \in 1 .. Len(s) - 1
               PROVE  own2[s[k]] = <<-1, k, 0>>
    BY <1>4, <1>5 DEF Frees
  <2>1. k \in DOMAIN s /\ k # Len(s)
    BY <1>2
  <2>2. own[s[k]] = <<-1, k, 0>> /\ s[k] \in Frames
    BY <1>1, <1>2, <2>1 DEF Frees
  <2>3. s[k] # f
    BY <1>2, <1>3, <2>1, <2>2
  <2> QED BY <1>1, <2>2, <2>3
<1>10. ASSUME NEW g \in Frames, own[g][1] \in Pids \cup {0}
       PROVE  own2[g] = own[g] /\ n.mem[g] = m.mem[g]
  <2>1. g # f
    BY <1>3, <1>10 DEF Pids
  <2> QED BY <1>1, <1>4, <2>1 DEF Machines, Memory
<1> HIDE DEF n, own2
<1>11. Spaces(n.mem, own2, roots)
  BY <1>1, <1>10, SpacesKept
<1>12. ASSUME n.root # 0
       PROVE  Space(n.mem, own2, 0, n.root)
  <2>1. 0 \in Int /\ Space(m.mem, own, 0, n.root)
    BY <1>1, <1>4, <1>12
  <2>2. \A g \in Frames : own[g][1] = 0 =>
          own2[g] = own[g] /\ (own[g][3] = -1 => n.mem[g] = m.mem[g])
    BY <1>10
  <2> QED BY <2>1, <2>2, SpaceKept
<1>13. Owning(n, roots, own2)
  BY <1>7, <1>8, <1>9, <1>11, <1>12 DEF Owning
<1>14. own[f][1] = -1
  BY <1>3
<1> QED BY <1>3, <1>4, <1>13, <1>14 DEF n, own2

(***************************************************************************)
(* new_user: the new PML4 maps the kernel as the active one does, and      *)
(* nothing else.                                                           *)
(***************************************************************************)
LEMMA KernelEntriesOnly ==
  ASSUME NEW mem, NEW own, NEW pml4,
         pml4 = BootPml4 \/ \E p, r : Space(mem, own, p, r) /\ pml4 = mem[r]
  PROVE  /\ KernelEntries(pml4) \in Words
         /\ KernelEntries(pml4)[W - 1] = NFrames + W
         /\ \A i \in 0 .. W - 2 : KernelEntries(pml4)[i] = 0
<1>1. W \in Nat /\ W >= 3 /\ NFrames \in Nat /\ Indices = 0 .. W - 1 /\ UserRegion = 0 /\ Frames = 1..NFrames
  BY WAssumption, NFramesAssumption DEF Indices, UserRegion, Frames
<1>2. pml4[W - 1] = NFrames + W /\ \A i \in 1 .. W - 2 : pml4[i] = 0 \/ pml4[i] \in Frames
  <2>1. CASE pml4 = BootPml4
    BY <1>1, <2>1 DEF BootPml4
  <2>2. ASSUME NEW p, NEW r, Space(mem, own, p, r), pml4 = mem[r]
        PROVE  pml4[W - 1] = NFrames + W /\ \A i \in 1 .. W - 2 : pml4[i] = 0 \/ pml4[i] \in Frames
    <3>1. ASSUME NEW i \in 1 .. W - 2, pml4[i] # 0
          PROVE  pml4[i] \in Frames
      <4>1. i \in 0 .. W - 2
        BY <1>1
      <4>2. Table(mem, own, p, i, pml4[i])
        BY <2>2, <3>1, <4>1 DEF Space
      <4> QED BY <4>2 DEF Table
    <3>2. pml4[W - 1] = NFrames + W
      BY <2>2 DEF Space
    <3> QED BY <3>1, <3>2
  <2> QED BY <2>1, <2>2
<1>3. KernelEntries(pml4)[W - 1] = NFrames + W
  BY <1>1, <1>2 DEF KernelEntries
<1>4. \A i \in 0 .. W - 2 : KernelEntries(pml4)[i] = 0
  BY <1>1, <1>2 DEF KernelEntries
<1>5. \A i \in Indices : KernelEntries(pml4)[i] \in Nat
  BY <1>1, <1>3, <1>4
<1>6. KernelEntries(pml4) = [i \in Indices |-> KernelEntries(pml4)[i]]
  BY DEF KernelEntries
<1> HIDE DEF KernelEntries
<1>7. KernelEntries(pml4) \in Words
  BY <1>5, <1>6 DEF Words
<1> QED BY <1>3, <1>4, <1>7

LEMMA NewUserBuilds ==
  ASSUME NEW m, NEW roots, Sound(m, roots), m.root = 0,
         NEW active, active = 0 \/ \E p \in Pids : roots[p] = active
  PROVE  Building(NewUser(m, active), roots)
<1>1. PICK own : Owning(m, roots, own)
  BY DEF Sound
<1>2. m \in Machines /\ own \in [Frames -> Tags] /\ Spaces(m.mem, own, roots)
  BY <1>1 DEF Owning
<1>3. CASE NoFrames(m)
  <2>1. NewUser(m, active) = Fail(m)
    BY <1>3 DEF NewUser
  <2>2. Fail(m) \in Machines /\ Fail(m).mem = m.mem /\ Fail(m).free_stack = m.free_stack
        /\ Fail(m).root = 0 /\ ~Fail(m).ok
    BY <1>2 DEF Fail, Machines
  <2>3. Owning(Fail(m), roots, own)
    BY <1>1, <2>2 DEF Owning
  <2> QED BY <2>1, <2>2, <2>3 DEF Building, Sound
<1>4. CASE ~NoFrames(m)
  <2> DEFINE a == AllocateFrame(m)
             f == TopFrame(m)
             own1 == [own EXCEPT ![f] = Lost]
             own2 == [own1 EXCEPT ![f] = <<0, -1, -1>>]
             n == [a EXCEPT !.root = f]
             pml4 == KernelEntries(Pml4At(n, active))
             new == [n EXCEPT !.mem[n.root] = pml4]
  <2>1. f \in Frames /\ own[f][1] = -1 /\ a.root = 0 /\ Owning(a, roots, own1)
    BY <1>1, <1>4, AllocOwns
  <2> HIDE DEF a, f
  <2>2. a \in Machines /\ own1 \in [Frames -> Tags] /\ Frees(a.free_stack, own1) /\ Spaces(a.mem, own1, roots)
    BY <2>1 DEF Owning
  <2>3. n.root = f /\ n.mem = a.mem /\ n.free_stack = a.free_stack /\ n \in Machines
    <3>1. f \in 0..NFrames
      BY <2>1, NFramesAssumption DEF Frames
    <3> QED BY <2>2, <3>1 DEF Machines
  <2>4. NewUser(m, active) = new
    BY <1>4 DEF NewUser, a, f
  <2> HIDE DEF n
  <2>5. /\ pml4 \in Words /\ pml4[W - 1] = NFrames + W
        /\ \A i \in 0 .. W - 2 : pml4[i] = 0
    <3>1. Pml4At(n, active) = BootPml4 \/ \E p, r : Space(a.mem, own1, p, r) /\ Pml4At(n, active) = a.mem[r]
      <4>1. CASE active = 0
        BY <4>1 DEF Pml4At
      <4>2. CASE active # 0
        <5>1. PICK p \in Pids : roots[p] = active
          BY <4>2
        <5>2. Space(a.mem, own1, p, active)
          BY <2>2, <4>2, <5>1 DEF Spaces
        <5>3. Pml4At(n, active) = a.mem[active]
          BY <2>3, <4>2 DEF Pml4At
        <5> QED BY <5>2, <5>3
      <4> QED BY <4>1, <4>2
    <3> QED BY <3>1, KernelEntriesOnly
  <2> HIDE DEF pml4
  <2>6. new.mem = [a.mem EXCEPT ![f] = pml4] /\ new.free_stack = a.free_stack /\ new.root = f /\ new \in Machines
    BY <2>1, <2>3, <2>5 DEF Machines, Memory
  <2>7. own2 \in [Frames -> Tags] /\ own2[f] = <<0, -1, -1>>
        /\ \A g \in Frames : g # f => own2[g] = own1[g]
    <3>1. <<0, -1, -1>> \in Tags
      BY DEF Tags
    <3> QED BY <2>1, <2>2, <3>1
  <2>8. own1[f] = Lost
    BY <1>2, <2>1
  <2> HIDE DEF new, own1, own2
  <2>9. Frees(new.free_stack, own2)
    <3> SUFFICES ASSUME NEW k \in DOMAIN a.free_stack
                 PROVE  own2[a.free_stack[k]] = <<-1, k, 0>>
      BY <2>6 DEF Frees
    <3>1. own1[a.free_stack[k]] = <<-1, k, 0>> /\ a.free_stack[k] \in Frames
      BY <2>2 DEF Frees, Machines
    <3>2. a.free_stack[k] # f
      BY <2>8, <3>1 DEF Lost
    <3> QED BY <2>7, <3>1, <3>2
  <2>10. Spaces(new.mem, own2, roots)
    <3>1. ASSUME NEW g \in Frames, own1[g][1] \in Pids
          PROVE  own2[g] = own1[g] /\ new.mem[g] = a.mem[g]
      <4>1. g # f
        BY <2>8, <3>1 DEF Lost, Pids
      <4> QED BY <2>2, <2>6, <2>7, <4>1 DEF Machines, Memory
    <3> QED BY <2>2, <3>1, SpacesKept
  <2>11. Space(new.mem, own2, 0, f)
    <3>1. new.mem[f] = pml4
      BY <2>1, <2>2, <2>6 DEF Machines, Memory
    <3> QED BY <2>1, <2>5, <2>7, <3>1 DEF Space
  <2>12. Owning(new, roots, own2)
    BY <2>6, <2>7, <2>9, <2>10, <2>11 DEF Owning
  <2>13. new.root # 0
    BY <2>1, <2>6 DEF Frames
  <2> QED BY <2>4, <2>12, <2>13 DEF Building, Sound
<1> QED BY <1>3, <1>4

-----------------------------------------------------------------------------
(***************************************************************************)
(* Mapping a page of the space that is being built.                        *)
(***************************************************************************)
LEMMA FailOwns ==
  ASSUME NEW m, NEW roots, NEW own, Owning(m, roots, own)
  PROVE  Owning(Fail(m), roots, own) /\ Fail(m).root = m.root /\ Fail(m).mem = m.mem /\ ~Fail(m).ok
<1>1. m \in Machines
  BY DEF Owning
<1>2. Fail(m) \in Machines /\ Fail(m).mem = m.mem /\ Fail(m).free_stack = m.free_stack
      /\ Fail(m).root = m.root /\ ~Fail(m).ok
  BY <1>1 DEF Fail, Machines
<1> QED BY <1>2 DEF Owning

LEMMA FreesKept ==
  ASSUME NEW stack \in Seq(Frames), NEW own, Frees(stack, own), NEW own2,
         \A g \in Frames : own[g][1] = -1 => own2[g] = own[g]
  PROVE  Frees(stack, own2)
<1> SUFFICES ASSUME NEW k \in DOMAIN stack
             PROVE  own2[stack[k]] = <<-1, k, 0>>
  BY DEF Frees
<1>1. stack[k] \in Frames
  OBVIOUS
<1>2. own[stack[k]] = <<-1, k, 0>>
  BY DEF Frees
<1>3. own[stack[k]][1] = -1
  BY <1>2
<1> QED BY <1>1, <1>2, <1>3

LEMMA TableForOwns ==
  ASSUME NEW m, NEW roots, NEW own, Owning(m, roots, own), m.root # 0, m.ok,
         NEW page, page \div W \in 0 .. W - 2
  PROVE  \E own2 :
           /\ Owning(TableFor(m, page), roots, own2)
           /\ TableFor(m, page).root = m.root
           /\ \A g \in Frames : own[g] = Lost => own2[g] = Lost
           /\ TableFor(m, page).ok => TableFor(m, page).mem[m.root][page \div W] # 0
<1> DEFINE r == m.root
           i == page \div W
<1>1. m \in Machines /\ own \in [Frames -> Tags] /\ Spaces(m.mem, own, roots) /\ Space(m.mem, own, 0, r)
  BY DEF Owning
<1>2. CASE m.mem[r][i] # 0
  <2>1. TableFor(m, page) = m
    BY <1>2 DEF TableFor
  <2> QED BY <1>2, <2>1
<1>3. CASE m.mem[r][i] = 0 /\ NoFrames(m)
  <2>1. TableFor(m, page) = Fail(m)
    BY <1>3 DEF TableFor
  <2>2. Owning(Fail(m), roots, own) /\ Fail(m).root = m.root /\ ~Fail(m).ok
    BY FailOwns
  <2> HIDE DEF r, i
  <2> QED BY <2>1, <2>2
<1>4. CASE m.mem[r][i] = 0 /\ ~NoFrames(m)
  <2> DEFINE a == AllocateFrame(m)
             f == TopFrame(m)
             own1 == [own EXCEPT ![f] = Lost]
             own2 == [own1 EXCEPT ![f] = <<0, i, -1>>]
             n == [a EXCEPT !.mem[r][i] = f]
  <2>1. f \in Frames /\ own[f][1] = -1 /\ a.mem = [m.mem EXCEPT ![f] = Zeroes]
        /\ a.root = r /\ Owning(a, roots, own1)
    BY <1>4, AllocOwns
  <2>2. TableFor(m, page) = n
    BY <1>4 DEF TableFor
  <2> HIDE DEF a, f
  <2>3. a \in Machines /\ own1 \in [Frames -> Tags] /\ Frees(a.free_stack, own1)
        /\ Spaces(a.mem, own1, roots) /\ Space(a.mem, own1, 0, r)
    BY <2>1 DEF Owning
  <2>4. own1[f] = Lost /\ \A g \in Frames : g # f => own1[g] = own[g]
    BY <1>1, <2>1
  <2>5. i \in Int /\ i \in Indices /\ W \in Nat /\ W >= 3
    BY WAssumption DEF Indices
  <2>6. own2 \in [Frames -> Tags] /\ own2[f] = <<0, i, -1>>
        /\ \A g \in Frames : g # f => own2[g] = own1[g]
    <3> HIDE DEF i, own1
    <3>1. <<0, i, -1>> \in Tags
      BY <2>5 DEF Tags
    <3> QED BY <2>1, <2>3, <3>1
  <2>7. r \in Frames /\ own1[r] = <<0, -1, -1>> /\ r # f
    BY <2>3, <2>4 DEF Space, Lost
  <2>8. /\ n.mem = [a.mem EXCEPT ![r] = [a.mem[r] EXCEPT ![i] = f]]
        /\ n.free_stack = a.free_stack /\ n.root = r /\ n.ok = a.ok
    BY <2>1, <2>3 DEF Machines
  <2>9. f \in Nat /\ a.mem[r] \in Words /\ [a.mem[r] EXCEPT ![i] = f] \in Words
    <3>1. f \in Nat /\ a.mem[r] \in Words
      BY <2>1, <2>3, <2>7, FrameNumbers DEF Machines, Memory
    <3> QED BY <2>5, <3>1, WordWritten
  <2>10. n \in Machines
    BY <2>3, <2>7, <2>9 DEF Machines, Memory
  <2>11. /\ \A k \in Indices : n.mem[r][k] = IF k = i THEN f ELSE a.mem[r][k]
         /\ \A g \in Frames : g # r => n.mem[g] = a.mem[g]
    BY <2>3, <2>5, <2>7, <2>8, <2>9 DEF Machines, Memory, Words
  <2>12. \A j \in Indices : n.mem[f][j] = 0
    <3>1. n.mem[f] = a.mem[f] /\ a.mem[f] = Zeroes
      BY <1>1, <2>1, <2>7, <2>11 DEF Machines, Memory
    <3> QED BY <3>1 DEF Zeroes
  <2> HIDE DEF n, own1, own2, r, i
  <2>13. Frees(n.free_stack, own2)
    <3>1. \A g \in Frames : own1[g][1] = -1 => own2[g] = own1[g]
      BY <2>4, <2>6 DEF Lost
    <3>2. a.free_stack \in Seq(Frames)
      BY <2>3 DEF Machines
    <3> QED BY <2>3, <2>8, <3>1, <3>2, FreesKept
  <2>14. Spaces(n.mem, own2, roots)
    <3>1. ASSUME NEW g \in Frames, own1[g][1] \in Pids
          PROVE  own2[g] = own1[g] /\ n.mem[g] = a.mem[g]
      <4>1. g # f
        BY <2>4, <3>1 DEF Lost, Pids
      <4>2. g # r
        BY <2>7, <3>1 DEF Pids
      <4> QED BY <2>6, <2>11, <4>1, <4>2
    <3> QED BY <2>3, <3>1, SpacesKept
  <2>15. Space(n.mem, own2, 0, r)
    <3>1. own2[r] = <<0, -1, -1>>
      BY <2>6, <2>7
    <3>2. n.mem[r][W - 1] = NFrames + W
      <4>1. W - 1 \in Indices /\ W - 1 # i
        BY <2>5 DEF Indices, i
      <4> QED BY <2>3, <2>11, <4>1 DEF Space
    <3>3. ASSUME NEW k \in 0 .. W - 2, n.mem[r][k] # 0
          PROVE  Table(n.mem, own2, 0, k, n.mem[r][k])
      <4>1. CASE k = i
        <5>1. n.mem[r][k] = f
          BY <2>5, <2>11, <4>1
        <5> QED BY <2>1, <2>6, <2>12, <4>1, <5>1 DEF Table
      <4>2. CASE k # i
        <5> DEFINE t == a.mem[r][k]
        <5>1. k \in Indices
          BY <2>5 DEF Indices
        <5>2. n.mem[r][k] = t
          BY <2>11, <4>2, <5>1
        <5>3. Table(a.mem, own1, 0, k, t)
          BY <2>3, <3>3, <5>2 DEF Space
        <5> HIDE DEF t
        <5>4. t \in Frames /\ own1[t] = <<0, k, -1>>
          BY <5>3 DEF Table
        <5>5. t # r /\ t # f
          BY <2>4, <2>7, <5>4 DEF Lost
        <5>6. own2[t] = own1[t] /\ n.mem[t] = a.mem[t]
          BY <2>6, <2>11, <5>4, <5>5
        <5>7. ASSUME NEW j \in Indices, n.mem[t][j] # 0
              PROVE  n.mem[t][j] \in Frames /\ own2[n.mem[t][j]] = <<0, k, j>>
          <6> DEFINE x == a.mem[t][j]
          <6>1. n.mem[t][j] = x /\ x \in Frames /\ own1[x] = <<0, k, j>>
            BY <5>3, <5>6, <5>7 DEF Table
          <6> HIDE DEF x
          <6>2. x # f
            BY <2>4, <6>1 DEF Lost
          <6> QED BY <2>6, <6>1, <6>2
        <5> QED BY <5>2, <5>4, <5>6, <5>7 DEF Table
      <4> QED BY <4>1, <4>2
    <3> QED BY <2>7, <3>1, <3>2, <3>3 DEF Space
  <2>16. Owning(n, roots, own2)
    BY <2>6, <2>8, <2>10, <2>13, <2>14, <2>15 DEF Owning
  <2>17. n.mem[r][i] # 0
    BY <2>1, <2>5, <2>11 DEF Frames
  <2>18. \A g \in Frames : own[g] = Lost => own2[g] = Lost
    <3>1. own[f] # Lost
      BY <2>1 DEF Lost
    <3> QED BY <2>4, <2>6, <3>1
  <2> QED BY <2>2, <2>8, <2>16, <2>17, <2>18 DEF r, i
<1> QED BY <1>2, <1>3, <1>4

LEMMA MapOwns ==
  ASSUME NEW m, NEW roots, NEW own, Owning(m, roots, own), m.root # 0, m.ok,
         NEW page \in Nat, page \div W \in 0 .. W - 2,
         NEW frame \in Frames, own[frame] = Lost
  PROVE  /\ Building(MapUserPage(m, page, frame), roots)
         /\ LET n == MapUserPage(m, page, frame)
            IN n.ok => Translate(n.mem, n.root, page) # 0
<1> DEFINE a == TableFor(m, page)
           r == m.root
           i == page \div W
           j == page % W
           t == a.mem[r][i]
<1>1. PICK own1 : /\ Owning(a, roots, own1) /\ a.root = r
                  /\ \A g \in Frames : own[g] = Lost => own1[g] = Lost
                  /\ a.ok => a.mem[r][i] # 0
  BY TableForOwns
<1>2. a \in Machines /\ own1 \in [Frames -> Tags] /\ Frees(a.free_stack, own1)
      /\ Spaces(a.mem, own1, roots) /\ Space(a.mem, own1, 0, r)
  BY <1>1 DEF Owning
<1>3. i \in Int /\ i \in Indices /\ j \in Indices /\ j \in Int /\ j # -1 /\ W \in Nat /\ W >= 3
  BY WAssumption, PageParts DEF Indices
<1>4. own1[frame] = Lost /\ r \in Frames /\ own1[r] = <<0, -1, -1>>
  BY <1>1, <1>2 DEF Space
<1>5. CASE ~a.ok \/ a.mem[t][j] # 0
  <2>1. MapUserPage(m, page, frame) = Fail(a)
    BY <1>1, <1>5 DEF MapUserPage
  <2>2. Owning(Fail(a), roots, own1) /\ ~Fail(a).ok
    BY <1>1, FailOwns
  <2> HIDE DEF a
  <2> QED BY <2>1, <2>2 DEF Building, Sound
<1>6. CASE a.ok /\ a.mem[t][j] = 0
  <2> DEFINE own2 == [own1 EXCEPT ![frame] = <<0, i, j>>]
             n == [a EXCEPT !.mem[t][j] = frame]
  <2>1. MapUserPage(m, page, frame) = n
    BY <1>1, <1>6 DEF MapUserPage
  <2>2. t # 0 /\ Table(a.mem, own1, 0, i, t)
    BY <1>1, <1>2, <1>6 DEF Space
  <2> HIDE DEF a, r, i, j, t
  <2>3. t \in Frames /\ own1[t] = <<0, i, -1>> /\ t # r /\ t # frame /\ r # frame
    <3>1. t \in Frames /\ own1[t] = <<0, i, -1>>
      BY <2>2 DEF Table
    <3>2. i # -1
      BY DEF i
    <3> QED BY <1>3, <1>4, <3>1, <3>2 DEF Lost
  <2>4. own2 \in [Frames -> Tags] /\ own2[frame] = <<0, i, j>>
        /\ \A g \in Frames : g # frame => own2[g] = own1[g]
    <3>1. <<0, i, j>> \in Tags
      BY <1>3 DEF Tags
    <3> QED BY <1>2, <3>1
  <2>5. /\ n.mem = [a.mem EXCEPT ![t] = [a.mem[t] EXCEPT ![j] = frame]]
        /\ n.free_stack = a.free_stack /\ n.root = r /\ n.ok = a.ok
    BY <1>1, <1>2 DEF Machines
  <2>6. frame \in Nat /\ a.mem[t] \in Words /\ [a.mem[t] EXCEPT ![j] = frame] \in Words
    <3>1. frame \in Nat /\ a.mem[t] \in Words
      BY <1>2, <2>3, FrameNumbers DEF Machines, Memory
    <3> QED BY <1>3, <3>1, WordWritten
  <2>7. n \in Machines
    BY <1>2, <2>3, <2>6 DEF Machines, Memory
  <2>8. /\ \A k \in Indices : n.mem[t][k] = IF k = j THEN frame ELSE a.mem[t][k]
        /\ \A g \in Frames : g # t => n.mem[g] = a.mem[g]
    BY <1>2, <1>3, <2>3, <2>5, <2>6 DEF Machines, Memory, Words
  <2> HIDE DEF n, own2
  <2>9. Frees(n.free_stack, own2)
    <3>1. \A g \in Frames : own1[g][1] = -1 => own2[g] = own1[g]
      BY <1>4, <2>4 DEF Lost
    <3>2. a.free_stack \in Seq(Frames)
      BY <1>2 DEF Machines
    <3> QED BY <1>2, <2>5, <3>1, <3>2, FreesKept
  <2>10. Spaces(n.mem, own2, roots)
    <3>1. ASSUME NEW g \in Frames, own1[g][1] \in Pids
          PROVE  own2[g] = own1[g] /\ n.mem[g] = a.mem[g]
      <4>1. g # frame
        BY <1>4, <3>1 DEF Lost, Pids
      <4>2. g # t
        BY <2>3, <3>1 DEF Pids
      <4> QED BY <2>4, <2>8, <4>1, <4>2
    <3> QED BY <1>2, <3>1, SpacesKept
  <2>11. Space(n.mem, own2, 0, r)
    <3>1. own2[r] = <<0, -1, -1>> /\ n.mem[r] = a.mem[r]
      BY <1>4, <2>3, <2>4, <2>8
    <3>2. n.mem[r][W - 1] = NFrames + W
      BY <1>2, <3>1 DEF Space
    <3>3. ASSUME NEW k \in 0 .. W - 2, n.mem[r][k] # 0
          PROVE  Table(n.mem, own2, 0, k, n.mem[r][k])
      <4> DEFINE u == a.mem[r][k]
      <4>1. n.mem[r][k] = u /\ Table(a.mem, own1, 0, k, u)
        BY <1>2, <3>1, <3>3 DEF Space
      <4>2. u = t => k = i
        <5>1. u = t => own1[t] = <<0, k, -1>>
          BY <4>1 DEF Table
        <5> QED BY <1>3, <2>3, <5>1
      <4> HIDE DEF u
      <4>3. u \in Frames /\ own1[u] = <<0, k, -1>> /\ u # frame
        BY <1>4, <4>1 DEF Table, Lost
      <4>4. own2[u] = <<0, k, -1>>
        BY <2>4, <4>3
      <4>5. ASSUME NEW l \in Indices, n.mem[u][l] # 0
            PROVE  n.mem[u][l] \in Frames /\ own2[n.mem[u][l]] = <<0, k, l>>
        <5>1. CASE u = t /\ l = j
          <6>1. n.mem[u][l] = frame /\ k = i
            BY <1>3, <2>8, <4>2, <5>1
          <6> QED BY <2>4, <5>1, <6>1
        <5>2. CASE ~(u = t /\ l = j)
          <6> DEFINE x == a.mem[u][l]
          <6>1. n.mem[u][l] = x
            BY <2>8, <4>3, <5>2
          <6>2. x \in Frames /\ own1[x] = <<0, k, l>>
            BY <4>1, <4>5, <6>1 DEF Table
          <6> HIDE DEF x
          <6>3. x # frame
            BY <1>4, <6>2 DEF Lost
          <6> QED BY <2>4, <6>1, <6>2, <6>3
        <5> QED BY <5>1, <5>2
      <4> QED BY <4>1, <4>3, <4>4, <4>5 DEF Table
    <3> QED BY <1>4, <3>1, <3>2, <3>3 DEF Space
  <2>12. Owning(n, roots, own2)
    BY <2>4, <2>5, <2>7, <2>9, <2>10, <2>11 DEF Owning
  <2>13. n.root # 0
    BY <1>4, <2>5 DEF Frames
  <2>14. Translate(n.mem, n.root, page) # 0
    <3>1. n.mem[r][i] = t
      BY <1>4, <2>3, <2>8 DEF t
    <3>2. Translate(n.mem, n.root, page) = n.mem[t][j]
      BY <2>3, <2>5, <3>1 DEF Translate, i, j
    <3>3. n.mem[t][j] = frame
      BY <1>3, <2>8
    <3> QED BY <3>2, <3>3 DEF Frames
  <2> QED BY <2>1, <2>12, <2>13, <2>14 DEF Building, Sound
<1> QED BY <1>5, <1>6

-----------------------------------------------------------------------------
(***************************************************************************)
(* translate finds pages of the space it walks, and nothing else.          *)
(***************************************************************************)
LEMMA TranslateOwns ==
  ASSUME NEW mem, NEW own, NEW p, NEW r, Space(mem, own, p, r),
         NEW page, page \div W \in Indices, page % W \in Indices, Translate(mem, r, page) # 0
  PROVE  /\ Translate(mem, r, page) \in Frames
         /\ own[Translate(mem, r, page)] = <<p, page \div W, page % W>>
         /\ page \div W \in 0 .. W - 2
<1> DEFINE i == page \div W
           j == page % W
           t == mem[r][i]
<1>1. W \in Nat /\ W >= 3 /\ NFrames \in Nat
  BY WAssumption, NFramesAssumption
<1>2. t \in Frames /\ Translate(mem, r, page) = mem[t][j]
  BY DEF Translate
<1>3. i # W - 1
  BY <1>1, <1>2 DEF Space, Frames
<1>4. i \in 0 .. W - 2
  BY <1>1, <1>3 DEF Indices
<1> HIDE DEF i, j
<1>5. Table(mem, own, p, i, t)
  <2>1. t # 0
    BY <1>2, FrameNumbers
  <2> QED BY <1>4, <2>1 DEF Space
<1>6. mem[t][j] \in Frames /\ own[mem[t][j]] = <<p, i, j>>
  BY <1>2, <1>5 DEF Table, j
<1> QED BY <1>2, <1>4, <1>6 DEF i, j

LEMMA SoundParts ==
  ASSUME NEW m, NEW roots, Sound(m, roots)
  PROVE  m \in Machines
BY DEF Sound, Owning

LEMMA FailBuilds ==
  ASSUME NEW m, NEW roots, Sound(m, roots)
  PROVE  Building(Fail(m), roots) /\ ~Fail(m).ok
<1>1. PICK own : Owning(m, roots, own)
  BY DEF Sound
<1> QED BY <1>1, FailOwns DEF Building, Sound

LEMMA MapAllocBuilds ==
  ASSUME NEW m, NEW roots, Building(m, roots), NEW page \in Nat, page \div W \in 0 .. W - 2
  PROVE  /\ Building(MapUserPageAlloc(m, page), roots)
         /\ LET n == MapUserPageAlloc(m, page)
            IN n.ok => m.ok /\ Translate(n.mem, n.root, page) # 0
<1>1. CASE ~m.ok \/ NoFrames(m)
  <2>1. MapUserPageAlloc(m, page) = Fail(m)
    BY <1>1 DEF MapUserPageAlloc
  <2> QED BY <2>1, FailBuilds DEF Building
<1>2. CASE m.ok /\ ~NoFrames(m)
  <2> DEFINE a == AllocateFrame(m)
             f == TopFrame(m)
  <2>1. PICK own : Owning(m, roots, own)
    BY DEF Building, Sound
  <2>2. f \in Frames /\ a.root = m.root /\ a.ok = m.ok /\ Owning(a, roots, [own EXCEPT ![f] = Lost])
    BY <1>2, <2>1, AllocOwns
  <2>3. [own EXCEPT ![f] = Lost][f] = Lost
    BY <2>1, <2>2 DEF Owning
  <2>4. MapUserPageAlloc(m, page) = MapUserPage(a, page, f)
    BY <1>2 DEF MapUserPageAlloc
  <2>5. m.root # 0
    BY <1>2 DEF Building
  <2> HIDE DEF a, f
  <2>6. a.ok /\ a.root # 0
    BY <1>2, <2>2, <2>5
  <2> QED BY <1>2, <2>2, <2>3, <2>4, <2>6, MapOwns
<1> QED BY <1>1, <1>2

(***************************************************************************)
(* The page that was mapped can be filled.                                 *)
(***************************************************************************)
LEMMA FillBuilds ==
  ASSUME NEW m, NEW roots, Building(m, roots), m.ok, NEW page,
         page \div W \in Indices, page % W \in Indices,
         Translate(m.mem, m.root, page) # 0, NEW words \in Words
  PROVE  /\ Translate(m.mem, m.root, page) \in Frames
         /\ Building([m EXCEPT !.mem[Translate(m.mem, m.root, page)] = words], roots)
<1> DEFINE f == Translate(m.mem, m.root, page)
           n == [m EXCEPT !.mem[f] = words]
<1>1. PICK own : Owning(m, roots, own)
  BY DEF Building, Sound
<1>2. m.root # 0 /\ Space(m.mem, own, 0, m.root) /\ m \in Machines
  BY <1>1 DEF Building, Owning
<1>3. f \in Frames /\ own[f] = <<0, page \div W, page % W>>
  BY <1>2, TranslateOwns
<1>4. own[f][3] # -1
  BY <1>3 DEF Indices
<1> HIDE DEF f
<1>5. Owning(n, roots, own)
  BY <1>1, <1>3, <1>4, PageWritten
<1>6. n.root = m.root /\ n.ok = m.ok
  BY <1>2 DEF Machines
<1> QED BY <1>2, <1>3, <1>5, <1>6 DEF Building, Sound, f

LEMMA CloneUserPageBuilds ==
  ASSUME NEW m, NEW roots, Building(m, roots), NEW p \in Pids, roots[p] # 0, NEW page \in Pages
  PROVE  Building(CloneUserPage(m, roots[p], page), roots)
<1> DEFINE src == Translate(m.mem, roots[p], page)
           n == MapUserPageAlloc(m, page)
<1>1. page \in Nat /\ page % W \in Indices /\ page \div W \in Indices
  BY PagesIndexed
<1>2. CASE ~m.ok \/ src = 0
  <2>1. CloneUserPage(m, roots[p], page) = m
    BY <1>2 DEF CloneUserPage
  <2> QED BY <2>1
<1>3. CASE m.ok /\ src # 0
  <2>1. PICK own : Owning(m, roots, own)
    BY DEF Building, Sound
  <2>2. Space(m.mem, own, p, roots[p])
    BY <2>1 DEF Owning, Spaces
  <2>3. src \in Frames /\ page \div W \in 0 .. W - 2
    BY <1>1, <1>3, <2>2, TranslateOwns
  <2>4. Building(n, roots) /\ (n.ok => Translate(n.mem, n.root, page) # 0)
    BY <1>1, <2>3, MapAllocBuilds
  <2>5. CASE ~n.ok
    <3>1. CloneUserPage(m, roots[p], page) = n
      BY <1>3, <2>5 DEF CloneUserPage
    <3> QED BY <2>4, <3>1
  <2>6. CASE n.ok
    <3>1. CloneUserPage(m, roots[p], page) = [n EXCEPT !.mem[Translate(n.mem, n.root, page)] = n.mem[src]]
      BY <1>3, <2>6 DEF CloneUserPage
    <3> HIDE DEF n, src
    <3>2. n.mem[src] \in Words
      BY <2>3, <2>4, SoundParts DEF Building, Machines, Memory
    <3> QED BY <1>1, <2>4, <2>6, <3>1, <3>2, FillBuilds
  <2> QED BY <2>5, <2>6
<1> QED BY <1>2, <1>3

(***************************************************************************)
(* clone_user_space.                                                       *)
(***************************************************************************)
LEMMA CloneRounds ==
  ASSUME NEW b, NEW roots, Building(b, roots), NEW p \in Pids,
         NEW source, roots[p] = source, source # 0
  PROVE  /\ Building(CloneFold(b, source), roots)
         /\ \E g : /\ g[0] = b /\ g[AllPages] = CloneFold(b, source)
                   /\ \A k \in 0 .. AllPages - 1 : g[k + 1] = CloneUserPage(g[k], source, k)
<1> DEFINE Op(x, page) == CloneUserPage(x, source, page)
           S == {x \in Machines : Building(x, roots)}
           s == PagesInOrder
           l == AllPages
           G == [x \in S \X Pages |-> Op(x[1], x[2])]
           IsFold(f) == f = [T \in SUBSET (1..l) |->
                              IF T = {} THEN b ELSE Op(f[T \ {Max(T)}], s[Max(T)])]
           it == CHOOSE f : IsFold(f)
<1>1. l \in Nat /\ DOMAIN s = 1..l /\ \A k \in 1..l : s[k] \in Pages
  <2>1. l \in Nat
    BY WAssumption DEF AllPages
  <2> HIDE DEF l
  <2> QED BY <2>1 DEF PagesInOrder, Pages, AllPages, l
<1>2. \A x \in S, page \in Pages : Op(x, page) \in S
  <2> SUFFICES ASSUME NEW x \in S, NEW page \in Pages
               PROVE  Op(x, page) \in S
    OBVIOUS
  <2>1. Building(Op(x, page), roots)
    BY CloneUserPageBuilds
  <2> QED BY <2>1, SoundParts DEF Building
<1>3. b \in S
  BY SoundParts DEF Building
<1>4. CloneFold(b, source) = it[1..l]
  BY <1>1 DEF CloneFold, FoldLeft, MapThenFoldSet
<1> HIDE DEF S, Op, s, l
<1>5. G \in [S \X Pages -> S]
  BY <1>2
<1>6. PICK f : IsFoldOf(f, S, G, b, l, s)
  <2> HIDE DEF G
  <2> QED BY <1>1, <1>3, <1>5, FoldExists
<1>7. IsFold(f)
  <2>1. ASSUME NEW T \in SUBSET (1..l)
        PROVE  f[T] = IF T = {} THEN b ELSE Op(f[T \ {Max(T)}], s[Max(T)])
    <3>1. CASE T = {}
      BY <1>6, <3>1 DEF IsFoldOf
    <3>2. CASE T # {}
      <4>1. f[T \ {Max(T)}] \in S /\ s[Max(T)] \in Pages
        BY <1>1, <1>6, <3>2, MaxIn DEF IsFoldOf
      <4>2. G[<<f[T \ {Max(T)}], s[Max(T)]>>] = Op(f[T \ {Max(T)}], s[Max(T)])
        BY <4>1
      <4> HIDE DEF G
      <4> QED BY <1>6, <3>2, <4>2 DEF IsFoldOf
    <3> QED BY <3>1, <3>2
  <2> HIDE DEF G
  <2>2. f = [T \in SUBSET (1..l) |-> f[T]]
    BY <1>6 DEF IsFoldOf
  <2> QED BY <2>1, <2>2
<1>8. IsFold(it)
  <2> HIDE DEF IsFold
  <2> QED BY <1>7
<1> HIDE DEF it
<1>9. it[{}] \in S
  BY <1>3, <1>8
<1>10. ASSUME NEW k \in 0 .. l - 1
       PROVE  it[1 .. k + 1] = Op(it[1..k], s[k + 1]) /\ s[k + 1] \in Pages
  <2>1. 1 .. k + 1 \in SUBSET (1..l) /\ 1 .. k + 1 # {} /\ Max(1 .. k + 1) = k + 1
        /\ (1 .. k + 1) \ {k + 1} = 1..k
    BY <1>1, LastPosition
  <2>2. it[1 .. k + 1] = Op(it[(1 .. k + 1) \ {Max(1 .. k + 1)}], s[Max(1 .. k + 1)])
    BY <1>8, <2>1
  <2>3. k + 1 \in 1..l
    BY <1>1
  <2> QED BY <1>1, <2>1, <2>2, <2>3
<1>11. it[1..l] \in S
  <2>1. ASSUME NEW k \in 0 .. l - 1, it[1..k] \in S
        PROVE  it[1 .. k + 1] \in S
    BY <1>2, <1>10, <2>1
  <2> QED BY <1>1, <1>9, <2>1, FoldStaysIn
<1> DEFINE g == [k \in 0..l |-> it[1..k]]
<1>12. g[0] = b /\ g[l] = it[1..l] /\ Building(it[1..l], roots)
  <2>1. 1..0 = {} /\ 0 \in 0..l /\ l \in 0..l
    BY <1>1
  <2>2. it[{}] = b
    BY <1>8
  <2> QED BY <1>11, <2>1, <2>2 DEF S
<1>13. ASSUME NEW k \in 0 .. l - 1
       PROVE  g[k + 1] = CloneUserPage(g[k], source, k)
  <2>1. k \in 0..l /\ k + 1 \in 0..l
    BY <1>1
  <2>2. g[k + 1] = Op(g[k], s[k + 1])
    BY <1>10, <2>1
  <2>3. k + 1 \in 1..l /\ k \in Int
    BY <1>1
  <2>4. s[k + 1] = k
    BY <1>1, <2>3 DEF s, PagesInOrder, AllPages, l
  <2> HIDE DEF g
  <2> QED BY <2>2, <2>4 DEF Op
<1> HIDE DEF g
<1> QED BY <1>4, <1>12, <1>13 DEF l

-----------------------------------------------------------------------------
(***************************************************************************)
(* The loader copies words of the file, and keeps the rest of the page.    *)
(***************************************************************************)
LEMMA CopiedWords ==
  ASSUME NEW image \in Images, NEW seg \in Headers, NEW page \in Nat, NEW words \in Words
  PROVE  Copied(image, seg, page, words) \in Words
<1> DEFINE from == IF page * W > seg.vaddr THEN page * W - seg.vaddr ELSE 0
           to == IF (page + 1) * W > seg.vaddr + seg.filesz THEN seg.filesz
                 ELSE (page + 1) * W - seg.vaddr
           src == seg.offset + from
           dst == (IF page * W < seg.vaddr THEN seg.vaddr ELSE page * W) % W
           new == [i \in Indices |-> IF i \in dst .. dst + to - from - 1
                                     THEN image.file[src + i - dst + 1] ELSE words[i]]
<1>1. image.file \in Seq(Nat) /\ seg.vaddr \in Nat /\ seg.offset \in Nat /\ seg.filesz \in Nat
  BY ImagesAssumption DEF Headers
<1>2. W \in Nat \ {0} /\ page * W \in Nat /\ (page + 1) * W \in Nat
  BY WAssumption
<1>3. from \in Nat /\ to \in Int /\ src \in Nat /\ dst \in Nat
  <2>1. from \in Nat
    BY <1>1, <1>2
  <2>2. to \in Int
    BY <1>1, <1>2
  <2>3. src \in Nat
    <3> HIDE DEF from
    <3> QED BY <1>1, <2>1
  <2> DEFINE start == IF page * W < seg.vaddr THEN seg.vaddr ELSE page * W
  <2>4. start \in Nat
    BY <1>1, <1>2
  <2>5. start % W \in Nat
    <3> HIDE DEF start
    <3> QED BY <1>2, <2>4
  <2> QED BY <2>1, <2>2, <2>3, <2>5
<1>4. CASE to <= from \/ from >= seg.filesz \/ src + to - from > Len(image.file)
  <2>1. Copied(image, seg, page, words) = words
    BY <1>4 DEF Copied
  <2> QED BY <2>1
<1>5. CASE ~(to <= from \/ from >= seg.filesz \/ src + to - from > Len(image.file))
  <2>1. Copied(image, seg, page, words) = new
    BY <1>5 DEF Copied
  <2> HIDE DEF from, to, src, dst
  <2>2. ASSUME NEW i \in Indices
        PROVE  new[i] \in Nat
    <3>1. i \in Int /\ words[i] \in Nat /\ Len(image.file) \in Nat
      BY <1>1 DEF Indices, Words
    <3>2. ASSUME i \in dst .. dst + to - from - 1
          PROVE  src + i - dst + 1 \in 1 .. Len(image.file)
      BY <1>3, <1>5, <3>1, <3>2
    <3>3. \A n \in 1 .. Len(image.file) : image.file[n] \in Nat
      BY <1>1
    <3> QED BY <3>1, <3>2, <3>3
  <2> QED BY <2>1, <2>2 DEF Words
<1> QED BY <1>4, <1>5

LEMMA UserPagesIndexed ==
  ASSUME NEW page \in UserPages
  PROVE  /\ page \in Nat /\ page \div W \in 0 .. W - 2
         /\ page % W \in Indices /\ page \div W \in Indices
<1>1. page \in Nat /\ page \div W \in 0 .. W - 2
  BY DEF UserPages
<1>2. page \div W \in Indices
  BY <1>1, WAssumption DEF Indices
<1> QED BY <1>1, <1>2, PageParts

LEMMA LoadPageBuilds ==
  ASSUME NEW m, NEW roots, Building(m, roots), NEW image \in Images, NEW seg \in Headers,
         NEW page \in UserPages
  PROVE  Building(LoadPage(m, image, seg, page), roots)
<1> DEFINE reused == m.ok /\ Translate(m.mem, m.root, page) # 0
           n == IF reused THEN m ELSE MapUserPageAlloc(m, page)
           f == Translate(n.mem, n.root, page)
           words == Copied(image, seg, page, IF reused THEN n.mem[f] ELSE Zeroes)
<1>1. page \in Nat /\ page \div W \in 0 .. W - 2 /\ page % W \in Indices /\ page \div W \in Indices
  BY UserPagesIndexed
<1>2. Building(n, roots) /\ (n.ok => f # 0)
  <2>1. CASE reused
    BY <2>1
  <2>2. CASE ~reused
    BY <1>1, <2>2, MapAllocBuilds
  <2> QED BY <2>1, <2>2
<1>3. CASE ~n.ok
  <2>1. LoadPage(m, image, seg, page) = n
    BY <1>3 DEF LoadPage
  <2> QED BY <1>2, <2>1
<1>4. CASE n.ok
  <2>1. LoadPage(m, image, seg, page) = [n EXCEPT !.mem[f] = words]
    BY <1>4 DEF LoadPage
  <2>2. n \in Machines /\ Zeroes \in Words
    BY <1>2, SoundParts DEF Building, Zeroes, Words
  <2> HIDE DEF n, reused
  <2>3. f \in Frames
    BY <1>1, <1>2, <1>4, <2>2, FillBuilds
  <2>4. n.mem[f] \in Words
    BY <2>2, <2>3 DEF Machines, Memory
  <2>5. words \in Words
    BY <1>1, <2>2, <2>4, CopiedWords
  <2> HIDE DEF words
  <2> QED BY <1>1, <1>2, <1>4, <2>1, <2>5, FillBuilds
<1> QED BY <1>3, <1>4

(***************************************************************************)
(* The pages of a segment lie in the part of the address space that its    *)
(* last page lies in.                                                      *)
(***************************************************************************)
LEMMA SegmentPages ==
  ASSUME NEW seg \in Headers, Loads(seg)
  PROVE  /\ PageCount(seg) \in Nat
         /\ \A k \in 1 .. PageCount(seg) : PagesOf(seg)[k] \in UserPages
<1>1. W \in Nat \ {0} /\ seg.vaddr \in Nat /\ seg.memsz \in Nat /\ LastPage(seg) \div W < W - 1
  BY WAssumption DEF Headers
<1>2. FirstPage(seg) \in Nat /\ LastPage(seg) \in Nat
  BY <1>1 DEF FirstPage, LastPage
<1>3. FirstPage(seg) <= LastPage(seg)
  BY <1>1, DivMono DEF FirstPage, LastPage
<1>4. ASSUME NEW k \in 1 .. PageCount(seg)
      PROVE  PagesOf(seg)[k] \in UserPages
  <2> DEFINE page == FirstPage(seg) + k - 1
  <2>1. PagesOf(seg)[k] = page /\ page \in Nat /\ page <= LastPage(seg)
    BY <1>2, <1>3 DEF PagesOf, PageCount
  <2> HIDE DEF page
  <2>2. page \div W <= LastPage(seg) \div W
    BY <1>1, <1>2, <2>1, DivMono
  <2>3. page \div W \in Nat /\ LastPage(seg) \div W \in Nat
    BY <1>1, <1>2, <2>1
  <2>4. page \div W \in 0 .. W - 2
    BY <1>1, <2>2, <2>3
  <2> QED BY <2>1, <2>4 DEF UserPages
<1> QED BY <1>2, <1>3, <1>4 DEF PageCount

LEMMA LoadRounds ==
  ASSUME NEW b, NEW roots, Building(b, roots), NEW image \in Images, NEW seg \in Headers, Loads(seg)
  PROVE  /\ Building(LoadFold(b, image, seg), roots)
         /\ \E g : /\ g[0] = b /\ g[PageCount(seg)] = LoadFold(b, image, seg)
                   /\ \A k \in 0 .. PageCount(seg) - 1 : g[k + 1] = LoadPage(g[k], image, seg, FirstPage(seg) + k)
<1> DEFINE Op(x, page) == LoadPage(x, image, seg, page)
           S == {x \in Machines : Building(x, roots)}
           s == PagesOf(seg)
           l == PageCount(seg)
           G == [x \in S \X UserPages |-> Op(x[1], x[2])]
           IsFold(f) == f = [T \in SUBSET (1..l) |->
                              IF T = {} THEN b ELSE Op(f[T \ {Max(T)}], s[Max(T)])]
           it == CHOOSE f : IsFold(f)
<1>1. l \in Nat /\ DOMAIN s = 1..l /\ \A k \in 1..l : s[k] \in UserPages
  BY SegmentPages DEF PagesOf, PageCount
<1>2. \A x \in S, page \in UserPages : Op(x, page) \in S
  <2> SUFFICES ASSUME NEW x \in S, NEW page \in UserPages
               PROVE  Op(x, page) \in S
    OBVIOUS
  <2>1. Building(Op(x, page), roots)
    BY LoadPageBuilds
  <2> QED BY <2>1, SoundParts DEF Building
<1>3. b \in S
  BY SoundParts DEF Building
<1>4. LoadFold(b, image, seg) = it[1..l]
  BY <1>1 DEF LoadFold, FoldLeft, MapThenFoldSet
<1> HIDE DEF S, Op, s, l
<1>5. G \in [S \X UserPages -> S]
  BY <1>2
<1>6. PICK f : IsFoldOf(f, S, G, b, l, s)
  <2> HIDE DEF G
  <2> QED BY <1>1, <1>3, <1>5, FoldExists
<1>7. IsFold(f)
  <2>1. ASSUME NEW T \in SUBSET (1..l)
        PROVE  f[T] = IF T = {} THEN b ELSE Op(f[T \ {Max(T)}], s[Max(T)])
    <3>1. CASE T = {}
      BY <1>6, <3>1 DEF IsFoldOf
    <3>2. CASE T # {}
      <4>1. f[T \ {Max(T)}] \in S /\ s[Max(T)] \in UserPages
        BY <1>1, <1>6, <3>2, MaxIn DEF IsFoldOf
      <4>2. G[<<f[T \ {Max(T)}], s[Max(T)]>>] = Op(f[T \ {Max(T)}], s[Max(T)])
        BY <4>1
      <4> HIDE DEF G
      <4> QED BY <1>6, <3>2, <4>2 DEF IsFoldOf
    <3> QED BY <3>1, <3>2
  <2> HIDE DEF G
  <2>2. f = [T \in SUBSET (1..l) |-> f[T]]
    BY <1>6 DEF IsFoldOf
  <2> QED BY <2>1, <2>2
<1>8. IsFold(it)
  <2> HIDE DEF IsFold
  <2> QED BY <1>7
<1> HIDE DEF it
<1>9. it[{}] \in S
  BY <1>3, <1>8
<1>10. ASSUME NEW k \in 0 .. l - 1
       PROVE  it[1 .. k + 1] = Op(it[1..k], s[k + 1]) /\ s[k + 1] \in UserPages
  <2>1. 1 .. k + 1 \in SUBSET (1..l) /\ 1 .. k + 1 # {} /\ Max(1 .. k + 1) = k + 1
        /\ (1 .. k + 1) \ {k + 1} = 1..k
    BY <1>1, LastPosition
  <2>2. it[1 .. k + 1] = Op(it[(1 .. k + 1) \ {Max(1 .. k + 1)}], s[Max(1 .. k + 1)])
    BY <1>8, <2>1
  <2>3. k + 1 \in 1..l
    BY <1>1
  <2> QED BY <1>1, <2>1, <2>2, <2>3
<1>11. it[1..l] \in S
  <2>1. ASSUME NEW k \in 0 .. l - 1, it[1..k] \in S
        PROVE  it[1 .. k + 1] \in S
    BY <1>2, <1>10, <2>1
  <2> QED BY <1>1, <1>9, <2>1, FoldStaysIn
<1> DEFINE g == [k \in 0..l |-> it[1..k]]
<1>12. g[0] = b /\ g[l] = it[1..l] /\ Building(it[1..l], roots)
  <2>1. 1..0 = {} /\ 0 \in 0..l /\ l \in 0..l
    BY <1>1
  <2>2. it[{}] = b
    BY <1>8
  <2> QED BY <1>11, <2>1, <2>2 DEF S
<1>13. ASSUME NEW k \in 0 .. l - 1
       PROVE  g[k + 1] = LoadPage(g[k], image, seg, FirstPage(seg) + k)
  <2>1. k \in 0..l /\ k + 1 \in 0..l
    BY <1>1
  <2>2. g[k + 1] = Op(g[k], s[k + 1])
    BY <1>10, <2>1
  <2>3. k + 1 \in 1..l /\ k \in Int /\ FirstPage(seg) \in Int
    BY <1>1, WAssumption DEF FirstPage, Headers
  <2>4. s[k + 1] = FirstPage(seg) + k
    BY <1>1, <2>3 DEF s, PagesOf, PageCount, l
  <2> HIDE DEF g
  <2> QED BY <2>2, <2>4 DEF Op
<1> HIDE DEF g
<1> QED BY <1>4, <1>12, <1>13 DEF l

LEMMA SegmentBuilds ==
  ASSUME NEW m, NEW roots, Building(m, roots), NEW image \in Images, NEW seg \in Headers
  PROVE  Building(MapElfSegment(m, image, seg), roots)
<1>1. CASE Loads(seg)
  <2>1. MapElfSegment(m, image, seg) = LoadFold(m, image, seg)
    BY <1>1 DEF MapElfSegment, LoadFold
  <2> QED BY <1>1, <2>1, LoadRounds
<1>2. CASE ~Loads(seg)
  BY <1>2 DEF MapElfSegment
<1> QED BY <1>1, <1>2

LEMMA SegmentRounds ==
  ASSUME NEW b, NEW roots, Building(b, roots), NEW image \in Images, Linked(image)
  PROVE  /\ Building(SegmentFold(b, image), roots)
         /\ \E g : /\ g[0] = b /\ g[Len(image.headers)] = SegmentFold(b, image)
                   /\ \A k \in 0 .. Len(image.headers) - 1 : g[k + 1] = MapElfSegment(g[k], image, image.headers[k + 1])
<1> DEFINE Op(x, seg) == MapElfSegment(x, image, seg)
           S == {x \in Machines : Building(x, roots)}
           s == image.headers
           l == Len(image.headers)
           G == [x \in S \X Headers |-> Op(x[1], x[2])]
           IsFold(f) == f = [T \in SUBSET (1..l) |->
                              IF T = {} THEN b ELSE Op(f[T \ {Max(T)}], s[Max(T)])]
           it == CHOOSE f : IsFold(f)
<1>1. l \in Nat /\ DOMAIN s = 1..l /\ \A k \in 1..l : s[k] \in Headers
  <2> DEFINE Header == [load : BOOLEAN, vaddr : Nat, offset : Nat, filesz : Nat, memsz : Nat]
  <2>1. s \in Seq(Header) /\ \A k \in DOMAIN s : Loads(s[k]) => LastPage(s[k]) \div W < W - 1
    BY ImagesAssumption DEF Linked, InUserPart
  <2> HIDE DEF s, l
  <2>2. Len(s) \in Nat /\ DOMAIN s = 1..Len(s) /\ \A k \in 1..Len(s) : s[k] \in Header
    <3> HIDE DEF Header
    <3> QED BY <2>1
  <2>3. \A k \in 1..Len(s) : s[k] \in Headers
    BY <2>1, <2>2 DEF Headers
  <2> QED BY <2>2, <2>3 DEF s, l
<1>2. \A x \in S, seg \in Headers : Op(x, seg) \in S
  <2> SUFFICES ASSUME NEW x \in S, NEW seg \in Headers
               PROVE  Op(x, seg) \in S
    OBVIOUS
  <2>1. Building(Op(x, seg), roots)
    BY SegmentBuilds
  <2> QED BY <2>1, SoundParts DEF Building
<1>3. b \in S
  BY SoundParts DEF Building
<1>4. SegmentFold(b, image) = it[1..l]
  BY <1>1 DEF SegmentFold, FoldLeft, MapThenFoldSet
<1> HIDE DEF S, Op, s, l
<1>5. G \in [S \X Headers -> S]
  BY <1>2
<1>6. PICK f : IsFoldOf(f, S, G, b, l, s)
  <2> HIDE DEF G
  <2> QED BY <1>1, <1>3, <1>5, FoldExists
<1>7. IsFold(f)
  <2>1. ASSUME NEW T \in SUBSET (1..l)
        PROVE  f[T] = IF T = {} THEN b ELSE Op(f[T \ {Max(T)}], s[Max(T)])
    <3>1. CASE T = {}
      BY <1>6, <3>1 DEF IsFoldOf
    <3>2. CASE T # {}
      <4>1. f[T \ {Max(T)}] \in S /\ s[Max(T)] \in Headers
        BY <1>1, <1>6, <3>2, MaxIn DEF IsFoldOf
      <4>2. G[<<f[T \ {Max(T)}], s[Max(T)]>>] = Op(f[T \ {Max(T)}], s[Max(T)])
        BY <4>1
      <4> HIDE DEF G
      <4> QED BY <1>6, <3>2, <4>2 DEF IsFoldOf
    <3> QED BY <3>1, <3>2
  <2> HIDE DEF G
  <2>2. f = [T \in SUBSET (1..l) |-> f[T]]
    BY <1>6 DEF IsFoldOf
  <2> QED BY <2>1, <2>2
<1>8. IsFold(it)
  <2> HIDE DEF IsFold
  <2> QED BY <1>7
<1> HIDE DEF it
<1>9. it[{}] \in S
  BY <1>3, <1>8
<1>10. ASSUME NEW k \in 0 .. l - 1
       PROVE  it[1 .. k + 1] = Op(it[1..k], s[k + 1]) /\ s[k + 1] \in Headers
  <2>1. 1 .. k + 1 \in SUBSET (1..l) /\ 1 .. k + 1 # {} /\ Max(1 .. k + 1) = k + 1
        /\ (1 .. k + 1) \ {k + 1} = 1..k
    BY <1>1, LastPosition
  <2>2. it[1 .. k + 1] = Op(it[(1 .. k + 1) \ {Max(1 .. k + 1)}], s[Max(1 .. k + 1)])
    BY <1>8, <2>1
  <2>3. k + 1 \in 1..l
    BY <1>1
  <2> QED BY <1>1, <2>1, <2>2, <2>3
<1>11. it[1..l] \in S
  <2>1. ASSUME NEW k \in 0 .. l - 1, it[1..k] \in S
        PROVE  it[1 .. k + 1] \in S
    BY <1>2, <1>10, <2>1
  <2> QED BY <1>1, <1>9, <2>1, FoldStaysIn
<1> DEFINE g == [k \in 0..l |-> it[1..k]]
<1>12. g[0] = b /\ g[l] = it[1..l] /\ Building(it[1..l], roots)
  <2>1. 1..0 = {} /\ 0 \in 0..l /\ l \in 0..l
    BY <1>1
  <2>2. it[{}] = b
    BY <1>8
  <2> QED BY <1>11, <2>1, <2>2 DEF S
<1>13. ASSUME NEW k \in 0 .. l - 1
       PROVE  g[k + 1] = MapElfSegment(g[k], image, image.headers[k + 1])
  <2>1. k \in 0..l /\ k + 1 \in 0..l
    BY <1>1
  <2>2. g[k + 1] = Op(g[k], s[k + 1])
    BY <1>10, <2>1
  <2>4. s[k + 1] = image.headers[k + 1]
    BY DEF s
  <2> HIDE DEF g
  <2> QED BY <2>2, <2>4 DEF Op
<1> HIDE DEF g
<1> QED BY <1>4, <1>12, <1>13 DEF l

LEMMA StackRounds ==
  ASSUME NEW b, NEW roots, Building(b, roots)
  PROVE  /\ Building(StackFold(b), roots)
         /\ \E g : /\ g[0] = b /\ g[StackCount] = StackFold(b)
                   /\ \A k \in 0 .. StackCount - 1 : g[k + 1] = MapUserPageAlloc(g[k], StackBottom + k)
<1> DEFINE Op(x, page) == MapUserPageAlloc(x, page)
           S == {x \in Machines : Building(x, roots)}
           s == StackPages
           l == StackCount
           G == [x \in S \X UserPages |-> Op(x[1], x[2])]
           IsFold(f) == f = [T \in SUBSET (1..l) |->
                              IF T = {} THEN b ELSE Op(f[T \ {Max(T)}], s[Max(T)])]
           it == CHOOSE f : IsFold(f)
<1>1. l \in Nat /\ DOMAIN s = 1..l /\ \A k \in 1..l : s[k] \in UserPages
  <2>1. StackTop \in Nat /\ StackBottom \in Nat /\ StackBottom < StackTop /\ W \in Nat \ {0}
        /\ StackTop \div W \in 1 .. W - 2
    BY StackAssumption, WAssumption, PagesIndexed
  <2>2. ASSUME NEW k \in 1..l
        PROVE  s[k] \in UserPages
    <3> DEFINE page == StackBottom + k - 1
    <3>1. s[k] = page /\ page \in Nat /\ page <= StackTop
      BY <2>1 DEF StackPages, StackCount
    <3> HIDE DEF page
    <3>2. page \div W <= StackTop \div W
      BY <2>1, <3>1, DivMono
    <3>3. page \div W \in Nat
      BY <2>1, <3>1
    <3>4. page \div W \in 0 .. W - 2
      BY <2>1, <3>2, <3>3
    <3> QED BY <3>1, <3>4 DEF UserPages
  <2>3. l \in Nat /\ DOMAIN s = 1..l
    BY <2>1 DEF StackPages, StackCount
  <2> QED BY <2>2, <2>3
<1>2. \A x \in S, page \in UserPages : Op(x, page) \in S
  <2> SUFFICES ASSUME NEW x \in S, NEW page \in UserPages
               PROVE  Op(x, page) \in S
    OBVIOUS
  <2>1. Building(Op(x, page), roots)
    BY UserPagesIndexed, MapAllocBuilds
  <2> QED BY <2>1, SoundParts DEF Building
<1>3. b \in S
  BY SoundParts DEF Building
<1>4. StackFold(b) = it[1..l]
  BY <1>1 DEF StackFold, FoldLeft, MapThenFoldSet
<1> HIDE DEF S, Op, s, l
<1>5. G \in [S \X UserPages -> S]
  BY <1>2
<1>6. PICK f : IsFoldOf(f, S, G, b, l, s)
  <2> HIDE DEF G
  <2> QED BY <1>1, <1>3, <1>5, FoldExists
<1>7. IsFold(f)
  <2>1. ASSUME NEW T \in SUBSET (1..l)
        PROVE  f[T] = IF T = {} THEN b ELSE Op(f[T \ {Max(T)}], s[Max(T)])
    <3>1. CASE T = {}
      BY <1>6, <3>1 DEF IsFoldOf
    <3>2. CASE T # {}
      <4>1. f[T \ {Max(T)}] \in S /\ s[Max(T)] \in UserPages
        BY <1>1, <1>6, <3>2, MaxIn DEF IsFoldOf
      <4>2. G[<<f[T \ {Max(T)}], s[Max(T)]>>] = Op(f[T \ {Max(T)}], s[Max(T)])
        BY <4>1
      <4> HIDE DEF G
      <4> QED BY <1>6, <3>2, <4>2 DEF IsFoldOf
    <3> QED BY <3>1, <3>2
  <2> HIDE DEF G
  <2>2. f = [T \in SUBSET (1..l) |-> f[T]]
    BY <1>6 DEF IsFoldOf
  <2> QED BY <2>1, <2>2
<1>8. IsFold(it)
  <2> HIDE DEF IsFold
  <2> QED BY <1>7
<1> HIDE DEF it
<1>9. it[{}] \in S
  BY <1>3, <1>8
<1>10. ASSUME NEW k \in 0 .. l - 1
       PROVE  it[1 .. k + 1] = Op(it[1..k], s[k + 1]) /\ s[k + 1] \in UserPages
  <2>1. 1 .. k + 1 \in SUBSET (1..l) /\ 1 .. k + 1 # {} /\ Max(1 .. k + 1) = k + 1
        /\ (1 .. k + 1) \ {k + 1} = 1..k
    BY <1>1, LastPosition
  <2>2. it[1 .. k + 1] = Op(it[(1 .. k + 1) \ {Max(1 .. k + 1)}], s[Max(1 .. k + 1)])
    BY <1>8, <2>1
  <2>3. k + 1 \in 1..l
    BY <1>1
  <2> QED BY <1>1, <2>1, <2>2, <2>3
<1>11. it[1..l] \in S
  <2>1. ASSUME NEW k \in 0 .. l - 1, it[1..k] \in S
        PROVE  it[1 .. k + 1] \in S
    BY <1>2, <1>10, <2>1
  <2> QED BY <1>1, <1>9, <2>1, FoldStaysIn
<1> DEFINE g == [k \in 0..l |-> it[1..k]]
<1>12. g[0] = b /\ g[l] = it[1..l] /\ Building(it[1..l], roots)
  <2>1. 1..0 = {} /\ 0 \in 0..l /\ l \in 0..l
    BY <1>1
  <2>2. it[{}] = b
    BY <1>8
  <2> QED BY <1>11, <2>1, <2>2 DEF S
<1>13. ASSUME NEW k \in 0 .. l - 1
       PROVE  g[k + 1] = MapUserPageAlloc(g[k], StackBottom + k)
  <2>1. k \in 0..l /\ k + 1 \in 0..l
    BY <1>1
  <2>2. g[k + 1] = Op(g[k], s[k + 1])
    BY <1>10, <2>1
  <2>3. k + 1 \in 1..l /\ k \in Int /\ StackBottom \in Int
    BY <1>1, StackAssumption, PagesIndexed
  <2>4. s[k + 1] = StackBottom + k
    BY <1>1, <2>3 DEF s, StackPages, StackCount, l
  <2> HIDE DEF g
  <2> QED BY <2>2, <2>4 DEF Op
<1> HIDE DEF g
<1> QED BY <1>4, <1>12, <1>13 DEF l

-----------------------------------------------------------------------------
(***************************************************************************)
(* A new space, loaded from an image or copied from a process.             *)
(***************************************************************************)
LEMMA LoadBuilds ==
  ASSUME NEW m, NEW roots, Sound(m, roots), m.root = 0, NEW image \in Images, InUserPart(image),
         cr3 = 0 \/ \E p \in Pids : roots[p] = cr3
  PROVE  /\ Sound(LoadElfIntoNewSpace(m, image), roots)
         /\ LET n == LoadElfIntoNewSpace(m, image) IN n.ok => n.root # 0
<1>1. CASE ~image.valid
  <2>1. LoadElfIntoNewSpace(m, image) = Fail(m)
    BY <1>1 DEF LoadElfIntoNewSpace
  <2> QED BY <2>1, FailBuilds DEF Building
<1>2. CASE image.valid
  <2> DEFINE a == NewUser(m, cr3)
             c == SegmentFold(a, image)
  <2>1. Building(a, roots)
    BY NewUserBuilds
  <2>2. LoadElfIntoNewSpace(m, image) = StackFold(c)
    BY <1>2 DEF LoadElfIntoNewSpace, MapUserStack, SegmentFold, StackFold
  <2> HIDE DEF a
  <2>3. Building(c, roots)
    BY <1>2, <2>1, SegmentRounds DEF Linked
  <2> HIDE DEF c
  <2>4. Building(StackFold(c), roots)
    BY <2>3, StackRounds
  <2> QED BY <2>2, <2>4 DEF Building
<1> QED BY <1>1, <1>2

LEMMA CloneBuilds ==
  ASSUME NEW m, NEW roots, Sound(m, roots), m.root = 0, NEW p \in Pids, roots[p] # 0
  PROVE  Building(CloneUserSpace(m, roots[p], roots[p]), roots)
<1> DEFINE source == roots[p]
           a == NewUser(m, source)
<1>1. Building(a, roots)
  BY NewUserBuilds
<1>2. CloneUserSpace(m, source, source) = CloneFold(a, source)
  BY DEF CloneUserSpace, CloneFold
<1>3. roots[p] = source /\ source # 0
  OBVIOUS
<1> HIDE DEF a, source
<1>4. Building(CloneFold(a, source), roots)
  BY <1>1, <1>3, CloneRounds
<1> QED BY <1>2, <1>3, <1>4

(***************************************************************************)
(* The end of an operation: the space it built is given up, or it becomes  *)
(* that of process q, whose tag its frames get.                            *)
(***************************************************************************)
Dropped(m) == [m EXCEPT !.root = 0, !.ok = TRUE]

LEMMA DroppedParts ==
  ASSUME NEW m \in Machines
  PROVE  /\ Dropped(m) \in Machines /\ Dropped(m).mem = m.mem
         /\ Dropped(m).free_stack = m.free_stack /\ Dropped(m).root = 0 /\ Dropped(m).ok
<1>1. 0 \in 0..NFrames
  BY NFramesAssumption
<1> QED BY <1>1 DEF Dropped, Machines

LEMMA GivenUp ==
  ASSUME NEW m, NEW roots, Sound(m, roots)
  PROVE  Sound(Dropped(m), roots)
<1>1. PICK own : Owning(m, roots, own)
  BY DEF Sound
<1>2. m \in Machines
  BY <1>1 DEF Owning
<1>3. Owning(Dropped(m), roots, own)
  BY <1>1, <1>2, DroppedParts DEF Owning
<1> QED BY <1>3 DEF Sound

LEMMA Adopted ==
  ASSUME NEW m, NEW roots, Sound(m, roots), m.root # 0, NEW q \in Pids, roots[q] = 0,
         roots \in [Pids -> 0..NFrames]
  PROVE  Sound(Dropped(m), [roots EXCEPT ![q] = m.root])
<1>1. PICK own : Owning(m, roots, own)
  BY DEF Sound
<1>2. m \in Machines /\ own \in [Frames -> Tags] /\ Frees(m.free_stack, own)
      /\ Spaces(m.mem, own, roots) /\ Space(m.mem, own, 0, m.root)
  BY <1>1 DEF Owning
<1> DEFINE r == m.root
           own2 == [g \in Frames |-> IF own[g][1] = 0 THEN <<q, own[g][2], own[g][3]>> ELSE own[g]]
           roots2 == [roots EXCEPT ![q] = r]
<1>3. q \in Int /\ q # 0 /\ q # -1
  BY DEF Pids
<1>4. own2 \in [Frames -> Tags]
  <2>1. \A g \in Frames : own[g] \in Tags /\ own[g][2] \in Int /\ own[g][3] \in Int
    BY <1>2 DEF Tags
  <2>2. \A g \in Frames : <<q, own[g][2], own[g][3]>> \in Tags
    BY <1>3, <2>1 DEF Tags
  <2> QED BY <2>1, <2>2
<1>5. \A g \in Frames : own[g][1] # 0 => own2[g] = own[g]
  OBVIOUS
<1>6. \A g \in Frames, i \in Int, j \in Int : own[g] = <<0, i, j>> => own2[g] = <<q, i, j>>
  OBVIOUS
<1> HIDE DEF own2, r
<1>7. Frees(m.free_stack, own2)
  <2>1. \A g \in Frames : own[g][1] = -1 => own2[g] = own[g]
    BY <1>5
  <2>2. m.free_stack \in Seq(Frames)
    BY <1>2 DEF Machines
  <2> QED BY <1>2, <2>1, <2>2, FreesKept
<1>8. Space(m.mem, own2, q, r)
  <2>1. r \in Frames /\ own2[r] = <<q, -1, -1>> /\ m.mem[r][W - 1] = NFrames + W
    BY <1>2, <1>6 DEF Space, r
  <2>2. ASSUME NEW i \in 0 .. W - 2, m.mem[r][i] # 0
        PROVE  Table(m.mem, own2, q, i, m.mem[r][i])
    <3> DEFINE t == m.mem[r][i]
    <3>1. Table(m.mem, own, 0, i, t)
      BY <1>2, <2>2 DEF Space, r
    <3> HIDE DEF t
    <3>2. t \in Frames /\ own2[t] = <<q, i, -1>>
      BY <1>6, <3>1 DEF Table
    <3>3. ASSUME NEW j \in Indices, m.mem[t][j] # 0
          PROVE  m.mem[t][j] \in Frames /\ own2[m.mem[t][j]] = <<q, i, j>>
      <4>1. m.mem[t][j] \in Frames /\ own[m.mem[t][j]] = <<0, i, j>> /\ j \in Int
        BY <3>1, <3>3 DEF Table, Indices
      <4> QED BY <1>6, <4>1
    <3>4. Table(m.mem, own2, q, i, t)
      BY <3>2, <3>3 DEF Table
    <3> QED BY <3>4 DEF t
  <2> QED BY <2>1, <2>2 DEF Space
<1>9. Spaces(m.mem, own2, roots2)
  <2> SUFFICES ASSUME NEW p \in Pids, roots2[p] # 0
               PROVE  Space(m.mem, own2, p, roots2[p])
    BY DEF Spaces
  <2>1. CASE p = q
    BY <1>8, <2>1
  <2>2. CASE p # q
    <3>1. roots2[p] = roots[p] /\ p \in Int /\ p # 0
      BY <2>2 DEF Pids
    <3>2. Space(m.mem, own, p, roots[p])
      BY <1>2, <3>1 DEF Spaces
    <3>3. \A g \in Frames : own[g][1] = p =>
            own2[g] = own[g] /\ (own[g][3] = -1 => m.mem[g] = m.mem[g])
      BY <1>5, <3>1
    <3> QED BY <3>1, <3>2, <3>3, SpaceKept
  <2> QED BY <2>1, <2>2
<1> HIDE DEF roots2
<1>10. Owning(Dropped(m), roots2, own2)
  BY <1>2, <1>4, <1>7, <1>9, DroppedParts DEF Owning
<1> QED BY <1>10 DEF Sound, roots2, r

LEMMA RootsTyped ==
  ASSUME MemInv
  PROVE  /\ Roots \in [Pids -> 0..NFrames]
         /\ \A p \in Pids : Roots[p] = procs[p].cr3
         /\ cr3 = 0 \/ \E p \in Pids : Roots[p] = cr3
         /\ current_pid # 0 => current_pid \in Pids /\ cr3 = Roots[current_pid] /\ cr3 # 0
         /\ 0 \in 0..MaxPid /\ Pids \subseteq 0..MaxPid
<1>1. MaxPid \in Nat /\ Pids = 1..MaxPid
  BY MaxProcessesAssumption DEF Pids
<1>2. \A p \in Pids : procs[p] \in Entry /\ procs[p].cr3 \in 0..NFrames
  BY DEF MemInv, Entry
<1>3. Roots \in [Pids -> 0..NFrames] /\ \A p \in Pids : Roots[p] = procs[p].cr3
  BY <1>2 DEF Roots
<1>4. current_pid # 0 => current_pid \in Pids
  BY <1>1 DEF MemInv
<1>5. current_pid # 0 => cr3 = procs[current_pid].cr3 /\ cr3 # 0
  BY <1>4 DEF MemInv
<1>6. cr3 = 0 \/ \E p \in Pids : Roots[p] = cr3
  BY <1>3, <1>4 DEF MemInv
<1> QED BY <1>1, <1>3, <1>4, <1>5, <1>6

(***************************************************************************)
(* The argument block of exec goes to one frame.  If the frame is a PML4   *)
(* or a table, the block is two zero words: it may unmap something, but    *)
(* neither the kernel's entry nor the use of a frame changes.              *)
(***************************************************************************)
Cleared(words, words2) ==
  \A k \in Indices : words2[k] = words[k] \/ (words2[k] = 0 /\ k # W - 1)

LEMMA BlockParts ==
  ASSUME NEW argc \in ArgumentCounts, NEW words \in Words
  PROVE  ArgumentBlock(argc, words) \in Words /\ (argc = 0 => Cleared(words, ArgumentBlock(argc, words)))
<1>1. W \in Nat /\ W >= 5 /\ StackTop \in Nat /\ StackTop >= 1
  BY ArgumentBlockAssumption, WAssumption, StackAssumption DEF Pages
<1>2. StackTop * W - 1 \in Nat
  <2>1. StackTop * W \in Nat /\ (StackTop - 1) * W \in Nat /\ (StackTop - 1) * W = StackTop * W - W
    BY <1>1
  <2> DEFINE x == StackTop * W
             y == (StackTop - 1) * W
  <2> HIDE DEF x, y
  <2>2. x \in Nat /\ y \in Nat /\ y = x - W
    BY <2>1 DEF x, y
  <2>3. x - 1 \in Nat
    BY <1>1, <2>2
  <2> QED BY <2>3 DEF x
<1> DEFINE pointer == StackTop * W - 1
           block == ArgumentBlock(argc, words)
<1>3. block = [i \in Indices |-> CASE argc = 1 /\ i = W - 1 -> 1
                                   [] argc = 1 /\ i = W - 2 -> pointer
                                   [] i = W - 2 - argc -> 0
                                   [] i = W - 3 - argc -> argc
                                   [] OTHER -> words[i]]
  BY DEF ArgumentBlock
<1>4. pointer \in Nat
  BY <1>2
<1> HIDE DEF pointer, block
<1>5. CASE argc = 0
  <2>1. block = [i \in Indices |-> IF i = W - 2 \/ i = W - 3 THEN 0 ELSE words[i]]
    BY <1>1, <1>3, <1>5 DEF Indices
  <2>2. block \in Words /\ Cleared(words, block)
    BY <1>1, <2>1 DEF Words, Cleared
  <2> QED BY <2>2 DEF block
<1>6. CASE argc = 1
  <2>1. ASSUME NEW i \in Indices
        PROVE  block[i] \in Nat
    <3>1. words[i] \in Nat
      BY DEF Words
    <3>2. block[i] = 1 \/ block[i] = pointer \/ block[i] = 0 \/ block[i] = words[i]
      BY <1>1, <1>3, <1>6 DEF Indices
    <3> QED BY <1>4, <3>1, <3>2
  <2>2. block \in Words
    BY <1>3, <2>1 DEF Words
  <2> QED BY <1>6, <2>2 DEF block
<1> QED BY <1>5, <1>6 DEF ArgumentCounts

\* What was written to frame a is in the memory mem2.
LEMMA BlockKeepsSpace ==
  ASSUME NEW mem, NEW mem2, NEW own, NEW p, NEW r, Space(mem, own, p, r), NEW a \in Frames,
         \A g \in Frames : g # a => mem2[g] = mem[g],
         Cleared(mem[a], mem2[a]) \/ a \notin SpaceTables(mem, r)
  PROVE  Space(mem2, own, p, r)
<1>1. W \in Nat /\ W >= 5
  BY ArgumentBlockAssumption, WAssumption
<1>2. ASSUME NEW g \in Frames, g = r \/ \E i \in 0 .. W - 2 : g = mem[r][i]
      PROVE  Cleared(mem[g], mem2[g])
  <2>1. CASE g # a
    BY <2>1 DEF Cleared
  <2>2. CASE g = a
    <3>1. g \in SpaceTables(mem, r)
      BY <1>1, <1>2 DEF SpaceTables, Indices
    <3> QED BY <2>2, <3>1
  <2> QED BY <2>1, <2>2
<1>3. r \in Frames /\ own[r] = <<p, -1, -1>> /\ mem[r][W - 1] = NFrames + W
  BY DEF Space
<1>4. mem2[r][W - 1] = NFrames + W
  BY <1>1, <1>2, <1>3 DEF Cleared, Indices
<1>5. ASSUME NEW i \in 0 .. W - 2, mem2[r][i] # 0
      PROVE  Table(mem2, own, p, i, mem2[r][i])
  <2>1. i \in Indices
    BY <1>1 DEF Indices
  <2>2. mem2[r][i] = mem[r][i] /\ mem[r][i] # 0
    BY <1>2, <1>3, <1>5, <2>1 DEF Cleared
  <2> DEFINE t == mem[r][i]
  <2>3. Table(mem, own, p, i, t)
    BY <2>2 DEF Space
  <2>4. t \in Frames /\ own[t] = <<p, i, -1>>
    BY <2>3 DEF Table
  <2>5. Cleared(mem[t], mem2[t])
    BY <1>2, <2>4
  <2> HIDE DEF t
  <2>6. ASSUME NEW j \in Indices, mem2[t][j] # 0
        PROVE  mem2[t][j] \in Frames /\ own[mem2[t][j]] = <<p, i, j>>
    <3>1. mem2[t][j] = mem[t][j]
      BY <2>5, <2>6 DEF Cleared
    <3> QED BY <2>3, <2>6, <3>1 DEF Table
  <2>7. Table(mem2, own, p, i, t)
    BY <2>4, <2>6 DEF Table
  <2> QED BY <2>2, <2>7 DEF t
<1> QED BY <1>3, <1>4, <1>5 DEF Space

LEMMA PushParts ==
  ASSUME NEW m \in Machines, NEW argc \in ArgumentCounts
  PROVE  /\ PushArguments(m, argc) \in Machines
         /\ PushArguments(m, argc).root = m.root /\ PushArguments(m, argc).ok = m.ok
         /\ PushArguments(m, argc).free_stack = m.free_stack
         /\ \A g \in Frames : g # ArgumentFrame(m) => PushArguments(m, argc).mem[g] = m.mem[g]
         /\ ArgumentFrame(m) \in Frames =>
              PushArguments(m, argc).mem[ArgumentFrame(m)] = ArgumentBlock(argc, m.mem[ArgumentFrame(m)])
<1> DEFINE a == ArgumentFrame(m)
           n == PushArguments(m, argc)
<1>1. CASE a \notin Frames
  <2>1. n = m
    BY <1>1 DEF PushArguments
  <2> QED BY <1>1, <2>1
<1>2. CASE a \in Frames
  <2> DEFINE block == ArgumentBlock(argc, m.mem[a])
  <2>1. n = [m EXCEPT !.mem[a] = block]
    BY <1>2 DEF PushArguments
  <2> HIDE DEF n, a
  <2>2. m.mem \in Memory /\ m.mem[a] \in Words
    BY <1>2 DEF Machines, Memory
  <2>3. block \in Words
    BY <2>2, BlockParts
  <2> HIDE DEF block
  <2>4. n.mem = [m.mem EXCEPT ![a] = block] /\ n.free_stack = m.free_stack /\ n.root = m.root
        /\ n.ok = m.ok
    BY <2>1 DEF Machines
  <2>5. n \in Machines
    BY <1>2, <2>1, <2>2, <2>3 DEF Machines, Memory
  <2>6. n.mem[a] = block /\ \A g \in Frames : g # a => n.mem[g] = m.mem[g]
    BY <1>2, <2>2, <2>4 DEF Memory
  <2> QED BY <2>4, <2>5, <2>6 DEF n, a, block
<1> QED BY <1>1, <1>2

LEMMA ArgumentsSound ==
  ASSUME MemInv, NEW m, Sound(m, Roots), m.root # 0, NEW argc \in ArgumentCounts, ~Spoils(m, argc)
  PROVE  Sound(PushArguments(m, argc), Roots) /\ PushArguments(m, argc).root = m.root
<1> DEFINE a == ArgumentFrame(m)
           n == PushArguments(m, argc)
<1>1. PICK own : Owning(m, Roots, own)
  BY DEF Sound
<1>2. m \in Machines /\ Spaces(m.mem, own, Roots) /\ Space(m.mem, own, 0, m.root)
  BY <1>1 DEF Owning
<1>3. a \in Frames
  BY DEF Spoils
<1>4. n \in Machines /\ n.root = m.root /\ n.free_stack = m.free_stack
      /\ (\A g \in Frames : g # a => n.mem[g] = m.mem[g])
      /\ n.mem[a] = ArgumentBlock(argc, m.mem[a])
  BY <1>2, <1>3, PushParts
<1>5. argc = 0 => Cleared(m.mem[a], n.mem[a])
  <2>1. m.mem[a] \in Words
    BY <1>2, <1>3 DEF Machines, Memory
  <2> QED BY <1>4, <2>1, BlockParts
<1>6. ASSUME NEW p \in Pids, Roots[p] # 0
      PROVE  Cleared(m.mem[a], n.mem[a]) \/ a \notin SpaceTables(m.mem, Roots[p])
  <2>1. p \in InTable /\ Roots[p] = procs[p].cr3
    BY <1>6, RootsTyped DEF InTable, MemInv
  <2>2. argc # 0 => a \notin TablesInUse(m)
    BY DEF Spoils
  <2>3. SpaceTables(m.mem, Roots[p]) \subseteq TablesInUse(m)
    BY <2>1 DEF TablesInUse
  <2> QED BY <1>5, <2>2, <2>3
<1>7. Cleared(m.mem[a], n.mem[a]) \/ a \notin SpaceTables(m.mem, m.root)
  <2>1. argc # 0 => a \notin TablesInUse(m)
    BY DEF Spoils
  <2>2. SpaceTables(m.mem, m.root) \subseteq TablesInUse(m)
    BY DEF TablesInUse
  <2> QED BY <1>5, <2>1, <2>2
<1> HIDE DEF a, n
<1>8. Spaces(n.mem, own, Roots)
  <2> SUFFICES ASSUME NEW p \in Pids, Roots[p] # 0
               PROVE  Space(n.mem, own, p, Roots[p])
    BY DEF Spaces
  <2> DEFINE r == Roots[p]
             mem == m.mem
             mem2 == n.mem
  <2>1. Space(mem, own, p, r) /\ (Cleared(mem[a], mem2[a]) \/ a \notin SpaceTables(mem, r))
        /\ \A g \in Frames : g # a => mem2[g] = mem[g]
    BY <1>2, <1>4, <1>6 DEF Spaces
  <2> HIDE DEF r, mem, mem2
  <2>2. Space(mem2, own, p, r)
    BY <1>3, <2>1, BlockKeepsSpace
  <2> QED BY <2>2 DEF r, mem2
<1>9. Space(n.mem, own, 0, n.root)
  <2> DEFINE r == m.root
             mem == m.mem
             mem2 == n.mem
  <2>1. Space(mem, own, 0, r) /\ (Cleared(mem[a], mem2[a]) \/ a \notin SpaceTables(mem, r))
        /\ \A g \in Frames : g # a => mem2[g] = mem[g]
    BY <1>2, <1>4, <1>7
  <2> HIDE DEF r, mem, mem2
  <2>2. Space(mem2, own, 0, r)
    BY <1>3, <2>1, BlockKeepsSpace
  <2> QED BY <1>4, <2>2 DEF r, mem2
<1>10. Owning(n, Roots, own)
  BY <1>1, <1>4, <1>8, <1>9 DEF Owning
<1> QED BY <1>4, <1>10 DEF Sound, n

-----------------------------------------------------------------------------
(***************************************************************************)
(* dealloc_user.  The frames it frees are different ones, and all are of   *)
(* the space that goes.                                                    *)
(***************************************************************************)
LEMMA FreedOnce ==
  ASSUME NEW m, NEW own, NEW q \in Pids, NEW r, Space(m.mem, own, q, r),
         NEW s, s = FramesFreed(m, r)
  PROVE  /\ Len(s) \in Nat /\ DOMAIN s = 1..Len(s)
         /\ \A k \in 1..Len(s) : s[k] \in 0..NFrames
         /\ \A k \in 1..Len(s) : s[k] # 0 => own[s[k]][1] = q
         /\ \A j, k \in 1..Len(s) : s[j] # 0 /\ s[j] = s[k] => j = k
<1> DEFINE t == m.mem[r][UserRegion]
           pages == [n \in 1..W |-> m.mem[t][n - 1]]
<1>1. W \in Nat /\ W >= 3 /\ UserRegion = 0 /\ 0 \in 0 .. W - 2 /\ q \in Int
  BY WAssumption DEF UserRegion, Pids
<1>2. r \in Frames /\ own[r] = <<q, -1, -1>> /\ r \in 0..NFrames
  BY FrameNumbers DEF Space
<1>3. CASE t = 0
  <2>1. s = <<r>>
    BY <1>3 DEF FramesFreed
  <2>2. Len(s) = 1 /\ DOMAIN s = 1..1 /\ s[1] = r
    BY <2>1
  <2>3. \A k \in 1..1 : s[k] = r /\ k = 1
    BY <2>2
  <2> QED BY <1>2, <2>2, <2>3
<1>4. CASE t # 0
  <2>1. s = Append(Append(pages, t), r)
    BY <1>4 DEF FramesFreed, FramesOfTable
  <2>2. Table(m.mem, own, q, 0, t)
    BY <1>1, <1>4 DEF Space
  <2> HIDE DEF t
  <2>3. t \in Frames /\ own[t] = <<q, 0, -1>> /\ t \in 0..NFrames
    BY <2>2, FrameNumbers DEF Table
  <2>4. pages \in Seq(0..NFrames) /\ Len(pages) = W
    <3>1. \A n \in 1..W : pages[n] \in 0..NFrames
      <4> SUFFICES ASSUME NEW n \in 1..W
                   PROVE  m.mem[t][n - 1] \in 0..NFrames
        OBVIOUS
      <4>1. n - 1 \in Indices
        BY <1>1 DEF Indices
      <4>2. m.mem[t][n - 1] = 0 \/ m.mem[t][n - 1] \in Frames
        BY <2>2, <4>1 DEF Table
      <4> QED BY <4>2, FrameNumbers, NFramesAssumption
    <3>2. pages \in [1..W -> 0..NFrames]
      BY <3>1
    <3> HIDE DEF pages
    <3>3. pages \in Seq(0..NFrames)
      BY <1>1, <3>2, SeqDef
    <3>4. Len(pages) \in Nat /\ DOMAIN pages = 1..Len(pages) /\ DOMAIN pages = 1..W
      BY <3>2, <3>3, LenProperties
    <3>5. Len(pages) = W
      <4> DEFINE n == Len(pages)
      <4>1. n \in Nat /\ \A k \in Int : k \in 1..n <=> k \in 1..W
        BY <3>4
      <4> HIDE DEF n
      <4>2. n = W
        BY <1>1, <4>1
      <4> QED BY <4>2 DEF n
    <3> QED BY <3>3, <3>5
  <2>5. Len(s) = W + 2 /\ DOMAIN s = 1 .. W + 2
        /\ \A k \in 1 .. W + 2 :
             s[k] = IF k = W + 2 THEN r ELSE IF k = W + 1 THEN t ELSE pages[k]
    <3> HIDE DEF pages
    <3>1. Append(pages, t) \in Seq(0..NFrames) /\ Len(Append(pages, t)) = W + 1
          /\ \A k \in 1 .. W + 1 : Append(pages, t)[k] = IF k = W + 1 THEN t ELSE pages[k]
      BY <1>1, <2>3, <2>4
    <3> DEFINE u == Append(pages, t)
    <3> HIDE DEF u
    <3>2. s = Append(u, r) /\ u \in Seq(0..NFrames) /\ Len(u) = W + 1
      BY <2>1, <3>1 DEF u
    <3>3. Len(s) = W + 2 /\ DOMAIN s = 1 .. W + 2
          /\ \A k \in 1 .. W + 2 : s[k] = IF k = W + 2 THEN r ELSE u[k]
      BY <1>1, <1>2, <3>2
    <3> QED BY <1>1, <3>1, <3>3 DEF u
  <2>6. \A k \in 1..W : pages[k] # 0 => own[pages[k]] = <<q, 0, k - 1>> /\ pages[k] \in Frames
    <3> SUFFICES ASSUME NEW k \in 1..W, pages[k] # 0
                 PROVE  own[pages[k]] = <<q, 0, k - 1>> /\ pages[k] \in Frames
      OBVIOUS
    <3>1. k - 1 \in Indices /\ pages[k] = m.mem[t][k - 1]
      BY <1>1 DEF Indices
    <3> QED BY <2>2, <3>1 DEF Table
  <2> DEFINE Tag(k) == IF k = W + 2 THEN <<q, -1, -1>> ELSE IF k = W + 1 THEN <<q, 0, -1>>
                       ELSE <<q, 0, k - 1>>
  <2> HIDE DEF pages
  <2>7. ASSUME NEW k \in 1 .. W + 2
        PROVE  s[k] \in 0..NFrames /\ (s[k] # 0 => own[s[k]] = Tag(k))
    <3>1. CASE k = W + 2
      BY <1>2, <2>5, <3>1
    <3>2. CASE k = W + 1
      BY <1>1, <2>3, <2>5, <3>2
    <3>3. CASE k \in 1..W
      <4>1. s[k] = pages[k] /\ k # W + 2 /\ k # W + 1
        BY <1>1, <2>5, <3>3
      <4>2. pages[k] \in 0..NFrames
        BY <2>4, <3>3, ElementOfSeq
      <4> QED BY <2>6, <3>3, <4>1, <4>2
    <3> QED BY <1>1, <3>1, <3>2, <3>3
  <2>8. \A j, k \in 1 .. W + 2 : Tag(j) = Tag(k) => j = k
    BY <1>1
  <2>9. \A k \in 1 .. W + 2 : Tag(k)[1] = q
    BY <1>1
  <2> HIDE DEF Tag
  <2>10. \A j, k \in 1 .. W + 2 : s[j] # 0 /\ s[j] = s[k] => j = k
    BY <2>7, <2>8
  <2>11. \A k \in 1 .. W + 2 : s[k] # 0 => own[s[k]][1] = q
    BY <2>7, <2>9
  <2>12. W + 2 \in Nat
    BY <1>1
  <2> QED BY <2>5, <2>7, <2>10, <2>11, <2>12
<1> QED BY <1>3, <1>4

LEMMA FreeEntryOwns ==
  ASSUME NEW m, NEW roots, NEW own, Owning(m, roots, own), NEW q \in Pids, roots[q] = 0,
         NEW f \in Frames, own[f][1] = q
  PROVE  \E own2 :
           /\ Owning(FreeEntry(m, f), roots, own2)
           /\ \A g \in Frames : g # f => own2[g] = own[g]
<1> DEFINE s == m.free_stack
           n == [m EXCEPT !.free_stack = Append(s, f)]
           own2 == [own EXCEPT ![f] = <<-1, Len(s) + 1, 0>>]
<1>1. m \in Machines /\ own \in [Frames -> Tags] /\ Frees(s, own)
      /\ Spaces(m.mem, own, roots) /\ (m.root # 0 => Space(m.mem, own, 0, m.root))
  BY DEF Owning
<1>2. s \in Seq(Frames) /\ Len(s) \in Nat /\ DOMAIN s = 1..Len(s) /\ f # 0 /\ q # -1 /\ q # 0
  BY <1>1, FrameNumbers DEF Machines, Pids
<1>3. CASE Len(s) >= NFrames
  <2>1. FreeEntry(m, f) = m
    BY <1>2, <1>3 DEF FreeEntry, DeallocateFrame
  <2> QED BY <2>1
<1>4. CASE ~(Len(s) >= NFrames)
  <2>1. FreeEntry(m, f) = n
    BY <1>2, <1>4 DEF FreeEntry, DeallocateFrame
  <2>2. n.mem = m.mem /\ n.free_stack = Append(s, f) /\ n.root = m.root /\ n.ok = m.ok
    BY <1>1 DEF Machines
  <2>3. Append(s, f) \in Seq(Frames) /\ DOMAIN Append(s, f) = 1 .. Len(s) + 1
        /\ \A k \in 1 .. Len(s) + 1 : Append(s, f)[k] = IF k = Len(s) + 1 THEN f ELSE s[k]
    <3> HIDE DEF s
    <3> QED BY <1>2
  <2>4. n \in Machines
    BY <1>1, <2>3 DEF Machines
  <2>5. own2 \in [Frames -> Tags] /\ own2[f] = <<-1, Len(s) + 1, 0>>
        /\ \A g \in Frames : g # f => own2[g] = own[g]
    <3>1. <<-1, Len(s) + 1, 0>> \in Tags
      BY <1>2 DEF Tags
    <3> QED BY <1>1, <3>1
  <2> HIDE DEF n, own2
  <2>6. Frees(n.free_stack, own2)
    <3> SUFFICES ASSUME NEW k \in 1 .. Len(s) + 1
                 PROVE  own2[Append(s, f)[k]] = <<-1, k, 0>>
      BY <2>2, <2>3 DEF Frees
    <3>1. CASE k = Len(s) + 1
      BY <2>3, <2>5, <3>1
    <3>2. CASE k # Len(s) + 1
      <4>1. k \in DOMAIN s /\ Append(s, f)[k] = s[k]
        BY <1>2, <2>3, <3>2
      <4>2. own[s[k]] = <<-1, k, 0>> /\ s[k] \in Frames
        BY <1>1, <1>2, <4>1 DEF Frees
      <4>3. s[k] # f
        BY <1>2, <4>2
      <4> QED BY <2>5, <4>1, <4>2, <4>3
    <3> QED BY <3>1, <3>2
  <2>7. Spaces(n.mem, own2, roots)
    <3>1. ASSUME NEW g \in Frames, own[g][1] \in Pids, roots[own[g][1]] # 0
          PROVE  own2[g] = own[g] /\ n.mem[g] = m.mem[g]
      BY <2>2, <2>5, <3>1
    <3> QED BY <1>1, <3>1, SpacesKept
  <2>8. ASSUME n.root # 0
        PROVE  Space(n.mem, own2, 0, n.root)
    <3>1. 0 \in Int /\ Space(m.mem, own, 0, n.root)
      BY <1>1, <2>2, <2>8
    <3>2. \A g \in Frames : own[g][1] = 0 =>
            own2[g] = own[g] /\ (own[g][3] = -1 => n.mem[g] = m.mem[g])
      BY <1>2, <2>2, <2>5
    <3> QED BY <3>1, <3>2, SpaceKept
  <2>9. Owning(n, roots, own2)
    BY <2>4, <2>5, <2>6, <2>7, <2>8 DEF Owning
  <2> QED BY <2>1, <2>5, <2>9
<1> QED BY <1>3, <1>4

(***************************************************************************)
(* Every frame of the list is freed in its turn; those that follow still   *)
(* have the tag of the space that goes.                                    *)
(***************************************************************************)
LEMMA FreeFoldSound ==
  ASSUME NEW b, NEW roots, NEW own, Owning(b, roots, own), NEW q \in Pids, roots[q] = 0,
         NEW r, NEW s, s = FramesFreed(b, r), Len(s) \in Nat, DOMAIN s = 1..Len(s),
         \A k \in 1..Len(s) : s[k] \in 0..NFrames,
         \A k \in 1..Len(s) : s[k] # 0 => own[s[k]][1] = q,
         \A j, k \in 1..Len(s) : s[j] # 0 /\ s[j] = s[k] => j = k
  PROVE  /\ Sound(DeallocUser(b, r), roots) /\ DeallocUser(b, r).root = b.root
         /\ DeallocUser(b, r).mem = b.mem
<1> DEFINE Op(x, e) == FreeEntry(x, e)
           S == Machines
           l == Len(s)
           G == [x \in S \X (0..NFrames) |-> Op(x[1], x[2])]
           IsFold(f) == f = [T \in SUBSET (1..l) |->
                              IF T = {} THEN b ELSE Op(f[T \ {Max(T)}], s[Max(T)])]
           it == CHOOSE f : IsFold(f)
<1>1. l \in Nat /\ DOMAIN s = 1..l /\ \A k \in 1..l : s[k] \in 0..NFrames
  OBVIOUS
<1>2. \A x \in S, e \in 0..NFrames : Op(x, e) \in S
  <2> SUFFICES ASSUME NEW x \in S, NEW e \in 0..NFrames, e # 0
               PROVE  DeallocateFrame(x, e) \in S
    BY DEF FreeEntry
  <2>1. e \in Frames
    BY NFramesAssumption DEF Frames
  <2>2. x.free_stack \in Seq(Frames)
    BY DEF Machines
  <2>3. Append(x.free_stack, e) \in Seq(Frames)
    BY <2>1, <2>2
  <2> QED BY <2>3 DEF DeallocateFrame, Machines
<1>3. b \in S
  BY DEF Owning
<1>4. DeallocUser(b, r) = it[1..l]
  <2>1. FoldLeft(FreeEntry, b, s) = it[1..l]
    BY <1>1 DEF FoldLeft, MapThenFoldSet
  <2> HIDE DEF it
  <2> QED BY <2>1 DEF DeallocUser
<1> HIDE DEF S, Op, l
<1>5. G \in [S \X (0..NFrames) -> S]
  BY <1>2
<1>6. PICK f : IsFoldOf(f, S, G, b, l, s)
  <2> HIDE DEF G
  <2> QED BY <1>1, <1>3, <1>5, FoldExists
<1>7. IsFold(f)
  <2>1. ASSUME NEW T \in SUBSET (1..l)
        PROVE  f[T] = IF T = {} THEN b ELSE Op(f[T \ {Max(T)}], s[Max(T)])
    <3>1. CASE T = {}
      BY <1>6, <3>1 DEF IsFoldOf
    <3>2. CASE T # {}
      <4>1. f[T \ {Max(T)}] \in S /\ s[Max(T)] \in (0..NFrames)
        BY <1>1, <1>6, <3>2, MaxIn DEF IsFoldOf
      <4>2. G[<<f[T \ {Max(T)}], s[Max(T)]>>] = Op(f[T \ {Max(T)}], s[Max(T)])
        BY <4>1
      <4> HIDE DEF G
      <4> QED BY <1>6, <3>2, <4>2 DEF IsFoldOf
    <3> QED BY <3>1, <3>2
  <2> HIDE DEF G
  <2>2. f = [T \in SUBSET (1..l) |-> f[T]]
    BY <1>6 DEF IsFoldOf
  <2> QED BY <2>1, <2>2
<1>8. IsFold(it)
  <2> HIDE DEF IsFold
  <2> QED BY <1>7
<1> HIDE DEF it, IsFold
<1> DEFINE Owns(x, k, o) ==
             /\ Owning(x, roots, o) /\ x.root = b.root /\ x.mem = b.mem
             /\ \A j \in k + 1 .. l : s[j] # 0 => o[s[j]][1] = q
           Good == [k \in 0..l |-> {x \in Machines : \E o : Owns(x, k, o)}]
           g == [k \in 0..l |-> it[1..k]]
<1>9. g[0] \in Good[0]
  <2>1. 1..0 = {} /\ 0 \in 0..l
    BY <1>1
  <2>2. it[{}] = b
    BY <1>8 DEF IsFold
  <2>3. Owns(b, 0, own)
    BY DEF l
  <2>4. b \in Machines
    BY DEF Owning
  <2> HIDE DEF Owns
  <2> QED BY <2>1, <2>2, <2>3, <2>4
<1>10. ASSUME NEW k \in 0 .. l - 1, g[k] \in Good[k]
       PROVE  g[k + 1] \in Good[k + 1]
  <2>1. k \in 0..l /\ k + 1 \in 0..l /\ k + 1 \in 1..l /\ k \in Int
    BY <1>1
  <2> DEFINE x == it[1..k]
             e == s[k + 1]
  <2>2. PICK o : x \in Machines /\ Owns(x, k, o)
    <3> HIDE DEF Owns
    <3> QED BY <1>10, <2>1
  <2>3. g[k + 1] = FreeEntry(x, e)
    <3>1. 1 .. k + 1 \in SUBSET (1..l) /\ 1 .. k + 1 # {} /\ Max(1 .. k + 1) = k + 1
          /\ (1 .. k + 1) \ {k + 1} = 1..k
      <4>1. l \in Nat /\ k \in 0 .. l - 1
        BY <1>1
      <4> HIDE DEF g, Good, Owns
      <4> QED BY <4>1, LastPosition
    <3>2. it[1 .. k + 1] = Op(it[(1 .. k + 1) \ {Max(1 .. k + 1)}], s[Max(1 .. k + 1)])
      BY <1>8, <3>1 DEF IsFold
    <3>3. it[1 .. k + 1] = Op(it[1..k], s[k + 1])
      BY <3>1, <3>2
    <3> QED BY <2>1, <3>3 DEF Op
  <2> HIDE DEF x, g
  <2>4. CASE e = 0
    <3>1. FreeEntry(x, e) = x
      BY <2>4 DEF FreeEntry
    <3>2. Owns(x, k + 1, o)
      <4>1. \A j \in (k + 1) + 1 .. l : j \in k + 1 .. l
        BY <1>1, <2>1
      <4> QED BY <2>2, <4>1
    <3> HIDE DEF Owns
    <3> QED BY <2>1, <2>2, <2>3, <3>1, <3>2
  <2>5. CASE e # 0
    <3>1. e \in Frames /\ o[e][1] = q
      <4>1. e \in 0..NFrames /\ k + 1 \in k + 1 .. l
        BY <1>1, <2>1
      <4> QED BY <2>2, <2>5, <4>1, NFramesAssumption DEF Frames
    <3>2. PICK o2 : Owning(FreeEntry(x, e), roots, o2) /\ \A h \in Frames : h # e => o2[h] = o[h]
      BY <2>2, <3>1, FreeEntryOwns
    <3>3. FreeEntry(x, e) \in Machines /\ FreeEntry(x, e).root = x.root /\ FreeEntry(x, e).mem = x.mem
      <4>1. FreeEntry(x, e) \in Machines
        BY <3>2 DEF Owning
      <4>2. FreeEntry(x, e).root = x.root /\ FreeEntry(x, e).mem = x.mem
        BY <2>2 DEF FreeEntry, DeallocateFrame, Machines
      <4> QED BY <4>1, <4>2
    <3>4. ASSUME NEW j \in (k + 1) + 1 .. l, s[j] # 0
          PROVE  o2[s[j]][1] = q
      <4>1. j \in 1..l /\ j \in k + 1 .. l /\ j # k + 1
        BY <1>1, <2>1
      <4>2. s[j] \in Frames
        BY <1>1, <3>4, <4>1, NFramesAssumption DEF Frames
      <4>3. s[j] # e
        BY <2>1, <3>4, <4>1 DEF l
      <4>4. o[s[j]][1] = q
        BY <2>2, <3>4, <4>1
      <4> QED BY <3>2, <4>2, <4>3, <4>4
    <3>5. Owns(FreeEntry(x, e), k + 1, o2)
      BY <2>2, <3>2, <3>3, <3>4
    <3> HIDE DEF Owns
    <3> QED BY <2>1, <2>3, <3>3, <3>5
  <2> QED BY <2>4, <2>5
<1>11. g[l] \in Good[l]
  <2> HIDE DEF g, Good
  <2> QED BY <1>1, <1>9, <1>10, Rounds
<1>12. PICK o : Owns(it[1..l], l, o)
  <2>1. l \in 0..l
    BY <1>1
  <2> HIDE DEF Owns
  <2> QED BY <1>11, <2>1
<1> QED BY <1>4, <1>12 DEF Sound

LEMMA DeallocSound ==
  ASSUME NEW m, NEW roots \in [Pids -> 0..NFrames], Sound(m, roots), NEW q \in Pids, roots[q] # 0
  PROVE  /\ Sound(DeallocUser(m, roots[q]), [roots EXCEPT ![q] = 0])
         /\ DeallocUser(m, roots[q]).root = m.root
         /\ DeallocUser(m, roots[q]).mem = m.mem
<1> DEFINE r == roots[q]
           roots2 == [roots EXCEPT ![q] = 0]
           s == FramesFreed(m, r)
<1>1. PICK own : Owning(m, roots, own)
  BY DEF Sound
<1>2. Space(m.mem, own, q, r)
  BY <1>1 DEF Owning, Spaces
<1>3. roots2[q] = 0 /\ \A p \in Pids : roots2[p] # 0 => roots2[p] = roots[p] /\ roots[p] # 0
  OBVIOUS
<1>4. s = FramesFreed(m, r)
  OBVIOUS
<1> HIDE DEF s, roots2, r
<1>5. /\ Len(s) \in Nat /\ DOMAIN s = 1..Len(s)
      /\ \A k \in 1..Len(s) : s[k] \in 0..NFrames
      /\ \A k \in 1..Len(s) : s[k] # 0 => own[s[k]][1] = q
      /\ \A j, k \in 1..Len(s) : s[j] # 0 /\ s[j] = s[k] => j = k
  BY <1>2, <1>4, FreedOnce
<1>6. Owning(m, roots2, own)
  BY <1>1, <1>3 DEF Owning, Spaces
<1>7. /\ Sound(DeallocUser(m, r), roots2) /\ DeallocUser(m, r).root = m.root
      /\ DeallocUser(m, r).mem = m.mem
  BY <1>3, <1>4, <1>5, <1>6, FreeFoldSound
<1> QED BY <1>7 DEF roots2, r

-----------------------------------------------------------------------------
(***************************************************************************)
(* The steps.                                                              *)
(***************************************************************************)
LEMMA InitMemInv == Init => MemInv
<1> SUFFICES ASSUME Init PROVE MemInv
  OBVIOUS
<1> DEFINE own == [f \in Frames |-> <<-1, f, 0>>]
           stack == [n \in 1..NFrames |-> n]
<1>1. NFrames \in Nat /\ Frames = 1..NFrames /\ MaxPid \in Nat /\ Pids = 1..MaxPid
  BY NFramesAssumption, MaxProcessesAssumption DEF Frames, Pids
<1>2. machine = [mem |-> [f \in Frames |-> Zeroes], free_stack |-> stack, root |-> 0, ok |-> TRUE]
      /\ procs = [p \in Pids |-> Nobody] /\ next_pid = 1 /\ current_pid = 0 /\ cr3 = 0
  BY DEF Init
<1>3. stack \in Seq(Frames)
  <2>1. stack \in [1..NFrames -> Frames]
    BY <1>1
  <2> HIDE DEF stack
  <2> QED BY <1>1, <2>1, SeqDef
<1>4. [f \in Frames |-> Zeroes] \in Memory
  BY DEF Memory, Words, Zeroes
<1>5. machine \in Machines /\ machine.free_stack = stack /\ machine.root = 0 /\ machine.ok
  <2> HIDE DEF stack
  <2>1. 0 \in 0..NFrames
    BY <1>1
  <2> QED BY <1>2, <1>3, <1>4, <2>1 DEF Machines
<1>6. own \in [Frames -> Tags]
  <2>1. \A f \in Frames : <<-1, f, 0>> \in Tags
    BY <1>1 DEF Tags
  <2> QED BY <2>1
<1>7. Frees(stack, own)
  BY <1>1 DEF Frees
<1>8. \A p \in Pids : Roots[p] = 0
  BY <1>2 DEF Roots, Nobody
<1> HIDE DEF own, stack
<1>9. Owning(machine, Roots, own)
  BY <1>5, <1>6, <1>7, <1>8 DEF Owning, Spaces
<1>10. procs \in [Pids -> Entry] /\ \A p \in Pids : procs[p].state = "Free" /\ procs[p].cr3 = 0
  <2>1. Nobody \in Entry
    BY <1>1 DEF Nobody, Entry
  <2> QED BY <1>2, <2>1 DEF Nobody
<1>11. Sound(machine, Roots)
  BY <1>9 DEF Sound
<1>12. next_pid = 1 /\ current_pid = 0 /\ cr3 = 0 /\ 1 \in 1 .. MaxPid + 1 /\ 0 \in 0..MaxPid
  BY <1>1, <1>2
<1> QED BY <1>5, <1>10, <1>11, <1>12 DEF MemInv

LEMMA EnterKeeps ==
  ASSUME MemInv, NEW m, Building(m, Roots), next_pid <= MaxPid,
         NEW parent \in 0..MaxPid, NEW image, Enter(m, parent, image)
  PROVE  MemInv'
<1> DEFINE q == next_pid
           entry == [state |-> "Alive", parent |-> parent, cr3 |-> m.root]
<1>1. m \in Machines /\ Sound(m, Roots) /\ machine' = Dropped(m) /\ machine'.root = 0 /\ machine'.ok
  BY SoundParts, DroppedParts DEF Building, Enter, Done, Dropped
<1>2. q \in Pids /\ procs[q].state = "Free" /\ procs[q].cr3 = 0 /\ q + 1 \in 1 .. MaxPid + 1
  BY MaxProcessesAssumption DEF MemInv, Pids
<1>3. CASE ~m.ok \/ TableFull
  <2>1. procs' = procs /\ next_pid' = next_pid /\ current_pid' = current_pid /\ cr3' = cr3
    BY <1>3 DEF Enter
  <2>2. Roots' = Roots
    BY <2>1 DEF Roots
  <2>3. Sound(machine', Roots')
    BY <1>1, <2>2, GivenUp
  <2> QED BY <1>1, <2>1, <2>3 DEF MemInv
<1>4. CASE m.ok /\ ~TableFull
  <2>1. procs' = [procs EXCEPT ![q] = entry] /\ next_pid' = q + 1
        /\ current_pid' = current_pid /\ cr3' = cr3
    BY <1>4 DEF Enter
  <2>2. m.root # 0 /\ entry \in Entry /\ entry.state = "Alive" /\ entry.cr3 = m.root
    BY <1>1, <1>4 DEF Building, Machines, Entry
  <2>3. procs \in [Pids -> Entry]
    BY DEF MemInv
  <2> HIDE DEF entry
  <2>4. procs' \in [Pids -> Entry]
    BY <2>1, <2>2, <2>3
  <2>5. Roots' = [Roots EXCEPT ![q] = m.root]
    BY <1>2, <2>1, <2>2, <2>3 DEF Roots
  <2>6. Sound(machine', Roots')
    BY <1>1, <1>2, <2>2, <2>5, Adopted, RootsTyped
  <2>7. \A p \in Pids : procs'[p] = IF p = q THEN entry ELSE procs[p]
    BY <1>2, <2>1, <2>3
  <2>8. \A p \in Pids : procs'[p].state = "Free" <=> procs'[p].cr3 = 0
    BY <2>2, <2>7 DEF MemInv
  <2>9. \A p \in Pids : p >= q + 1 => procs'[p].state = "Free"
    BY <1>2, <2>7 DEF MemInv, Pids
  <2>10. current_pid # 0 => current_pid \in Pids /\ current_pid # q
    BY <1>2, RootsTyped DEF MemInv
  <2>11. current_pid' # 0 => procs'[current_pid'].state # "Free"
    BY <2>1, <2>7, <2>10 DEF MemInv
  <2>12. cr3' = IF current_pid' = 0 THEN 0 ELSE procs'[current_pid'].cr3
    BY <2>1, <2>7, <2>10 DEF MemInv
  <2>13. current_pid \in 0..MaxPid
    BY DEF MemInv
  <2> QED BY <1>1, <1>2, <2>1, <2>4, <2>6, <2>8, <2>9, <2>11, <2>12, <2>13 DEF MemInv
<1> QED BY <1>3, <1>4

LEMMA SpawnKeeps ==
  ASSUME MemInv, NEW image \in Images, SpawnUserProcess(image), ~spoilt'
  PROVE  MemInv'
<1> DEFINE m == LoadElfIntoNewSpace(machine, image)
<1>1. Sound(machine, Roots) /\ machine.root = 0
  BY DEF MemInv
<1>2. InUserPart(image) /\ Enter(m, 0, Promised(m, image)) /\ next_pid <= MaxPid
  BY DEF SpawnUserProcess, Spoil
<1>3. Building(m, Roots)
  BY <1>1, <1>2, LoadBuilds, RootsTyped DEF Building
<1> HIDE DEF m
<1> QED BY <1>2, <1>3, EnterKeeps, RootsTyped

LEMMA ForkKeeps ==
  ASSUME MemInv, SysFork
  PROVE  MemInv'
<1> DEFINE m == CloneUserSpace(machine, procs[current_pid].cr3, cr3)
<1>1. Sound(machine, Roots) /\ machine.root = 0 /\ current_pid # 0
  BY DEF MemInv, SysFork, Running
<1>2. current_pid \in Pids /\ cr3 = Roots[current_pid] /\ procs[current_pid].cr3 = cr3 /\ cr3 # 0
  BY <1>1, RootsTyped
<1>3. Building(CloneUserSpace(machine, Roots[current_pid], Roots[current_pid]), Roots)
  BY <1>1, <1>2, CloneBuilds
<1>4. Building(m, Roots)
  BY <1>2, <1>3
<1>5. Enter(m, current_pid, expected[current_pid]) /\ next_pid <= MaxPid
  BY DEF SysFork
<1>6. current_pid \in 0..MaxPid
  BY DEF MemInv
<1> HIDE DEF m
<1> QED BY <1>4, <1>5, <1>6, EnterKeeps

LEMMA DispatchKeeps ==
  ASSUME MemInv, NEW p \in Pids, Dispatch(p)
  PROVE  MemInv'
<1>1. machine' = machine /\ procs' = procs /\ next_pid' = next_pid /\ current_pid' = p
      /\ cr3' = procs[p].cr3 /\ procs[p].state = "Alive" /\ p # 0 /\ p \in 0..MaxPid
  BY DEF Dispatch, Pids
<1>2. Roots' = Roots
  BY <1>1 DEF Roots
<1> QED BY <1>1, <1>2 DEF MemInv

LEMMA ExitKeeps ==
  ASSUME MemInv, SysExit
  PROVE  MemInv'
<1> DEFINE c == current_pid
<1>1. machine' = machine /\ next_pid' = next_pid /\ current_pid' = c /\ cr3' = cr3
      /\ c # 0 /\ procs[c].state = "Alive"
  BY DEF SysExit, Running
<1>2. c \in Pids /\ procs \in [Pids -> Entry]
  BY <1>1, RootsTyped DEF MemInv
<1>3. procs' = [procs EXCEPT ![c] = [procs[c] EXCEPT !.state = "Zombie"]]
  BY DEF SysExit
<1> DEFINE entry == [procs[c] EXCEPT !.state = "Zombie"]
<1>4. entry \in Entry /\ entry.state = "Zombie" /\ entry.cr3 = procs[c].cr3
  BY <1>2 DEF Entry
<1> HIDE DEF entry
<1>5. procs' \in [Pids -> Entry] /\ \A p \in Pids : procs'[p] = IF p = c THEN entry ELSE procs[p]
  BY <1>2, <1>3, <1>4 DEF entry
<1>6. \A p \in Pids : procs'[p].cr3 = procs[p].cr3 /\ (procs'[p].state = "Free" <=> procs[p].state = "Free")
  BY <1>1, <1>4, <1>5
<1>7. Roots' = Roots
  BY <1>6 DEF Roots
<1>8. \A p \in Pids : procs'[p].state = "Free" <=> procs'[p].cr3 = 0
  BY <1>6 DEF MemInv
<1>9. \A p \in Pids : p >= next_pid' => procs'[p].state = "Free"
  BY <1>1, <1>6 DEF MemInv
<1>10. procs'[current_pid'].state # "Free" /\ cr3' = IF current_pid' = 0 THEN 0 ELSE procs'[current_pid'].cr3
  BY <1>1, <1>2, <1>6 DEF MemInv
<1> QED BY <1>1, <1>5, <1>7, <1>8, <1>9, <1>10 DEF MemInv

LEMMA WriteKeeps ==
  ASSUME MemInv, NEW v \in Vaddrs, NEW word \in Nat, UserWrite(v, word)
  PROVE  MemInv'
<1> DEFINE page == v \div W
           f == Translate(machine.mem, cr3, page)
           words == [machine.mem[f] EXCEPT ![v % W] = word]
<1>1. f \in Frames /\ machine' = [machine EXCEPT !.mem[f] = words] /\ procs' = procs
      /\ next_pid' = next_pid /\ current_pid' = current_pid /\ cr3' = cr3 /\ current_pid # 0
  BY DEF UserWrite, Running
<1>2. page \in Pages /\ v % W \in Indices /\ page % W \in Indices /\ page \div W \in Indices
  <2>1. page \in Pages /\ v % W \in Indices
    BY VaddrsIndexed
  <2> HIDE DEF page
  <2> QED BY <2>1, PagesIndexed
<1>3. PICK own : Owning(machine, Roots, own)
  BY DEF MemInv, Sound
<1>4. current_pid \in Pids /\ cr3 = Roots[current_pid] /\ cr3 # 0 /\ current_pid \in Int
  BY <1>1, RootsTyped DEF Pids
<1>5. machine \in Machines /\ Space(machine.mem, own, current_pid, cr3)
  BY <1>3, <1>4 DEF Owning, Spaces
<1> HIDE DEF page
<1>6. f # 0
  BY <1>1, FrameNumbers
<1>7. own[f] = <<current_pid, page \div W, page % W>>
  BY <1>2, <1>5, <1>6, TranslateOwns
<1>8. words \in Words
  <2>1. machine.mem[f] \in Words
    BY <1>1, <1>5 DEF Machines, Memory
  <2> HIDE DEF f
  <2> QED BY <1>2, <2>1, WordWritten
<1> HIDE DEF f, words
<1>9. own[f][3] # -1
  <2>1. page % W # -1
    BY <1>2, WAssumption DEF Indices
  <2> QED BY <1>7, <2>1
<1>10. Owning(machine', Roots, own)
  BY <1>1, <1>3, <1>8, <1>9, PageWritten
<1>11. Roots' = Roots
  BY <1>1 DEF Roots
<1>12. Sound(machine', Roots')
  BY <1>10, <1>11 DEF Sound
<1>13. machine'.root = machine.root /\ machine'.ok = machine.ok
  BY <1>1, <1>5 DEF Machines
<1> QED BY <1>1, <1>12, <1>13 DEF MemInv

LEMMA WaitpidKeeps ==
  ASSUME MemInv, NEW q \in Pids, SysWaitpid(q)
  PROVE  MemInv'
<1> DEFINE m == DeallocUser(machine, procs[q].cr3)
<1>1. procs' = [procs EXCEPT ![q] = Nobody] /\ next_pid' = next_pid /\ current_pid' = current_pid
      /\ cr3' = cr3 /\ procs[q].state = "Zombie" /\ current_pid # 0 /\ machine' = Dropped(m)
      /\ procs[current_pid].state = "Alive"
  BY DEF SysWaitpid, Running, Done, Dropped
<1>2. current_pid \in Pids /\ current_pid # q /\ procs \in [Pids -> Entry]
  BY <1>1, RootsTyped DEF MemInv
<1>3. Roots \in [Pids -> 0..NFrames] /\ Roots[q] = procs[q].cr3 /\ Roots[q] # 0 /\ Sound(machine, Roots)
  BY <1>1, RootsTyped DEF MemInv
<1>4. Sound(DeallocUser(machine, Roots[q]), [Roots EXCEPT ![q] = 0])
  BY <1>3, DeallocSound
<1>5. Sound(m, [Roots EXCEPT ![q] = 0])
  BY <1>3, <1>4
<1> HIDE DEF m
<1>6. Sound(machine', [Roots EXCEPT ![q] = 0]) /\ machine'.root = 0 /\ machine'.ok
  BY <1>1, <1>5, GivenUp, SoundParts, DroppedParts
<1>7. Nobody \in Entry /\ Nobody.state = "Free" /\ Nobody.cr3 = 0
  BY MaxProcessesAssumption, NFramesAssumption DEF Nobody, Entry
<1>8. procs' \in [Pids -> Entry] /\ \A p \in Pids : procs'[p] = IF p = q THEN Nobody ELSE procs[p]
  BY <1>1, <1>2, <1>7
<1>9. Roots' = [Roots EXCEPT ![q] = 0]
  BY <1>7, <1>8 DEF Roots
<1>10. \A p \in Pids : procs'[p].state = "Free" <=> procs'[p].cr3 = 0
  BY <1>7, <1>8 DEF MemInv
<1>11. \A p \in Pids : p >= next_pid' => procs'[p].state = "Free"
  BY <1>1, <1>7, <1>8 DEF MemInv
<1>12. procs'[current_pid'].state # "Free" /\ cr3' = IF current_pid' = 0 THEN 0 ELSE procs'[current_pid'].cr3
  BY <1>1, <1>2, <1>8 DEF MemInv
<1>13. next_pid \in 1 .. MaxPid + 1 /\ current_pid \in 0..MaxPid
  BY DEF MemInv
<1> QED BY <1>1, <1>6, <1>8, <1>9, <1>10, <1>11, <1>12, <1>13 DEF MemInv

\* What an exec does that spoils nothing.
LEMMA ExecParts ==
  ASSUME NEW image, NEW argc, SysExec(image, argc), ~spoilt',
         NEW m, m = LoadElfIntoNewSpace(machine, image),
         NEW d, d = DeallocUser(PushArguments(m, argc), procs[current_pid].cr3)
  PROVE  /\ InUserPart(image)
         /\ current_pid # 0 /\ procs[current_pid].state = "Alive"
         /\ next_pid' = next_pid /\ current_pid' = current_pid
         /\ ~m.ok => machine' = Dropped(m) /\ procs' = procs /\ cr3' = cr3 /\ expected' = expected
         /\ m.ok => /\ ~Spoils(m, argc)
                    /\ machine' = Dropped(d)
                    /\ procs' = [procs EXCEPT ![current_pid].cr3 = PushArguments(m, argc).root]
                    /\ cr3' = PushArguments(m, argc).root
                    /\ expected' = ExecDamage(m, image, argc)
<1>1. InUserPart(image) /\ Running
  BY DEF SysExec, Spoil
<1>2. \/ /\ ~m.ok /\ Done(m)
         /\ UNCHANGED <<procs, next_pid, current_pid, cr3, expected, spoilt>>
      \/ /\ m.ok /\ ~Spoils(m, argc)
         /\ Replace(PushArguments(m, argc), procs[current_pid].cr3)
         /\ expected' = ExecDamage(m, image, argc)
         /\ UNCHANGED <<next_pid, current_pid, spoilt>>
  BY <1>1 DEF SysExec, Spoil
<1> QED BY <1>1, <1>2 DEF Running, Done, Dropped, Replace

LEMMA ExecKeeps ==
  ASSUME MemInv, NEW image \in Images, NEW argc \in ArgumentCounts, SysExec(image, argc), ~spoilt'
  PROVE  MemInv'
<1> DEFINE c == current_pid
           m == LoadElfIntoNewSpace(machine, image)
           n == PushArguments(m, argc)
           d == DeallocUser(n, procs[c].cr3)
<1>1. /\ InUserPart(image)
      /\ c # 0 /\ procs[c].state = "Alive" /\ next_pid' = next_pid /\ current_pid' = c
      /\ IF ~m.ok THEN machine' = Dropped(m) /\ procs' = procs /\ cr3' = cr3
         ELSE /\ ~Spoils(m, argc)
              /\ machine' = Dropped(d) /\ procs' = [procs EXCEPT ![c].cr3 = n.root] /\ cr3' = n.root
  BY ExecParts
<1>2. c \in Pids /\ procs \in [Pids -> Entry] /\ Sound(machine, Roots) /\ machine.root = 0
  BY <1>1, RootsTyped DEF MemInv
<1>3. Sound(m, Roots) /\ (m.ok => m.root # 0)
  BY <1>1, <1>2, LoadBuilds, RootsTyped
<1>4. next_pid \in 1 .. MaxPid + 1 /\ c \in 0..MaxPid
  BY DEF MemInv
<1> HIDE DEF m
<1>5. CASE ~m.ok
  <2>1. machine' = Dropped(m) /\ procs' = procs /\ cr3' = cr3
    BY <1>1, <1>5
  <2>2. Sound(machine', Roots) /\ machine'.root = 0 /\ machine'.ok
    BY <1>3, <2>1, GivenUp, SoundParts, DroppedParts
  <2>3. Roots' = Roots
    BY <2>1 DEF Roots
  <2> QED BY <1>1, <2>1, <2>2, <2>3 DEF MemInv
<1>6. CASE m.ok
  <2>1. Sound(n, Roots) /\ n.root = m.root /\ n.root # 0
    BY <1>1, <1>3, <1>6, ArgumentsSound
  <2> HIDE DEF n
  <2>2. n.root \in 0..NFrames
    BY <2>1, SoundParts, MachineParts
  <2>3. Roots \in [Pids -> 0..NFrames] /\ Roots[c] = procs[c].cr3 /\ Roots[c] # 0
    BY <1>1, <1>2, RootsTyped DEF MemInv
  <2> DEFINE roots == [Roots EXCEPT ![c] = 0]
  <2>4. Sound(DeallocUser(n, Roots[c]), roots) /\ DeallocUser(n, Roots[c]).root = n.root
    BY <1>2, <2>1, <2>3, DeallocSound
  <2>5. Sound(d, roots) /\ d.root = n.root /\ d.root # 0
    BY <2>1, <2>3, <2>4
  <2>6. roots \in [Pids -> 0..NFrames] /\ roots[c] = 0 /\ [roots EXCEPT ![c] = n.root] = [Roots EXCEPT ![c] = n.root]
    <3>1. 0 \in 0..NFrames
      BY NFramesAssumption
    <3>2. roots \in [Pids -> 0..NFrames] /\ roots[c] = 0 /\ \A p \in Pids : p # c => roots[p] = Roots[p]
      BY <1>2, <2>3, <3>1
    <3> DEFINE x == n.root
    <3> HIDE DEF x, roots
    <3>3. [roots EXCEPT ![c] = x] = [Roots EXCEPT ![c] = x]
      BY <1>2, <2>3, <3>2
    <3> QED BY <3>2, <3>3 DEF x
  <2> HIDE DEF d, roots
  <2>7. machine' = Dropped(d) /\ procs' = [procs EXCEPT ![c].cr3 = n.root] /\ cr3' = n.root
    BY <1>1, <1>6
  <2>8. Sound(machine', [Roots EXCEPT ![c] = n.root])
    <3>1. Sound(Dropped(d), [roots EXCEPT ![c] = d.root])
      BY <1>2, <2>5, <2>6, Adopted
    <3> QED BY <2>5, <2>6, <2>7, <3>1
  <2>9. machine'.root = 0 /\ machine'.ok
    BY <2>5, <2>7, SoundParts, DroppedParts
  <2> DEFINE entry == [procs[c] EXCEPT !.cr3 = n.root]
  <2>10. entry \in Entry /\ entry.state = "Alive" /\ entry.cr3 = n.root
    BY <1>1, <1>2, <2>2 DEF Entry
  <2>11. procs' = [procs EXCEPT ![c] = entry]
    BY <2>7
  <2> HIDE DEF entry
  <2>12. procs' \in [Pids -> Entry] /\ \A p \in Pids : procs'[p] = IF p = c THEN entry ELSE procs[p]
    BY <1>2, <2>10, <2>11
  <2>13. Roots' = [Roots EXCEPT ![c] = n.root]
    BY <2>10, <2>12 DEF Roots
  <2>14. \A p \in Pids : procs'[p].state = "Free" <=> procs'[p].cr3 = 0
    BY <2>1, <2>10, <2>12 DEF MemInv
  <2>15. \A p \in Pids : p >= next_pid' => procs'[p].state = "Free"
    BY <1>1, <1>2, <2>12 DEF MemInv
  <2>16. procs'[current_pid'].state # "Free" /\ cr3' = IF current_pid' = 0 THEN 0 ELSE procs'[current_pid'].cr3
    BY <1>1, <1>2, <2>7, <2>10, <2>12
  <2> QED BY <1>1, <1>4, <2>8, <2>9, <2>12, <2>13, <2>14, <2>15, <2>16 DEF MemInv
<1> QED BY <1>5, <1>6

(***************************************************************************)
(* The types hold in the last state of a behaviour that spoils memory,     *)
(* too: one word more in a frame.                                          *)
(***************************************************************************)
LEMMA TypesOfInv ==
  ASSUME MemInv, spoilt \in BOOLEAN
  PROVE  TypeOK
<1>1. machine \in Machines
  BY SoundParts DEF MemInv
<1>2. machine.mem \in [Frames -> [Indices -> Nat]]
  BY <1>1 DEF Machines, Memory, Words
<1>3. FreeFrames \subseteq Frames
  <2>1. machine.free_stack \in Seq(Frames)
    BY <1>1 DEF Machines
  <2> QED BY <2>1, ElementOfSeq, LenProperties DEF FreeFrames, ToSet
<1>4. \A p \in Pids : /\ procs[p].state \in {"Free", "Alive", "Zombie"}
                      /\ procs[p].parent \in 0..MaxPid
                      /\ procs[p].cr3 \in 0..NFrames
  BY DEF MemInv, Entry
<1> QED BY <1>2, <1>3, <1>4 DEF MemInv, TypeOK

LEMMA SpoiltTypes ==
  ASSUME MemInv, NEW m \in Machines, Spoil(m)
  PROVE  TypeOK'
<1>1. machine' = Dropped(m) /\ spoilt' = TRUE /\ procs' = procs /\ next_pid' = next_pid
      /\ current_pid' = current_pid /\ cr3' = cr3
  BY DEF Spoil, Done, Dropped
<1>2. machine'.mem = m.mem /\ machine'.free_stack = m.free_stack /\ machine'.root = 0 /\ machine'.ok
  BY <1>1 DEF Dropped, Machines
<1>3. machine'.mem \in [Frames -> [Indices -> Nat]]
  BY <1>2 DEF Machines, Memory, Words
<1>4. FreeFrames' \subseteq Frames
  <2>1. m.free_stack \in Seq(Frames)
    BY DEF Machines
  <2> QED BY <1>2, <2>1, ElementOfSeq, LenProperties DEF FreeFrames, ToSet
<1>5. \A p \in Pids : /\ procs'[p].state \in {"Free", "Alive", "Zombie"}
                      /\ procs'[p].parent \in 0..MaxPid
                      /\ procs'[p].cr3 \in 0..NFrames
  BY <1>1 DEF MemInv, Entry
<1>6. next_pid' \in 1 .. MaxPid + 1 /\ current_pid' \in 0..MaxPid
      /\ cr3' = IF current_pid' = 0 THEN 0 ELSE procs'[current_pid'].cr3
  BY <1>1 DEF MemInv
<1> QED BY <1>1, <1>2, <1>3, <1>4, <1>5, <1>6 DEF TypeOK

LEMMA NextTypes ==
  ASSUME MemInv, Next, spoilt'
  PROVE  TypeOK'
<1>1. machine \in Machines
  BY SoundParts DEF MemInv
<1>2. ~spoilt
  BY DEF Next, SpawnUserProcess, SysExec, Dispatch, SysWaitpid, SysFork, SysExit, UserWrite, Running
<1>3. ASSUME NEW image \in Images, SpawnUserProcess(image)
      PROVE  TypeOK'
  <2>1. Spoil(machine)
    BY <1>2, <1>3 DEF SpawnUserProcess, Enter
  <2> QED BY <1>1, <2>1, SpoiltTypes
<1>4. ASSUME NEW image \in Images, NEW argc \in ArgumentCounts, SysExec(image, argc)
      PROVE  TypeOK'
  <2> DEFINE m == LoadElfIntoNewSpace(machine, image)
  <2>1. Spoil(machine) \/ (InUserPart(image) /\ Spoil(PushArguments(m, argc)))
    BY <1>2, <1>4 DEF SysExec
  <2>2. CASE InUserPart(image) /\ Spoil(PushArguments(m, argc))
    <3>1. m \in Machines
      <4>1. Sound(machine, Roots) /\ machine.root = 0
        BY DEF MemInv
      <4>2. Sound(m, Roots)
        BY <2>2, <4>1, LoadBuilds, RootsTyped
      <4> HIDE DEF m
      <4> QED BY <4>2, SoundParts
    <3> HIDE DEF m
    <3>2. PushArguments(m, argc) \in Machines
      BY <3>1, PushParts
    <3> QED BY <2>2, <3>2, SpoiltTypes
  <2> HIDE DEF m
  <2> QED BY <1>1, <2>1, <2>2, SpoiltTypes
<1>5. spoilt' = spoilt \/ (\E image \in Images :
        SpawnUserProcess(image) \/ \E argc \in ArgumentCounts : SysExec(image, argc))
  BY DEF Next, Dispatch, SysWaitpid, SysFork, SysExit, UserWrite, Enter
<1> QED BY <1>2, <1>3, <1>4, <1>5

(***************************************************************************)
(* While nothing is spoilt MemInv holds: every step keeps it.              *)
(***************************************************************************)
LEMMA NextKeeps ==
  ASSUME MemInv, Next, ~spoilt'
  PROVE  MemInv'
<1>1. ASSUME NEW image \in Images, SpawnUserProcess(image)
      PROVE  MemInv'
  BY <1>1, SpawnKeeps
<1>2. ASSUME NEW image \in Images, NEW argc \in ArgumentCounts, SysExec(image, argc)
      PROVE  MemInv'
  BY <1>2, ExecKeeps
<1>3. ASSUME NEW p \in Pids, Dispatch(p)
      PROVE  MemInv'
  BY <1>3, DispatchKeeps
<1>4. ASSUME NEW p \in Pids, SysWaitpid(p)
      PROVE  MemInv'
  BY <1>4, WaitpidKeeps
<1>5. CASE SysFork
  BY <1>5, ForkKeeps
<1>6. CASE SysExit
  BY <1>6, ExitKeeps
<1>7. ASSUME NEW w \in Writes, UserWrite(w[1], w[2])
      PROVE  MemInv'
  <2>1. w[1] \in Vaddrs /\ w[2] \in Nat
    BY WritesAssumption
  <2> QED BY <1>7, <2>1, WriteKeeps
<1> QED BY <1>1, <1>2, <1>3, <1>4, <1>5, <1>6, <1>7 DEF Next

LEMMA SpoiltAgrees ==
  ASSUME Next
  PROVE  ~spoilt /\ (spoilt' = spoilt \/ spoilt' = TRUE)
<1>1. \/ \E image \in Images : SpawnUserProcess(image)
      \/ \E image \in Images, argc \in ArgumentCounts : SysExec(image, argc)
      \/ \E p \in Pids : Dispatch(p) \/ SysWaitpid(p)
      \/ SysFork \/ SysExit
      \/ \E w \in Writes : UserWrite(w[1], w[2])
  BY DEF Next
<1>2. \A image \in Images : SpawnUserProcess(image) => ~spoilt /\ (spoilt' = spoilt \/ spoilt' = TRUE)
  BY DEF SpawnUserProcess, Enter, Spoil
<1>3. \A image \in Images, argc \in ArgumentCounts :
        SysExec(image, argc) => ~spoilt /\ (spoilt' = spoilt \/ spoilt' = TRUE)
  BY DEF SysExec, Spoil, Running
<1>4. \A p \in Pids : Dispatch(p) \/ SysWaitpid(p) => ~spoilt /\ spoilt' = spoilt
  BY DEF Dispatch, SysWaitpid, Running
<1>5. SysFork \/ SysExit => ~spoilt /\ spoilt' = spoilt
  BY DEF SysFork, SysExit, Enter, Running
<1>6. \A w \in Writes : UserWrite(w[1], w[2]) => ~spoilt /\ spoilt' = spoilt
  BY DEF UserWrite, Running
<1> QED BY <1>1, <1>2, <1>3, <1>4, <1>5, <1>6

\* The inductive invariant.
Unspoilt == spoilt \in BOOLEAN /\ (spoilt => TypeOK) /\ (~spoilt => MemInv)

(***************************************************************************)
(* Unless an image or an argument block spoilt it, memory is as MemInv     *)
(* says: every frame of the allocator has its one tag.                     *)
(***************************************************************************)
THEOREM MemInvAlways == Spec => []Unspoilt
<1>1. Init => Unspoilt
  BY InitMemInv DEF Unspoilt, Init
<1>2. Unspoilt /\ [Next]_vars => Unspoilt'
  <2>1. ASSUME Unspoilt, Next
        PROVE  Unspoilt'
    <3>1. ~spoilt /\ spoilt' \in BOOLEAN /\ MemInv
      BY <2>1, SpoiltAgrees, Zenon DEF Unspoilt
    <3>2. CASE spoilt'
      BY <2>1, <3>1, <3>2, NextTypes DEF Unspoilt
    <3>3. CASE ~spoilt'
      BY <2>1, <3>1, <3>3, NextKeeps DEF Unspoilt
    <3> QED BY <3>2, <3>3
  <2>2. ASSUME Unspoilt, UNCHANGED vars
        PROVE  Unspoilt'
    <3>1. machine' = machine /\ procs' = procs /\ next_pid' = next_pid
          /\ current_pid' = current_pid /\ cr3' = cr3 /\ spoilt' = spoilt
      BY <2>2 DEF vars
    <3>2. Roots' = Roots
      BY <3>1 DEF Roots
    <3>3. ~spoilt => MemInv'
      BY <2>2, <3>1, <3>2 DEF MemInv, Unspoilt
    <3>4. spoilt => TypeOK'
      BY <2>2, <3>1 DEF TypeOK, FreeFrames, Unspoilt
    <3> QED BY <2>2, <3>1, <3>3, <3>4 DEF Unspoilt
  <2> QED BY <2>1, <2>2
<1> QED BY <1>1, <1>2, PTL DEF Spec

(***************************************************************************)
(* Between system calls no operation is half done, the free stack holds    *)
(* frames only, and CR3 is the PML4 of the current process.                *)
(***************************************************************************)
THEOREM MemoryTypes == Spec => []TypeOK
<1>1. Unspoilt => TypeOK
  BY TypesOfInv DEF Unspoilt
<1> QED BY <1>1, MemInvAlways, PTL

(***************************************************************************)
(* The four numbers of a use are its tag and its frame.                    *)
(***************************************************************************)
LEMMA UsesTagged ==
  ASSUME MemInv, NEW own, Owning(machine, Roots, own), NEW p \in InTable, NEW u \in Uses(p)
  PROVE  \E i, j \in Int, f \in Frames : u = <<p, i, j, f>> /\ own[f] = <<p, i, j>>
<1> DEFINE mem == machine.mem
           root == procs[p].cr3
           tables == {<<i, -1>> : i \in {i \in Indices : mem[root][i] \in Frames}}
           pages == UNION {{<<t[1], j>> : j \in {j \in Indices : mem[mem[root][t[1]]][j] # 0}} : t \in tables}
<1>1. p \in Pids /\ root = Roots[p] /\ root # 0
  BY RootsTyped DEF InTable, MemInv
<1>2. Space(mem, own, p, root)
  BY <1>1 DEF Owning, Spaces
<1>3. root \in Frames /\ own[root] = <<p, -1, -1>> /\ mem[root][W - 1] = NFrames + W
  BY <1>2 DEF Space
<1>4. NFrames + W \notin Frames /\ W \in Nat /\ W >= 3 /\ 0 \notin Frames
  BY NFramesAssumption, WAssumption DEF Frames
<1>5. ASSUME NEW i \in Indices, mem[root][i] \in Frames
      PROVE  Table(mem, own, p, i, mem[root][i]) /\ i \in Int
  <2>1. i # W - 1 /\ mem[root][i] # 0
    BY <1>3, <1>4, <1>5
  <2>2. i \in 0 .. W - 2 /\ i \in Int
    BY <1>4, <2>1 DEF Indices
  <2> QED BY <1>2, <2>1, <2>2 DEF Space
<1>6. CASE u = <<p, -1, -1, root>>
  BY <1>3, <1>6
<1>7. ASSUME NEW i \in Indices, mem[root][i] \in Frames, u = <<p, i, -1, mem[root][i]>>
      PROVE  \E k, j \in Int, f \in Frames : u = <<p, k, j, f>> /\ own[f] = <<p, k, j>>
  <2>1. Table(mem, own, p, i, mem[root][i]) /\ i \in Int /\ -1 \in Int
    BY <1>5, <1>7
  <2>2. own[mem[root][i]] = <<p, i, -1>>
    BY <2>1 DEF Table
  <2> QED BY <1>7, <2>1, <2>2
<1>8. ASSUME NEW i \in Indices, mem[root][i] \in Frames, NEW j \in Indices,
             mem[mem[root][i]][j] # 0, u = <<p, i, j, mem[mem[root][i]][j]>>
      PROVE  \E k, l \in Int, f \in Frames : u = <<p, k, l, f>> /\ own[f] = <<p, k, l>>
  <2>1. Table(mem, own, p, i, mem[root][i]) /\ i \in Int /\ j \in Int
    BY <1>5, <1>8, SMTT(30) DEF Indices
  <2> DEFINE f == mem[mem[root][i]][j]
  <2>2. f \in Frames /\ own[f] = <<p, i, j>> /\ u = <<p, i, j, f>>
    BY <1>8, <2>1 DEF Table
  <2> HIDE DEF f
  <2> QED BY <2>1, <2>2
<1>9. \/ u = <<p, -1, -1, root>>
      \/ \E i \in Indices : mem[root][i] \in Frames /\ u = <<p, i, -1, mem[root][i]>>
      \/ \E i, j \in Indices : /\ mem[root][i] \in Frames /\ mem[mem[root][i]][j] # 0
                               /\ u = <<p, i, j, mem[mem[root][i]][j]>>
  <2>1. \/ u = <<p, -1, -1, root>>
        \/ \E t \in tables : u = <<p, t[1], -1, mem[root][t[1]]>>
        \/ \E g \in pages : u = <<p, g[1], g[2], mem[mem[root][g[1]]][g[2]]>>
    BY DEF Uses
  <2>2. \A t \in tables : t[1] \in Indices /\ mem[root][t[1]] \in Frames
    OBVIOUS
  <2>3. \A g \in pages : \E t \in tables, j \in Indices : g = <<t[1], j>> /\ mem[mem[root][t[1]]][j] # 0
    OBVIOUS
  <2> HIDE DEF tables, pages, mem, root
  <2>4. \A g \in pages : /\ g[1] \in Indices /\ g[2] \in Indices /\ mem[root][g[1]] \in Frames
                         /\ mem[mem[root][g[1]]][g[2]] # 0
    BY <2>2, <2>3
  <2> QED BY <2>1, <2>2, <2>4
<1> HIDE DEF mem, root
<1> QED BY <1>6, <1>7, <1>8, <1>9

(***************************************************************************)
(* Every frame has one use: it is once on the free stack, or the PML4, a   *)
(* table or a page of one process at one place, whatever fails halfway and *)
(* however the spaces are built, copied, replaced and freed by             *)
(* new_user, map_user_page, clone_user_space and dealloc_user.  This ends  *)
(* with an image linked into the kernel's part or an argument block that   *)
(* brings a non-zero word into a table or leaves the frames.               *)
(***************************************************************************)
THEOREM FramesHaveOneUse == Spec => []OneUsePerFrame
<1>1. Unspoilt => OneUsePerFrame
  <2> SUFFICES ASSUME MemInv PROVE OneUsePerFrame
    BY DEF Unspoilt, OneUsePerFrame
  <2> DEFINE uses == UNION {Uses(p) : p \in InTable}
             stack == machine.free_stack
  <2>1. PICK own : Owning(machine, Roots, own)
    BY DEF MemInv, Sound
  <2>2. stack \in Seq(Frames) /\ Frees(stack, own)
    BY <2>1 DEF Owning, Machines
  <2>3. \A n \in DOMAIN stack : stack[n] \in Frames /\ own[stack[n]] = <<-1, n, 0>>
    BY <2>2, ElementOfSeq, LenProperties DEF Frees
  <2>4. IsInjective(stack)
    BY <2>3 DEF IsInjective
  <2>5. \A f \in FreeFrames : f \in Frames /\ own[f][1] = -1
    <3> SUFFICES ASSUME NEW f \in FreeFrames
                 PROVE  f \in Frames /\ own[f][1] = -1
      OBVIOUS
    <3>1. PICK n \in DOMAIN stack : f = stack[n]
      BY DEF FreeFrames, ToSet
    <3>2. stack[n] \in Frames /\ own[stack[n]] = <<-1, n, 0>>
      BY <2>3
    <3> QED BY <3>1, <3>2
  <2>6. \A u \in uses : \E p \in Pids, i, j \in Int, f \in Frames :
          u = <<p, i, j, f>> /\ own[f] = <<p, i, j>>
    <3> SUFFICES ASSUME NEW p \in InTable, NEW u \in Uses(p)
                 PROVE  \E q \in Pids, i, j \in Int, f \in Frames :
                          u = <<q, i, j, f>> /\ own[f] = <<q, i, j>>
      OBVIOUS
    <3>1. p \in Pids
      BY DEF InTable
    <3> QED BY <2>1, <3>1, UsesTagged
  <2> HIDE DEF uses
  <2>7. \A u, w \in uses : u[4] = w[4] => u = w
    <3> SUFFICES ASSUME NEW u \in uses, NEW w \in uses, u[4] = w[4]
                 PROVE  u = w
      OBVIOUS
    <3>1. PICK p \in Pids, i, j \in Int, f \in Frames : u = <<p, i, j, f>> /\ own[f] = <<p, i, j>>
      BY <2>6
    <3>2. PICK q \in Pids, k, l \in Int, h \in Frames : w = <<q, k, l, h>> /\ own[h] = <<q, k, l>>
      BY <2>6
    <3>3. f = h
      BY <3>1, <3>2
    <3>4. p = q /\ i = k /\ j = l
      BY <3>1, <3>2, <3>3
    <3> QED BY <3>1, <3>2, <3>3, <3>4
  <2>8. \A u \in uses : u[4] \in Frames /\ own[u[4]][1] \in Pids
    BY <2>6
  <2>9. -1 \notin Pids
    BY DEF Pids
  <2>10. UsedFrames \intersect FreeFrames = {} /\ UsedFrames \subseteq Frames
    BY <2>5, <2>8, <2>9 DEF UsedFrames, uses
  <2>11. cr3 \notin FreeFrames
    <3>1. CASE current_pid = 0
      <4>1. cr3 = 0 /\ 0 \notin Frames
        BY <3>1 DEF MemInv, Frames
      <4> QED BY <2>5, <4>1
    <3>2. CASE current_pid # 0
      <4>1. current_pid \in Pids /\ cr3 = Roots[current_pid] /\ cr3 # 0
        BY <3>2, RootsTyped
      <4>2. Space(machine.mem, own, current_pid, cr3)
        BY <2>1, <4>1 DEF Owning, Spaces
      <4>3. own[cr3][1] = current_pid
        BY <4>2 DEF Space
      <4> QED BY <2>5, <2>9, <4>1, <4>3
    <3> QED BY <3>1, <3>2
  <2> QED BY <2>4, <2>7, <2>10, <2>11 DEF OneUsePerFrame, uses
<1> QED BY <1>1, MemInvAlways, PTL

(***************************************************************************)
(* The kernel is mapped in every address space, also where new_user copied *)
(* its entries from the PML4 of a process, and after the argument block of *)
(* exec was written to a frame of somebody else, until that puts a         *)
(* non-zero word into a table.                                             *)
(***************************************************************************)
THEOREM KernelStaysMapped == Spec => []KernelMapped
<1>1. Unspoilt => KernelMapped
  <2> SUFFICES ASSUME MemInv, NEW p \in InTable
               PROVE  machine.mem[procs[p].cr3][W - 1] = BootPml4[W - 1]
    BY DEF KernelMapped, Unspoilt
  <2>1. PICK own : Owning(machine, Roots, own)
    BY DEF MemInv, Sound
  <2>2. p \in Pids /\ procs[p].cr3 = Roots[p] /\ Roots[p] # 0
    BY RootsTyped DEF InTable, MemInv
  <2>3. Space(machine.mem, own, p, Roots[p])
    BY <2>1, <2>2 DEF Owning, Spaces
  <2>4. BootPml4[W - 1] = NFrames + W
    BY WAssumption, NFramesAssumption DEF BootPml4, Indices, UserRegion
  <2> QED BY <2>2, <2>3, <2>4 DEF Space
<1> QED BY <1>1, MemInvAlways, PTL


-----------------------------------------------------------------------------
(***************************************************************************)
(* The contents of a space, page by page; View is the same by address.     *)
(***************************************************************************)
Gone  == [i \in Indices |-> Unmapped]
Empty == [page \in Pages |-> Gone]

PageAt(mem, root, page) ==
  IF Translate(mem, root, page) = 0 THEN Gone ELSE mem[Translate(mem, root, page)]

Content(mem, root) == [page \in Pages |-> PageAt(mem, root, page)]

SeenAs(mem, roots, views) ==
  \A p \in Pids : roots[p] # 0 => Content(mem, roots[p]) = views[p]

SameFrames(mem, mem2, roots) ==
  \A p \in Pids, page \in Pages : roots[p] # 0 =>
    Translate(mem2, roots[p], page) = Translate(mem, roots[p], page)

\* The operation has not disturbed anybody, and its own space holds content.
Shows(m, roots, views, content) ==
  /\ Building(m, roots)
  /\ SeenAs(m.mem, roots, views)
  /\ m.ok => Content(m.mem, m.root) = content

LEMMA SamePage ==
  ASSUME NEW a \in Nat, NEW b \in Nat, a \div W = b \div W, a % W = b % W
  PROVE  a = b
<1>1. W \in Nat \ {0}
  BY WAssumption
<1>2. a = W * (a \div W) + (a % W) /\ b = W * (b \div W) + (b % W)
  BY <1>1
<1> QED BY <1>2

LEMMA UserPagesArePages ==
  ASSUME NEW page \in UserPages
  PROVE  page \in Pages
<1> DEFINE i == page \div W
           j == page % W
<1>1. W \in Nat /\ W >= 3 /\ page \in Nat /\ i \in 0 .. W - 2 /\ j \in 0 .. W - 1
  BY WAssumption, UserPagesIndexed DEF Indices
<1>2. page = W * i + j
  BY <1>1
<1> HIDE DEF i, j
<1>3. W * i <= W * (W - 1) - W
  <2>1. W * i <= W * (W - 2)
    BY <1>1
  <2>2. W * (W - 2) = W * (W - 1) - W
    BY <1>1
  <2> QED BY <2>1, <2>2
<1>4. W * (W - 1) = W * W - W
  BY <1>1
<1>5. W * i \in Nat /\ W * W \in Nat /\ W * (W - 1) \in Int
  BY <1>1
<1>6. page <= W * W - 1
  BY <1>1, <1>2, <1>3, <1>4, <1>5
<1> QED BY <1>1, <1>5, <1>6 DEF Pages

LEMMA ViewOfContent ==
  ASSUME NEW mem, NEW root
  PROVE  View(mem, root) = [v \in Vaddrs |-> Content(mem, root)[v \div W][v % W]]
<1> SUFFICES ASSUME NEW v \in Vaddrs
             PROVE  (IF Translate(mem, root, v \div W) = 0 THEN Unmapped
                     ELSE mem[Translate(mem, root, v \div W)][v % W])
                    = Content(mem, root)[v \div W][v % W]
  BY DEF View
<1> DEFINE page == v \div W
           i == v % W
<1>1. page \in Pages /\ i \in Indices
  BY VaddrsIndexed
<1> HIDE DEF page, i
<1>2. Content(mem, root)[page] = PageAt(mem, root, page)
  BY <1>1 DEF Content
<1>3. Gone[i] = Unmapped
  BY <1>1 DEF Gone
<1> QED BY <1>2, <1>3 DEF PageAt, page, i

(***************************************************************************)
(* A space is seen as before when its frames are as before.                *)
(***************************************************************************)
LEMMA ContentKept ==
  ASSUME NEW mem, NEW own, NEW p \in Int, NEW r, Space(mem, own, p, r), NEW mem2,
         \A g \in Frames : own[g][1] = p => mem2[g] = mem[g]
  PROVE  /\ \A page \in Pages : Translate(mem2, r, page) = Translate(mem, r, page)
         /\ Content(mem2, r) = Content(mem, r)
<1>1. r \in Frames /\ mem2[r] = mem[r] /\ mem[r][W - 1] = NFrames + W
  BY DEF Space
<1>2. W \in Nat /\ W >= 3 /\ NFrames \in Nat
  BY WAssumption, NFramesAssumption
<1>3. ASSUME NEW page \in Pages
      PROVE  /\ Translate(mem2, r, page) = Translate(mem, r, page)
             /\ PageAt(mem2, r, page) = PageAt(mem, r, page)
  <2> DEFINE i == page \div W
             j == page % W
             t == mem[r][i]
  <2>1. i \in Indices /\ j \in Indices
    BY PagesIndexed
  <2>2. Translate(mem2, r, page) = Translate(mem, r, page)
    <3>1. CASE t \notin Frames
      BY <1>1, <3>1 DEF Translate
    <3>2. CASE t \in Frames
      <4>1. i \in 0 .. W - 2 /\ t # 0
        <5>1. t # NFrames + W /\ t # 0
          BY <1>2, <3>2 DEF Frames
        <5> HIDE DEF i
        <5>2. i # W - 1
          BY <1>1, <5>1
        <5> QED BY <1>2, <2>1, <5>1, <5>2 DEF Indices
      <4> HIDE DEF i
      <4>2. own[t] = <<p, i, -1>>
        BY <4>1 DEF Space, Table
      <4>3. mem2[t] = mem[t]
        BY <3>2, <4>2
      <4> QED BY <1>1, <3>2, <4>3 DEF Translate, i
    <3> QED BY <3>1, <3>2
  <2>3. Translate(mem, r, page) # 0 =>
          mem2[Translate(mem, r, page)] = mem[Translate(mem, r, page)]
    <3> DEFINE f == Translate(mem, r, page)
    <3> SUFFICES ASSUME f # 0 PROVE mem2[f] = mem[f]
      OBVIOUS
    <3>1. f \in Frames /\ own[f] = <<p, i, j>>
      BY <2>1, TranslateOwns
    <3> HIDE DEF f
    <3> QED BY <3>1
  <2> QED BY <2>2, <2>3 DEF PageAt
<1> QED BY <1>3 DEF Content

LEMMA OthersKept ==
  ASSUME NEW m, NEW roots, NEW own, Owning(m, roots, own), NEW mem2,
         \A g \in Frames : own[g][1] \in Pids => mem2[g] = m.mem[g],
         NEW views, SeenAs(m.mem, roots, views)
  PROVE  SameFrames(m.mem, mem2, roots) /\ SeenAs(mem2, roots, views)
<1>1. ASSUME NEW p \in Pids, roots[p] # 0
      PROVE  /\ \A page \in Pages : Translate(mem2, roots[p], page) = Translate(m.mem, roots[p], page)
             /\ Content(mem2, roots[p]) = Content(m.mem, roots[p])
  <2> DEFINE mem == m.mem
             r == roots[p]
  <2>1. Space(mem, own, p, r) /\ p \in Int
    BY <1>1 DEF Owning, Spaces, Pids
  <2>2. \A g \in Frames : own[g][1] = p => mem2[g] = mem[g]
    OBVIOUS
  <2> HIDE DEF mem, r
  <2>3. /\ \A page \in Pages : Translate(mem2, r, page) = Translate(mem, r, page)
        /\ Content(mem2, r) = Content(mem, r)
    BY <2>1, <2>2, ContentKept
  <2> QED BY <2>3 DEF mem, r
<1> QED BY <1>1 DEF SameFrames, SeenAs

(***************************************************************************)
(* new_user: nothing is mapped.                                            *)
(***************************************************************************)
LEMMA NewUserShows ==
  ASSUME NEW m, NEW roots, Sound(m, roots), m.root = 0,
         NEW active, active = 0 \/ \E p \in Pids : roots[p] = active,
         NEW views, SeenAs(m.mem, roots, views)
  PROVE  Shows(NewUser(m, active), roots, views, Empty)
<1> DEFINE new == NewUser(m, active)
<1>1. Building(new, roots)
  BY NewUserBuilds
<1>2. PICK own : Owning(m, roots, own)
  BY DEF Sound
<1>3. m \in Machines
  BY <1>2 DEF Owning
<1>4. CASE NoFrames(m)
  <2>1. new = Fail(m) /\ Fail(m).mem = m.mem /\ ~Fail(m).ok
    BY <1>2, <1>4, FailOwns DEF NewUser
  <2> HIDE DEF new
  <2> QED BY <1>1, <2>1 DEF Shows, new
<1>5. CASE ~NoFrames(m)
  <2> DEFINE f == TopFrame(m)
             a == AllocateFrame(m)
             n == [a EXCEPT !.root = f]
             pml4 == KernelEntries(Pml4At(n, active))
  <2>1. f \in Frames /\ own[f][1] = -1 /\ a.mem = [m.mem EXCEPT ![f] = Zeroes]
        /\ Owning(a, roots, [own EXCEPT ![f] = Lost])
    BY <1>2, <1>5, AllocOwns
  <2>2. a \in Machines
    BY <2>1 DEF Owning
  <2> HIDE DEF a, f
  <2>3. n.mem = a.mem /\ n.root = f
    BY <2>2 DEF Machines
  <2>4. new = [n EXCEPT !.mem[n.root] = pml4]
    BY <1>5 DEF NewUser, a, f
  <2>5. new.mem = [a.mem EXCEPT ![f] = pml4] /\ new.root = f
    BY <2>2, <2>3, <2>4 DEF Machines
  <2>6. \A i \in Indices : pml4[i] \notin Frames
    BY NFramesAssumption DEF KernelEntries, Frames
  <2> HIDE DEF new, n, pml4
  <2>7. new.mem[f] = pml4 /\ \A g \in Frames : g # f => new.mem[g] = m.mem[g]
    BY <1>3, <2>1, <2>2, <2>5 DEF Machines, Memory
  <2>8. SeenAs(new.mem, roots, views)
    <3>1. \A g \in Frames : own[g][1] \in Pids => new.mem[g] = m.mem[g]
      BY <2>1, <2>7 DEF Pids
    <3> QED BY <1>2, <3>1, OthersKept
  <2>9. Content(new.mem, new.root) = Empty
    <3>1. ASSUME NEW page \in Pages
          PROVE  PageAt(new.mem, f, page) = Gone
      <4>1. page \div W \in Indices
        BY PagesIndexed
      <4>2. new.mem[f][page \div W] \notin Frames
        BY <2>6, <2>7, <4>1
      <4> QED BY <4>2 DEF Translate, PageAt
    <3> QED BY <2>5, <3>1 DEF Content, Empty
  <2> QED BY <1>1, <2>8, <2>9 DEF Shows, new
<1> QED BY <1>4, <1>5


(***************************************************************************)
(* map_user_page, where it succeeds: the page was not mapped and now it is *)
(* zero.  The table t is the one that was there or a fresh one.            *)
(***************************************************************************)
LEMMA MapContent ==
  ASSUME NEW mem, NEW own, NEW r, Space(mem, own, 0, r), NEW page \in UserPages,
         NEW f \in Frames, own[f] = Lost, mem[f] = Zeroes,
         NEW t \in Frames, t # f, t # r,
         NEW i, i = page \div W, NEW j, j = page % W,
         \/ mem[r][i] = 0 /\ own[t][1] = -1
         \/ mem[r][i] = t /\ mem[t][j] = 0,
         NEW mem2,
         \A k \in Indices : mem2[r][k] = IF k = i THEN t ELSE mem[r][k],
         \A k \in Indices : mem2[t][k] = IF k = j THEN f ELSE IF mem[r][i] = 0 THEN 0 ELSE mem[t][k],
         \A g \in Frames : g # r /\ g # t => mem2[g] = mem[g]
  PROVE  /\ Content(mem, r)[page] = Gone
         /\ Content(mem2, r) = [Content(mem, r) EXCEPT ![page] = Zeroes]
<1>1. page \in Pages /\ page \in Nat /\ i \in 0 .. W - 2 /\ i \in Indices /\ j \in Indices
  BY UserPagesArePages, UserPagesIndexed
<1>2. W \in Nat /\ W >= 3 /\ NFrames \in Nat /\ 0 \notin Frames
  BY WAssumption, NFramesAssumption DEF Frames
<1>3. r \in Frames /\ own[r] = <<0, -1, -1>> /\ mem[r][W - 1] = NFrames + W /\ r # f
  BY DEF Space, Lost
<1>4. ASSUME NEW k \in Indices, mem[r][k] \in Frames
      PROVE  Table(mem, own, 0, k, mem[r][k]) /\ k # -1
  <2>1. mem[r][k] # 0 /\ k # W - 1
    BY <1>2, <1>3, <1>4 DEF Frames
  <2>2. k \in 0 .. W - 2 /\ k # -1
    BY <1>2, <2>1 DEF Indices
  <2> QED BY <2>1, <2>2 DEF Space
<1>5. own[t][1] = -1 \/ own[t] = <<0, i, -1>>
  <2>1. CASE mem[r][i] = t
    BY <1>1, <1>4, <2>1 DEF Table
  <2> QED BY <2>1
<1>6. Translate(mem, r, page) = 0
  <2>1. CASE mem[r][i] = 0
    BY <1>2, <2>1 DEF Translate
  <2>2. CASE mem[r][i] = t /\ mem[t][j] = 0
    BY <2>2 DEF Translate
  <2> QED BY <2>1, <2>2
<1>7. PageAt(mem2, r, page) = Zeroes
  <2>1. mem2[r][i] = t /\ mem2[t][j] = f
    BY <1>1
  <2>2. Translate(mem2, r, page) = f
    BY <2>1 DEF Translate
  <2>3. mem2[f] = Zeroes /\ f # 0
    BY <1>2, <1>3
  <2> QED BY <2>2, <2>3 DEF PageAt
\* A page of the space that was mapped before is in a frame of its own.
<1>8. ASSUME NEW k \in Indices, NEW l \in Indices, NEW u \in Frames, Table(mem, own, 0, k, u), mem[u][l] # 0
      PROVE  mem2[mem[u][l]] = mem[mem[u][l]]
  <2> DEFINE x == mem[u][l]
  <2>1. x \in Frames /\ own[x] = <<0, k, l>>
    BY <1>8 DEF Table
  <2>2. l # -1
    BY DEF Indices
  <2> HIDE DEF x
  <2>3. x # r /\ x # t
    BY <1>3, <1>5, <2>1, <2>2
  <2> QED BY <2>1, <2>3 DEF x
<1>9. ASSUME NEW pg \in Pages, pg # page
      PROVE  PageAt(mem2, r, pg) = PageAt(mem, r, pg)
  <2> DEFINE k == pg \div W
             l == pg % W
             u == mem[r][k]
  <2>1. k \in Indices /\ l \in Indices /\ pg \in Nat
    BY PagesIndexed
  <2>2. ~(k = i /\ l = j)
    BY <1>1, <1>9, <2>1, SamePage
  <2>3. Translate(mem2, r, pg) = IF mem2[r][k] \notin Frames THEN 0 ELSE mem2[mem2[r][k]][l]
    BY DEF Translate
  <2>4. Translate(mem, r, pg) = IF u \notin Frames THEN 0 ELSE mem[u][l]
    BY DEF Translate
  <2> HIDE DEF k, l
  <2>5. CASE u \notin Frames /\ k # i
    BY <2>1, <2>3, <2>4, <2>5 DEF PageAt
  <2>6. CASE u \in Frames /\ k # i
    <3>1. Table(mem, own, 0, k, u) /\ k # -1
      BY <1>4, <2>1, <2>6
    <3>2. u # r /\ u # t
      BY <1>3, <1>5, <2>6, <3>1 DEF Table
    <3>3. mem2[u] = mem[u]
      BY <2>6, <3>2
    <3>4. Translate(mem2, r, pg) = mem[u][l] /\ Translate(mem, r, pg) = mem[u][l]
      BY <2>1, <2>3, <2>4, <2>6, <3>3
    <3>5. mem[u][l] # 0 => mem2[mem[u][l]] = mem[mem[u][l]]
      BY <1>8, <2>1, <2>6, <3>1
    <3> QED BY <3>4, <3>5 DEF PageAt
  <2>7. CASE k = i
    <3>1. l # j /\ Translate(mem2, r, pg) = mem2[t][l]
      BY <2>1, <2>2, <2>3, <2>7
    <3>2. CASE mem[r][i] = 0
      BY <1>2, <2>1, <2>4, <2>7, <3>1, <3>2 DEF PageAt
    <3>3. CASE mem[r][i] # 0
      <4>1. u = t /\ Table(mem, own, 0, k, u)
        BY <1>1, <1>4, <2>7, <3>3
      <4>2. Translate(mem2, r, pg) = mem[u][l] /\ Translate(mem, r, pg) = mem[u][l]
        BY <2>1, <2>4, <3>1, <3>3, <4>1
      <4>3. mem[u][l] # 0 => mem2[mem[u][l]] = mem[mem[u][l]]
        BY <1>8, <2>1, <4>1
      <4> QED BY <4>2, <4>3 DEF PageAt
    <3> QED BY <3>2, <3>3
  <2> QED BY <2>5, <2>6, <2>7
<1>10. Content(mem, r)[page] = Gone
  BY <1>1, <1>6 DEF Content, PageAt
<1>11. Content(mem2, r) = [Content(mem, r) EXCEPT ![page] = Zeroes]
  <2>1. \A pg \in Pages : PageAt(mem2, r, pg) = IF pg = page THEN Zeroes ELSE PageAt(mem, r, pg)
    BY <1>7, <1>9
  <2> QED BY <1>1, <2>1 DEF Content
<1> QED BY <1>10, <1>11

LEMMA MapShows ==
  ASSUME NEW m, NEW roots, NEW views, NEW content, Shows(m, roots, views, content),
         NEW page \in UserPages, NEW n, n = MapUserPageAlloc(m, page)
  PROVE  /\ Shows(n, roots, views, [content EXCEPT ![page] = Zeroes])
         /\ SameFrames(m.mem, n.mem, roots)
         /\ n.ok => m.ok /\ content[page] = Gone
<1> DEFINE r == m.root
           i == page \div W
           j == page % W
           new == [content EXCEPT ![page] = Zeroes]
<1>1. page \in Pages /\ page \in Nat /\ i \in 0 .. W - 2 /\ i \in Indices /\ j \in Indices
  BY UserPagesArePages, UserPagesIndexed
<1>2. Building(n, roots) /\ (n.ok => m.ok)
  BY <1>1, MapAllocBuilds DEF Shows
<1>3. PICK own : Owning(m, roots, own)
  BY DEF Shows, Building, Sound
<1>4. m \in Machines /\ SeenAs(m.mem, roots, views)
  BY <1>3 DEF Owning, Shows
<1>5. SameFrames(m.mem, m.mem, roots)
  BY DEF SameFrames
<1>6. CASE ~m.ok \/ NoFrames(m)
  <2>1. n = Fail(m)
    BY <1>6 DEF MapUserPageAlloc
  <2>2. n.mem = m.mem /\ ~n.ok
    BY <1>3, <2>1, FailOwns
  <2> QED BY <1>2, <1>4, <1>5, <2>2 DEF Shows
<1>7. CASE m.ok /\ ~NoFrames(m)
  <2> DEFINE f == TopFrame(m)
             a == AllocateFrame(m)
             own1 == [own EXCEPT ![f] = Lost]
             e == a.mem[r][i]
  <2>1. f \in Frames /\ own[f][1] = -1 /\ a.mem = [m.mem EXCEPT ![f] = Zeroes]
        /\ a.root = r /\ a.ok /\ Owning(a, roots, own1)
    BY <1>3, <1>7, AllocOwns
  <2>2. n = MapUserPage(a, page, f)
    BY <1>7 DEF MapUserPageAlloc
  <2>3. r # 0 /\ Content(m.mem, r) = content
    BY <1>7 DEF Shows, Building
  <2> HIDE DEF a, f, r, i, j
  <2>4. a \in Machines /\ Space(a.mem, own1, 0, r) /\ own \in [Frames -> Tags]
    BY <1>3, <2>1, <2>3 DEF Owning
  <2>5. own1[f] = Lost /\ (\A g \in Frames : g # f => own1[g] = own[g])
        /\ a.mem[f] = Zeroes /\ (\A g \in Frames : g # f => a.mem[g] = m.mem[g])
    BY <1>4, <2>1, <2>4 DEF Machines, Memory
  <2>6. Content(a.mem, r) = content
    <3>1. 0 \in Int /\ Space(m.mem, own, 0, r)
      BY <1>3, <2>3 DEF Owning, r
    <3>2. \A g \in Frames : own[g][1] = 0 => a.mem[g] = m.mem[g]
      BY <2>1, <2>5
    <3> QED BY <2>3, <3>1, <3>2, ContentKept
  <2>7. r \in Frames /\ own1[r] = <<0, -1, -1>> /\ r # f
    BY <2>4, <2>5 DEF Space, Lost
  <2>8. ASSUME NEW mem2, \A g \in Frames : own1[g][1] \in Pids => mem2[g] = a.mem[g]
        PROVE  SameFrames(m.mem, mem2, roots) /\ SeenAs(mem2, roots, views)
    <3>1. \A g \in Frames : own[g][1] \in Pids => mem2[g] = m.mem[g]
      BY <2>1, <2>5, <2>8 DEF Pids
    <3> QED BY <1>3, <1>4, <3>1, OthersKept
  <2> DEFINE Mapped(t) ==
               /\ t \in Frames /\ t # f /\ t # r
               /\ \/ a.mem[r][i] = 0 /\ own1[t][1] = -1
                  \/ a.mem[r][i] = t /\ own1[t][1] = 0 /\ a.mem[t][j] = 0
               /\ \A k \in Indices : n.mem[r][k] = IF k = i THEN t ELSE a.mem[r][k]
               /\ \A k \in Indices :
                    n.mem[t][k] = IF k = j THEN f ELSE IF a.mem[r][i] = 0 THEN 0 ELSE a.mem[t][k]
               /\ \A g \in Frames : g # r /\ g # t => n.mem[g] = a.mem[g]
               /\ n.root = r
  <2>9. ASSUME NEW t, Mapped(t)
        PROVE  /\ Shows(n, roots, views, new) /\ SameFrames(m.mem, n.mem, roots)
               /\ content[page] = Gone
    <3>1. \A g \in Frames : own1[g][1] \in Pids => n.mem[g] = a.mem[g]
      BY <2>7, <2>9 DEF Pids
    <3>2. SameFrames(m.mem, n.mem, roots) /\ SeenAs(n.mem, roots, views)
      BY <2>8, <3>1
    <3>3. /\ Content(a.mem, r)[page] = Gone
          /\ Content(n.mem, r) = [Content(a.mem, r) EXCEPT ![page] = Zeroes]
      <4> HIDE DEF own1
      <4> DEFINE mem == a.mem
                 mem2 == n.mem
      <4>1. i = page \div W /\ j = page % W
        BY DEF i, j
      <4>2. Space(mem, own1, 0, r) /\ f \in Frames /\ own1[f] = Lost /\ mem[f] = Zeroes
        BY <2>1, <2>4, <2>5
      <4>3. /\ t \in Frames /\ t # f /\ t # r
            /\ \/ mem[r][i] = 0 /\ own1[t][1] = -1
               \/ mem[r][i] = t /\ mem[t][j] = 0
            /\ \A k \in Indices : mem2[r][k] = IF k = i THEN t ELSE mem[r][k]
            /\ \A k \in Indices :
                 mem2[t][k] = IF k = j THEN f ELSE IF mem[r][i] = 0 THEN 0 ELSE mem[t][k]
            /\ \A g \in Frames : g # r /\ g # t => mem2[g] = mem[g]
        BY <2>9, Zenon
      <4> HIDE DEF mem, mem2, Mapped
      <4>4. /\ Content(mem, r)[page] = Gone
            /\ Content(mem2, r) = [Content(mem, r) EXCEPT ![page] = Zeroes]
        BY <4>1, <4>2, <4>3, MapContent
      <4> QED BY <4>4 DEF mem, mem2
    <3> QED BY <1>2, <2>6, <2>9, <3>2, <3>3 DEF Shows
  <2> HIDE DEF own1, Mapped
  <2>10. CASE e # 0
    <3>1. TableFor(a, page) = a
      BY <2>1, <2>10 DEF TableFor, i
    <3>2. Table(a.mem, own1, 0, i, e)
      BY <1>1, <2>4, <2>10 DEF Space, i
    <3>3. e \in Frames /\ own1[e] = <<0, i, -1>> /\ i # -1
      <4>1. i # -1
        BY <1>1 DEF i
      <4> HIDE DEF e
      <4> QED BY <3>2, <4>1 DEF Table
    <3> HIDE DEF e
    <3>4. CASE a.mem[e][j] # 0
      <4>1. n = Fail(a)
        BY <2>1, <2>2, <3>1, <3>4 DEF MapUserPage, e, i, j
      <4>2. n.mem = a.mem /\ ~n.ok
        BY <2>1, <4>1, FailOwns
      <4> QED BY <1>2, <2>8, <4>2 DEF Shows
    <3>5. CASE a.mem[e][j] = 0
      <4>1. n = [a EXCEPT !.mem[e][j] = f]
        BY <2>1, <2>2, <3>1, <3>5 DEF MapUserPage, e, i, j
      <4>2. n.mem = [a.mem EXCEPT ![e] = [a.mem[e] EXCEPT ![j] = f]] /\ n.root = r /\ n.ok
        BY <2>1, <2>4, <4>1 DEF Machines
      <4>3. a.mem \in Memory
        BY <2>4 DEF Machines
      <4>4. e # f /\ e # r
        BY <2>5, <2>7, <3>3 DEF Lost
      <4>5. /\ \A k \in Indices : n.mem[e][k] = IF k = j THEN f ELSE a.mem[e][k]
            /\ \A g \in Frames : g # e => n.mem[g] = a.mem[g]
        BY <1>1, <3>3, <4>2, <4>3 DEF Memory, Words, j
      <4>6. \A k \in Indices : n.mem[r][k] = IF k = i THEN e ELSE a.mem[r][k]
        BY <2>7, <4>4, <4>5 DEF e
      <4>7. Mapped(e)
        BY <2>10, <3>3, <3>5, <4>2, <4>4, <4>5, <4>6, SMTT(60) DEF Mapped, e
      <4> QED BY <1>2, <2>9, <4>7
    <3> QED BY <3>4, <3>5
  <2>11. CASE e = 0 /\ NoFrames(a)
    <3>1. TableFor(a, page) = Fail(a)
      BY <2>1, <2>11 DEF TableFor, i
    <3>2. ~Fail(a).ok /\ Fail(a).mem = a.mem /\ Owning(Fail(a), roots, own1)
      BY <2>1, FailOwns DEF own1
    <3>3. n = Fail(Fail(a))
      BY <2>2, <3>1, <3>2 DEF MapUserPage
    <3>4. n.mem = a.mem /\ ~n.ok
      BY <3>2, <3>3, FailOwns
    <3> QED BY <1>2, <2>8, <3>4 DEF Shows
  <2>12. CASE e = 0 /\ ~NoFrames(a)
    <3> DEFINE t == TopFrame(a)
               b == AllocateFrame(a)
               d == [b EXCEPT !.mem[r][i] = t]
    <3>1. t \in Frames /\ own1[t][1] = -1 /\ b.mem = [a.mem EXCEPT ![t] = Zeroes]
          /\ b.root = r /\ b.ok /\ b \in Machines
      <4>1. t \in Frames /\ own1[t][1] = -1 /\ b.mem = [a.mem EXCEPT ![t] = Zeroes]
            /\ b.root = a.root /\ b.ok = a.ok /\ Owning(b, roots, [own1 EXCEPT ![t] = Lost])
        BY <2>1, <2>12, AllocOwns DEF own1
      <4> QED BY <2>1, <4>1 DEF Owning
    <3>2. TableFor(a, page) = d
      BY <2>1, <2>12 DEF TableFor, i
    <3> HIDE DEF t, b
    <3>3. t # f /\ t # r
      BY <2>5, <2>7, <3>1 DEF Lost
    <3>4. d.mem = [b.mem EXCEPT ![r] = [b.mem[r] EXCEPT ![i] = t]] /\ d.root = r /\ d.ok
          /\ d.free_stack = b.free_stack
      BY <3>1 DEF Machines
    <3>5. a.mem \in Memory
      BY <2>4 DEF Machines
    <3>6. /\ \A k \in Indices : d.mem[r][k] = IF k = i THEN t ELSE a.mem[r][k]
          /\ d.mem[t] = Zeroes
          /\ \A g \in Frames : g # r /\ g # t => d.mem[g] = a.mem[g]
      BY <1>1, <2>7, <3>1, <3>3, <3>4, <3>5 DEF Memory, Words, i
    <3>7. DOMAIN d.mem = Frames /\ DOMAIN d = {"mem", "free_stack", "root", "ok"}
      BY <3>1, <3>4, <3>5 DEF Memory, Machines
    <3> HIDE DEF d
    <3>8. d.mem[d.root][i] = t /\ d.mem[t][j] = 0
      BY <1>1, <3>4, <3>6 DEF Zeroes, i, j
    <3>9. n = [d EXCEPT !.mem[t][j] = f]
      BY <2>2, <3>2, <3>4, <3>8 DEF MapUserPage, i, j
    <3>10. n.mem = [d.mem EXCEPT ![t] = [d.mem[t] EXCEPT ![j] = f]] /\ n.root = r /\ n.ok
      BY <3>4, <3>7, <3>9
    <3>11. /\ \A k \in Indices : n.mem[t][k] = IF k = j THEN f ELSE 0
           /\ \A g \in Frames : g # t => n.mem[g] = d.mem[g]
      BY <1>1, <3>1, <3>6, <3>7, <3>10 DEF Zeroes, j
    <3>12. \A k \in Indices : n.mem[r][k] = IF k = i THEN t ELSE a.mem[r][k]
      BY <2>7, <3>3, <3>6, <3>11
    <3>13. \A g \in Frames : g # r /\ g # t => n.mem[g] = a.mem[g]
      BY <3>6, <3>11
    <3>14. Mapped(t)
      BY <2>12, <3>1, <3>3, <3>10, <3>11, <3>12, <3>13 DEF Mapped
    <3> QED BY <1>2, <2>9, <3>14
  <2> QED BY <2>10, <2>11, <2>12
<1> QED BY <1>6, <1>7

(***************************************************************************)
(* A page that is mapped is filled, and no other page of its space with it.*)
(***************************************************************************)
LEMMA FillContent ==
  ASSUME NEW mem \in Memory, NEW own, NEW p, NEW r, Space(mem, own, p, r), NEW page \in Pages,
         NEW f, f = Translate(mem, r, page), f # 0, NEW words
  PROVE  /\ f \in Frames
         /\ Content([mem EXCEPT ![f] = words], r) = [Content(mem, r) EXCEPT ![page] = words]
<1> DEFINE mem2 == [mem EXCEPT ![f] = words]
           i == page \div W
           j == page % W
<1>1. i \in Indices /\ j \in Indices /\ page \in Nat
  BY PagesIndexed
<1>2. f \in Frames /\ own[f] = <<p, i, j>>
  BY <1>1, TranslateOwns
<1>3. j # -1
  BY <1>1 DEF Indices
<1>4. mem2[f] = words /\ \A g \in Frames : g # f => mem2[g] = mem[g]
  BY <1>2 DEF Memory
<1> HIDE DEF mem2, i, j
<1>5. r \in Frames /\ r # f
  BY <1>2, <1>3 DEF Space
<1>6. ASSUME NEW pg \in Pages
      PROVE  PageAt(mem2, r, pg) = IF pg = page THEN words ELSE PageAt(mem, r, pg)
  <2> DEFINE k == pg \div W
             l == pg % W
             t == mem[r][k]
  <2>1. k \in Indices /\ l \in Indices /\ pg \in Nat
    BY PagesIndexed
  <2>2. t \in Frames => t # f
    <3> SUFFICES ASSUME t \in Frames PROVE t # f
      OBVIOUS
    <3>1. t # 0 /\ t # NFrames + W
      BY WAssumption, NFramesAssumption DEF Frames
    <3> HIDE DEF k
    <3>2. k # W - 1
      BY <3>1 DEF Space
    <3>3. k \in 0 .. W - 2
      BY <2>1, <3>2, WAssumption DEF Indices
    <3>4. own[t] = <<p, k, -1>>
      BY <3>1, <3>3 DEF Space, Table
    <3> QED BY <1>2, <1>3, <3>4
  <2>3. Translate(mem2, r, pg) = Translate(mem, r, pg)
    BY <1>4, <1>5, <2>2 DEF Translate
  <2> DEFINE x == Translate(mem, r, pg)
  <2>4. x # 0 => x \in Frames /\ own[x] = <<p, k, l>>
    BY <2>1, TranslateOwns
  <2> HIDE DEF x
  <2>5. x = f => pg = page
    <3> SUFFICES ASSUME x = f PROVE pg = page
      OBVIOUS
    <3>1. k = i /\ l = j
      BY <1>2, <2>4
    <3> QED BY <1>1, <2>1, <3>1, SamePage DEF i, j
  <2>6. pg = page => x = f
    BY DEF x
  <2> QED BY <1>4, <2>3, <2>4, <2>5, <2>6 DEF PageAt, x
<1>7. Content(mem2, r) = [Content(mem, r) EXCEPT ![page] = words]
  BY <1>6 DEF Content
<1> QED BY <1>2, <1>7 DEF mem2

LEMMA FillShows ==
  ASSUME NEW m, NEW roots, NEW views, NEW content, Shows(m, roots, views, content), m.ok,
         NEW page \in Pages, NEW f, f = Translate(m.mem, m.root, page), f # 0,
         NEW words \in Words
  PROVE  Shows([m EXCEPT !.mem[f] = words], roots, views, [content EXCEPT ![page] = words])
<1> DEFINE n == [m EXCEPT !.mem[f] = words]
           r == m.root
<1>1. PICK own : Owning(m, roots, own)
  BY DEF Shows, Building, Sound
<1>2. m \in Machines /\ m.mem \in Memory /\ r # 0 /\ Space(m.mem, own, 0, r)
      /\ SeenAs(m.mem, roots, views) /\ Content(m.mem, r) = content
  BY <1>1 DEF Owning, Shows, Building, Machines
<1>3. page \div W \in Indices /\ page % W \in Indices
  BY PagesIndexed
<1>4. Building(n, roots)
  BY <1>3, FillBuilds DEF Shows
<1>5. n.mem = [m.mem EXCEPT ![f] = words] /\ n.root = r
  BY <1>2 DEF Machines
<1> HIDE DEF n, r
<1>6. f \in Frames /\ own[f] = <<0, page \div W, page % W>>
  BY <1>2, <1>3, TranslateOwns DEF r
<1>7. Content(n.mem, n.root) = [content EXCEPT ![page] = words]
  <2> DEFINE mem == m.mem
  <2>1. mem \in Memory /\ Space(mem, own, 0, r) /\ f = Translate(mem, r, page)
    BY <1>2 DEF r
  <2> HIDE DEF mem
  <2>2. Content([mem EXCEPT ![f] = words], r) = [Content(mem, r) EXCEPT ![page] = words]
    BY <2>1, FillContent
  <2> QED BY <1>2, <1>5, <2>2 DEF mem
<1>8. SeenAs(n.mem, roots, views)
  <2>1. \A g \in Frames : own[g][1] \in Pids => n.mem[g] = m.mem[g]
    BY <1>2, <1>5, <1>6 DEF Memory, Pids
  <2> QED BY <1>1, <1>2, <2>1, OthersKept
<1> QED BY <1>4, <1>7, <1>8 DEF Shows, n


-----------------------------------------------------------------------------
(***************************************************************************)
(* fork: after k pages the child has the first k pages of its parent.      *)
(***************************************************************************)
FirstPages(view, k) == [page \in Pages |-> IF page < k THEN view[page] ELSE Gone]

LEMMA ClonePageShows ==
  ASSUME NEW m, NEW roots, NEW views, NEW p \in Pids, NEW source, roots[p] = source, source # 0,
         NEW k \in Pages, Shows(m, roots, views, FirstPages(views[p], k))
  PROVE  Shows(CloneUserPage(m, source, k), roots, views, FirstPages(views[p], k + 1))
<1> DEFINE view == views[p]
           src == Translate(m.mem, source, k)
           n == MapUserPageAlloc(m, k)
           f == Translate(n.mem, n.root, k)
           words == n.mem[src]
<1>1. k \in Nat /\ k % W \in Indices /\ k \div W \in Indices
  BY PagesIndexed
<1>2. Pages \subseteq Nat
  BY PagesIndexed
<1>3. PICK own : Owning(m, roots, own)
  BY DEF Shows, Building, Sound
<1>4. Space(m.mem, own, p, source)
  BY <1>3 DEF Owning, Spaces
<1>5. view[k] = PageAt(m.mem, source, k)
  BY DEF Shows, SeenAs, Content
<1>6. CASE ~m.ok
  <2>1. CloneUserPage(m, source, k) = m
    BY <1>6 DEF CloneUserPage
  <2> QED BY <1>6, <2>1 DEF Shows
<1>7. CASE m.ok /\ src = 0
  <2>1. CloneUserPage(m, source, k) = m
    BY <1>7 DEF CloneUserPage
  <2>2. view[k] = Gone
    BY <1>5, <1>7 DEF PageAt
  <2>3. FirstPages(view, k + 1) = FirstPages(view, k)
    <3>1. \A page \in Pages : (page < k + 1 <=> page < k \/ page = k) /\ ~(k < k)
      BY <1>1, <1>2
    <3> HIDE DEF view
    <3> QED BY <2>2, <3>1 DEF FirstPages
  <2> QED BY <2>1, <2>3
<1>8. CASE m.ok /\ src # 0
  <2>1. k \in UserPages /\ src \in Frames
    <3>1. k \div W \in 0 .. W - 2 /\ src \in Frames
      BY <1>1, <1>4, <1>8, TranslateOwns
    <3> QED BY <1>1, <3>1 DEF UserPages
  <2>2. /\ Shows(n, roots, views, [FirstPages(view, k) EXCEPT ![k] = Zeroes])
        /\ SameFrames(m.mem, n.mem, roots)
    BY <2>1, MapShows
  <2>3. CASE ~n.ok
    <3>1. CloneUserPage(m, source, k) = n
      BY <1>8, <2>3 DEF CloneUserPage
    <3> QED BY <2>2, <2>3, <3>1 DEF Shows
  <2>4. CASE n.ok
    <3>1. CloneUserPage(m, source, k) = [n EXCEPT !.mem[f] = words]
      BY <1>8, <2>4 DEF CloneUserPage
    <3>2. f # 0
      BY <1>1, <2>1, <2>4, UserPagesIndexed, MapAllocBuilds DEF Shows
    <3>3. Translate(n.mem, source, k) = src
      BY <2>2 DEF SameFrames
    <3>4. Content(n.mem, source) = view
      BY <2>2 DEF Shows, SeenAs
    <3> HIDE DEF n, src, f, view
    <3>5. words = view[k]
      BY <1>8, <3>3, <3>4 DEF Content, PageAt
    <3>6. words \in Words
      BY <2>1, <2>2, SoundParts DEF Shows, Building, Machines, Memory
    <3> HIDE DEF words
    <3>7. Shows([n EXCEPT !.mem[f] = words], roots, views,
                [[FirstPages(view, k) EXCEPT ![k] = Zeroes] EXCEPT ![k] = words])
      BY <2>2, <2>4, <3>2, <3>6, FillShows DEF f
    <3>8. [[FirstPages(view, k) EXCEPT ![k] = Zeroes] EXCEPT ![k] = words] = FirstPages(view, k + 1)
      <4>1. \A page \in Pages : (page < k + 1 <=> page < k \/ page = k)
        BY <1>1, <1>2
      <4> QED BY <3>5, <4>1 DEF FirstPages
    <3> QED BY <3>1, <3>7, <3>8 DEF view
  <2> QED BY <2>3, <2>4
<1> QED BY <1>6, <1>7, <1>8

LEMMA CloneShows ==
  ASSUME NEW m, NEW roots, Sound(m, roots), m.root = 0, NEW p \in Pids,
         NEW source, roots[p] = source, source # 0, NEW views, SeenAs(m.mem, roots, views)
  PROVE  Shows(CloneUserSpace(m, source, source), roots, views, views[p])
<1> DEFINE view == views[p]
           b == NewUser(m, source)
           After == [k \in 0..AllPages |-> {x \in Machines : Shows(x, roots, views, FirstPages(view, k))}]
<1>1. AllPages \in Nat /\ Pages = 0 .. AllPages - 1
  BY WAssumption DEF AllPages, Pages
<1>2. CloneUserSpace(m, source, source) = CloneFold(b, source)
  BY DEF CloneUserSpace, CloneFold
<1>3. Shows(b, roots, views, Empty)
  BY NewUserShows
<1>4. view = Content(m.mem, source)
  BY DEF SeenAs
<1> HIDE DEF b, view
<1>5. FirstPages(view, 0) = Empty /\ FirstPages(view, AllPages) = view
  <2>1. \A page \in Pages : ~(page < 0) /\ page < AllPages
    BY <1>1
  <2>2. view = [page \in Pages |-> view[page]]
    BY <1>4 DEF Content
  <2> QED BY <2>1, <2>2 DEF FirstPages, Empty
<1>6. PICK g : /\ g[0] = b /\ g[AllPages] = CloneFold(b, source)
               /\ \A k \in 0 .. AllPages - 1 : g[k + 1] = CloneUserPage(g[k], source, k)
  BY <1>3, CloneRounds DEF Shows
<1>7. g[0] \in After[0]
  <2>1. Shows(b, roots, views, FirstPages(view, 0)) /\ b \in Machines
    BY <1>3, <1>5, SoundParts DEF Shows, Building
  <2>2. 0 \in 0..AllPages
    BY <1>1
  <2> QED BY <1>6, <2>1, <2>2
<1>8. ASSUME NEW k \in 0 .. AllPages - 1, g[k] \in After[k]
      PROVE  g[k + 1] \in After[k + 1]
  <2>1. k \in 0..AllPages /\ k + 1 \in 0..AllPages /\ k \in Pages
    BY <1>1
  <2>2. Shows(g[k], roots, views, FirstPages(view, k))
    BY <1>8, <2>1
  <2> HIDE DEF After
  <2>3. Shows(g[k + 1], roots, views, FirstPages(view, k + 1))
    BY <1>6, <2>1, <2>2, ClonePageShows DEF view
  <2>4. g[k + 1] \in Machines
    BY <2>3, SoundParts DEF Shows, Building
  <2> QED BY <2>1, <2>3, <2>4 DEF After
<1>9. g[AllPages] \in After[AllPages]
  <2> HIDE DEF After
  <2> QED BY <1>1, <1>7, <1>8, Rounds
<1>10. Shows(g[AllPages], roots, views, view)
  <2>1. AllPages \in 0..AllPages
    BY <1>1
  <2>2. Shows(g[AllPages], roots, views, FirstPages(view, AllPages))
    BY <1>9, <2>1
  <2> QED BY <1>5, <2>2
<1> QED BY <1>2, <1>6, <1>10 DEF view

-----------------------------------------------------------------------------
(***************************************************************************)
(* map_elf_segment on one page, and on all pages of a segment.             *)
(***************************************************************************)
LoadedPage(image, seg, page, words) ==
  Copied(image, seg, page, IF words = Gone THEN Zeroes ELSE words)

SegmentContent(image, seg, content, k) ==
  [page \in Pages |-> IF page \in FirstPage(seg) .. FirstPage(seg) + k - 1
                      THEN LoadedPage(image, seg, page, content[page]) ELSE content[page]]

LEMMA GoneIsNoPage ==
  ASSUME NEW words \in Words
  PROVE  words # Gone
<1>1. 0 \in Indices /\ words[0] \in Nat
  BY WAssumption DEF Indices, Words
<1> QED BY <1>1 DEF Gone, Unmapped

LEMMA LoadPageShows ==
  ASSUME NEW m, NEW roots, NEW views, NEW content, Shows(m, roots, views, content),
         NEW image \in Images, NEW seg \in Headers, NEW page \in UserPages
  PROVE  Shows(LoadPage(m, image, seg, page), roots, views,
               [content EXCEPT ![page] = LoadedPage(image, seg, page, content[page])])
<1> DEFINE new == LoadedPage(image, seg, page, content[page])
           f == Translate(m.mem, m.root, page)
<1>1. page \in Pages /\ page \in Nat /\ page \div W \in 0 .. W - 2 /\ page % W \in Indices /\ page \div W \in Indices
  BY UserPagesArePages, UserPagesIndexed
<1>2. m \in Machines
  BY SoundParts DEF Shows, Building
<1>3. m.ok => Content(m.mem, m.root) = content
  BY DEF Shows
<1>4. CASE m.ok /\ f # 0
  <2> DEFINE words == Copied(image, seg, page, m.mem[f])
  <2>1. LoadPage(m, image, seg, page) = [m EXCEPT !.mem[f] = words]
    BY <1>4 DEF LoadPage
  <2>2. f \in Frames
    <3>1. Zeroes \in Words
      BY DEF Zeroes, Words
    <3> QED BY <1>1, <1>4, <3>1, FillBuilds DEF Shows
  <2>3. m.mem[f] \in Words
    BY <1>2, <2>2 DEF Machines, Memory
  <2>4. content[page] = m.mem[f]
    BY <1>1, <1>3, <1>4 DEF Content, PageAt
  <2>5. words \in Words
    BY <1>1, <2>3, CopiedWords
  <2>6. new = words
    BY <2>3, <2>4, GoneIsNoPage DEF LoadedPage
  <2> HIDE DEF words, f, new
  <2>7. Shows([m EXCEPT !.mem[f] = words], roots, views, [content EXCEPT ![page] = words])
    BY <1>1, <1>4, <2>5, FillShows DEF f
  <2> QED BY <2>1, <2>6, <2>7 DEF new
<1>5. CASE ~(m.ok /\ f # 0)
  <2> DEFINE n == MapUserPageAlloc(m, page)
             h == Translate(n.mem, n.root, page)
             words == Copied(image, seg, page, Zeroes)
  <2>1. /\ Shows(n, roots, views, [content EXCEPT ![page] = Zeroes])
        /\ n.ok => m.ok /\ content[page] = Gone
    BY MapShows
  <2>2. CASE ~n.ok
    <3>1. LoadPage(m, image, seg, page) = n
      BY <1>5, <2>2 DEF LoadPage
    <3> QED BY <2>1, <2>2, <3>1 DEF Shows
  <2>3. CASE n.ok
    <3>1. LoadPage(m, image, seg, page) = [n EXCEPT !.mem[h] = words]
      BY <1>5, <2>3 DEF LoadPage
    <3>2. h # 0
      BY <1>1, <2>3, MapAllocBuilds DEF Shows
    <3>3. words \in Words
      <4>1. Zeroes \in Words
        BY DEF Zeroes, Words
      <4> QED BY <1>1, <4>1, CopiedWords
    <3>4. new = words
      BY <2>1, <2>3 DEF LoadedPage
    <3> HIDE DEF n, h, words, new
    <3>5. Shows([n EXCEPT !.mem[h] = words], roots, views,
                [[content EXCEPT ![page] = Zeroes] EXCEPT ![page] = words])
      BY <1>1, <2>1, <2>3, <3>2, <3>3, FillShows DEF h
    <3>6. [[content EXCEPT ![page] = Zeroes] EXCEPT ![page] = words] = [content EXCEPT ![page] = words]
      OBVIOUS
    <3> QED BY <3>1, <3>4, <3>5, <3>6 DEF new
  <2> QED BY <2>2, <2>3
<1> QED BY <1>4, <1>5

LEMMA SegmentShows ==
  ASSUME NEW m, NEW roots, NEW views, NEW content, Shows(m, roots, views, content),
         DOMAIN content = Pages, content = [page \in Pages |-> content[page]],
         NEW image \in Images, NEW seg \in Headers, Loads(seg)
  PROVE  Shows(MapElfSegment(m, image, seg), roots, views,
               SegmentContent(image, seg, content, PageCount(seg)))
<1> DEFINE l == PageCount(seg)
           After == [k \in 0..l |-> {x \in Machines :
                       Shows(x, roots, views, SegmentContent(image, seg, content, k))}]
<1>1. l \in Nat /\ FirstPage(seg) \in Nat
  BY SegmentPages, WAssumption DEF FirstPage, Headers
<1>2. \A k \in 1..l : FirstPage(seg) + k - 1 \in UserPages
  <2>1. \A k \in 1..l : PagesOf(seg)[k] \in UserPages /\ PagesOf(seg)[k] = FirstPage(seg) + k - 1
    BY SegmentPages DEF PagesOf, PageCount
  <2> HIDE DEF l
  <2> QED BY <2>1
<1>3. MapElfSegment(m, image, seg) = LoadFold(m, image, seg)
  BY DEF MapElfSegment, LoadFold
<1>4. PICK g : /\ g[0] = m /\ g[l] = LoadFold(m, image, seg)
               /\ \A k \in 0 .. l - 1 : g[k + 1] = LoadPage(g[k], image, seg, FirstPage(seg) + k)
  BY LoadRounds DEF Shows
<1> HIDE DEF l
<1>5. g[0] \in After[0]
  <2>1. SegmentContent(image, seg, content, 0) = content
    <3>1. \A page \in Pages : page \notin FirstPage(seg) .. FirstPage(seg) + 0 - 1
      BY <1>1
    <3> QED BY <3>1 DEF SegmentContent
  <2>2. m \in Machines
    BY SoundParts DEF Shows, Building
  <2>3. 0 \in 0..l
    BY <1>1
  <2> QED BY <1>4, <2>1, <2>2, <2>3
<1>6. ASSUME NEW k \in 0 .. l - 1, g[k] \in After[k]
      PROVE  g[k + 1] \in After[k + 1]
  <2> DEFINE page == FirstPage(seg) + k
             old == SegmentContent(image, seg, content, k)
  <2>1. k \in 0..l /\ k + 1 \in 0..l /\ k + 1 \in 1..l /\ k \in Nat
    BY <1>1
  <2>2. Shows(g[k], roots, views, old)
    BY <1>6, <2>1
  <2> HIDE DEF After
  <2>3. page \in UserPages /\ page \in Pages
    <3>1. page = FirstPage(seg) + (k + 1) - 1
      BY <1>1, <2>1
    <3> HIDE DEF page
    <3> QED BY <1>2, <2>1, <3>1, UserPagesArePages
  <2>4. Shows(g[k + 1], roots, views, [old EXCEPT ![page] = LoadedPage(image, seg, page, old[page])])
    <3> HIDE DEF old, page
    <3>1. g[k + 1] = LoadPage(g[k], image, seg, page)
      BY <1>4 DEF page
    <3> QED BY <2>2, <2>3, <3>1, LoadPageShows
  <2>5. [old EXCEPT ![page] = LoadedPage(image, seg, page, old[page])] = SegmentContent(image, seg, content, k + 1)
    <3>1. \A q \in Pages : q \in FirstPage(seg) .. FirstPage(seg) + (k + 1) - 1 <=>
            q \in FirstPage(seg) .. FirstPage(seg) + k - 1 \/ q = page
      BY <1>1, <2>1, PagesIndexed
    <3>2. page \notin FirstPage(seg) .. FirstPage(seg) + k - 1
      BY <1>1, <2>1
    <3> HIDE DEF page
    <3> QED BY <2>3, <3>1, <3>2 DEF SegmentContent
  <2>6. Shows(g[k + 1], roots, views, SegmentContent(image, seg, content, k + 1))
    BY <2>4, <2>5
  <2>7. g[k + 1] \in Machines
    BY <2>6, SoundParts DEF Shows, Building
  <2> QED BY <2>1, <2>6, <2>7 DEF After
<1>7. g[l] \in After[l]
  <2> HIDE DEF After
  <2> QED BY <1>1, <1>5, <1>6, Rounds
<1>8. l \in 0..l
  BY <1>1
<1> QED BY <1>3, <1>4, <1>7, <1>8 DEF l


-----------------------------------------------------------------------------
(***************************************************************************)
(* The data of a segment, word by word, in an image that is WellFormed.    *)
(***************************************************************************)
SpansPage(seg, page) == Loads(seg) /\ page \in FirstPage(seg) .. LastPage(seg)

HoldsWord(seg, v) == Loads(seg) /\ v \in seg.vaddr .. seg.vaddr + seg.filesz - 1

FileWord(image, seg, v) == image.file[seg.offset + v - seg.vaddr + 1]

\* The last of the first n segments that has file data at v, and what it has.
LastHolder(image, n, v) ==
  {k \in 1..n : /\ HoldsWord(image.headers[k], v)
                /\ \A l \in 1..n : HoldsWord(image.headers[l], v) => l <= k}

WordOf(image, holder, v) ==
  IF holder = {} THEN 0 ELSE FileWord(image, image.headers[CHOOSE k \in holder : TRUE], v)

WordAt(image, n, v) == WordOf(image, LastHolder(image, n, v), v)

\* The pages of the first n segments.
ImageContent(image, n) ==
  [page \in Pages |-> IF \E k \in 1..n : SpansPage(image.headers[k], page)
                      THEN [i \in Indices |-> WordAt(image, n, page * W + i)] ELSE Gone]

LEMMA HeaderParts ==
  ASSUME NEW image \in Images, Linked(image), NEW n \in 1 .. Len(image.headers)
  PROVE  /\ DOMAIN image.headers = 1 .. Len(image.headers) /\ Len(image.headers) \in Nat
         /\ image.headers[n] \in Headers
         /\ WellFormed(image) /\ Loads(image.headers[n]) =>
              /\ image.headers[n].filesz <= image.headers[n].memsz
              /\ image.headers[n].offset + image.headers[n].filesz <= Len(image.file)
<1> DEFINE s == image.headers
           Header == [load : BOOLEAN, vaddr : Nat, offset : Nat, filesz : Nat, memsz : Nat]
<1>1. s \in Seq(Header) /\ \A k \in DOMAIN s : Loads(s[k]) => LastPage(s[k]) \div W < W - 1
  BY ImagesAssumption DEF Linked, InUserPart
<1> HIDE DEF s
<1>2. Len(s) \in Nat /\ DOMAIN s = 1..Len(s) /\ \A k \in 1..Len(s) : s[k] \in Header
  <2> HIDE DEF Header
  <2> QED BY <1>1
<1>3. s[n] \in Headers
  BY <1>1, <1>2 DEF Headers, s
<1> QED BY <1>2, <1>3 DEF s, WellFormed

LEMMA WellFormedParts ==
  ASSUME NEW seg \in Headers
  PROVE  /\ seg.vaddr \in Nat /\ seg.offset \in Nat /\ seg.filesz \in Nat /\ seg.memsz \in Nat
         /\ FirstPage(seg) \in Nat /\ LastPage(seg) \in Nat
         /\ W * FirstPage(seg) <= seg.vaddr /\ seg.vaddr < W * FirstPage(seg) + W
BY WAssumption DEF Headers, FirstPage, LastPage

(***************************************************************************)
(* Data at an address is on a page of its segment.                         *)
(***************************************************************************)
LEMMA HolderSpans ==
  ASSUME NEW seg \in Headers, seg.filesz <= seg.memsz, NEW v \in Nat, HoldsWord(seg, v)
  PROVE  SpansPage(seg, v \div W)
<1>1. /\ seg.vaddr \in Nat /\ seg.filesz \in Nat /\ seg.memsz \in Nat
      /\ v >= seg.vaddr /\ v <= seg.vaddr + seg.memsz /\ W \in Nat \ {0}
  BY WAssumption, WellFormedParts DEF HoldsWord
<1>2. FirstPage(seg) <= v \div W /\ v \div W <= LastPage(seg)
  BY <1>1, DivMono DEF FirstPage, LastPage
<1>3. v \div W \in Nat /\ FirstPage(seg) \in Nat /\ LastPage(seg) \in Nat
  BY <1>1, WellFormedParts
<1> QED BY <1>2, <1>3 DEF SpansPage, HoldsWord

(***************************************************************************)
(* The copy starts at the segment where that starts inside the page.       *)
(***************************************************************************)
LEMMA PageStart ==
  ASSUME NEW seg \in Headers, NEW page \in Nat, SpansPage(seg, page), NEW pw, pw = page * W
  PROVE  (IF pw < seg.vaddr THEN seg.vaddr ELSE pw) % W = IF pw < seg.vaddr THEN seg.vaddr - pw ELSE 0
<1>1. seg.vaddr \in Nat /\ W \in Nat \ {0} /\ pw \in Nat /\ pw = W * page
  BY WAssumption, WellFormedParts
<1>2. CASE pw < seg.vaddr
  <2> DEFINE r == seg.vaddr - pw
             first == FirstPage(seg)
  <2>1. first \in Nat /\ W * first <= seg.vaddr /\ seg.vaddr < W * first + W /\ first <= page
    BY WellFormedParts DEF SpansPage
  <2> HIDE DEF first
  <2>2. W * first <= pw
    BY <1>1, <2>1
  <2>3. W * first \in Nat
    BY <1>1, <2>1
  <2>4. r \in 0 .. W - 1 /\ seg.vaddr = pw + r
    BY <1>1, <1>2, <2>1, <2>2, <2>3
  <2> HIDE DEF r
  <2>5. (W * page + r) % W = r
    BY <1>1, <2>4, DivMod
  <2>6. seg.vaddr % W = r
    BY <1>1, <2>4, <2>5
  <2> QED BY <1>2, <2>6 DEF r
<1>3. CASE ~(pw < seg.vaddr)
  <2>1. 0 \in 0 .. W - 1
    BY <1>1
  <2>2. (W * page + 0) % W = 0
    BY <1>1, <2>1, DivMod
  <2>3. pw = W * page + 0
    BY <1>1
  <2>4. pw % W = 0
    BY <2>2, <2>3
  <2> QED BY <1>3, <2>4
<1> QED BY <1>2, <1>3

(***************************************************************************)
(* The copy loop puts every word of the file where ELF says, and touches   *)
(* no other word of the page.                                              *)
(***************************************************************************)
LEMMA CopiedIs ==
  ASSUME NEW image \in Images, NEW seg \in Headers,
         seg.offset + seg.filesz <= Len(image.file),
         NEW page \in Nat, SpansPage(seg, page), NEW words \in Words, NEW i \in Indices
  PROVE  Copied(image, seg, page, words)[i] =
           IF HoldsWord(seg, page * W + i) THEN FileWord(image, seg, page * W + i) ELSE words[i]
<1> DEFINE pw == page * W
           va == seg.vaddr
           from == IF pw > va THEN pw - va ELSE 0
           next == (page + 1) * W
           to == IF next > va + seg.filesz THEN seg.filesz ELSE next - va
           src == seg.offset + from
           dst == (IF pw < va THEN va ELSE pw) % W
           none == to <= from \/ from >= seg.filesz \/ src + to - from > Len(image.file)
           short == to <= from \/ from >= seg.filesz
<1>1. /\ va \in Nat /\ seg.offset \in Nat /\ seg.filesz \in Nat
      /\ Len(image.file) \in Nat /\ W \in Nat /\ W >= 3 /\ i \in 0 .. W - 1
  <2>1. image.file \in Seq(Nat)
    BY ImagesAssumption
  <2> QED BY <2>1, WAssumption, WellFormedParts DEF Indices
<1>2. pw \in Nat /\ next = pw + W
  BY <1>1
<1>3. dst = IF pw < va THEN va - pw ELSE 0
  BY PageStart
<1>4. Copied(image, seg, page, words) =
        IF none THEN words
        ELSE [k \in Indices |-> IF k \in dst .. dst + to - from - 1
                                THEN image.file[src + k - dst + 1] ELSE words[k]]
  BY DEF Copied
<1>5. Loads(seg)
  BY DEF SpansPage
<1> HIDE DEF pw, dst, next
<1>6. from \in Int /\ dst \in Int /\ to \in Int
      /\ to = IF pw + W > va + seg.filesz THEN seg.filesz ELSE pw + W - va
  BY <1>1, <1>2, <1>3
<1>7. from = IF pw > va THEN pw - va ELSE 0
  OBVIOUS
<1>8. short <=> to <= from \/ from >= seg.filesz
  OBVIOUS
<1>9. src = seg.offset + from /\ (none <=> short \/ src + to - from > Len(image.file))
  OBVIOUS
<1> HIDE DEF from, to, src, none, short
<1>10. /\ pw + i \in va .. va + seg.filesz - 1 <=> ~short /\ i \in dst .. dst + to - from - 1
       /\ to <= seg.filesz
       /\ from + i - dst = pw + i - va
  <2> HIDE DEF va
  <2> DEFINE fs == seg.filesz
  <2>1. fs \in Nat /\ to = (IF pw + W > va + fs THEN fs ELSE pw + W - va) /\ (short <=> to <= from \/ from >= fs)
    BY <1>1, <1>6, <1>8
  <2> HIDE DEF fs
  <2>2. /\ pw \in Nat /\ W \in Nat /\ va \in Nat /\ fs \in Nat /\ i \in 0 .. W - 1
        /\ from \in Int /\ to \in Int /\ dst \in Int
    BY <1>1, <1>2, <1>6, <2>1
  <2>3. to = IF pw + W > va + fs THEN fs ELSE pw + W - va
    BY <2>1
  <2>4. to <= fs /\ from - dst = pw - va
    BY <1>3, <1>7, <2>2, <2>3
  <2>5. ASSUME pw + i \in va .. va + fs - 1
        PROVE  ~(to <= from \/ from >= fs) /\ i \in dst .. dst + to - from - 1
    <3>1. CASE pw + W > va + fs
      BY <1>3, <1>7, <2>2, <2>3, <2>5, <3>1
    <3>2. CASE ~(pw + W > va + fs)
      BY <1>3, <1>7, <2>2, <2>3, <2>5, <3>2
    <3> QED BY <3>1, <3>2
  <2>6. ASSUME ~(to <= from \/ from >= fs), i \in dst .. dst + to - from - 1
        PROVE  pw + i \in va .. va + fs - 1
    BY <1>3, <1>7, <2>2, <2>3, <2>6
  <2>7. from + i - dst = pw + i - va
    BY <2>2, <2>4
  <2>8. short <=> to <= from \/ from >= fs
    BY <2>1
  <2> QED BY <2>4, <2>5, <2>6, <2>7, <2>8 DEF fs
<1>11. ~(src + to - from > Len(image.file)) /\ src + i - dst + 1 = seg.offset + (pw + i) - va + 1
  <2> DEFINE len == Len(image.file)
             off == seg.offset
             fs == seg.filesz
  <2>1. off \in Nat /\ fs \in Nat /\ len \in Nat /\ off + fs <= len /\ src = off + from /\ to <= fs
    BY <1>1, <1>9, <1>10
  <2>2. from + i - dst = pw + i - va
    BY <1>10
  <2> HIDE DEF len, off, fs, va
  <2>3. ~(src + to - from > len) /\ src + i - dst + 1 = off + (pw + i) - va + 1
    BY <1>1, <1>2, <1>6, <2>1, <2>2, SMTT(30)
  <2> QED BY <2>3 DEF len, off
<1>12. HoldsWord(seg, pw + i) <=> pw + i \in va .. va + seg.filesz - 1
  BY <1>5 DEF HoldsWord
<1>13. CASE HoldsWord(seg, pw + i)
  <2>1. ~none /\ i \in dst .. dst + to - from - 1
    BY <1>9, <1>10, <1>11, <1>12, <1>13
  <2>2. Copied(image, seg, page, words)[i] = image.file[src + i - dst + 1]
    BY <1>4, <2>1
  <2>3. FileWord(image, seg, pw + i) = image.file[src + i - dst + 1]
    BY <1>11 DEF FileWord
  <2> QED BY <1>13, <2>2, <2>3 DEF pw
<1>14. CASE ~HoldsWord(seg, pw + i)
  <2>1. none \/ ~(i \in dst .. dst + to - from - 1)
    BY <1>9, <1>10, <1>12, <1>14
  <2>2. Copied(image, seg, page, words)[i] = words[i]
    BY <1>4, <2>1
  <2> QED BY <1>14, <2>2 DEF pw
<1> QED BY <1>13, <1>14

LEMMA WordAtIsNat ==
  ASSUME NEW image \in Images, Linked(image), WellFormed(image),
         NEW n \in 0 .. Len(image.headers), NEW v \in Nat
  PROVE  WordAt(image, n, v) \in Nat
<1> DEFINE H == LastHolder(image, n, v)
           k == CHOOSE l \in H : TRUE
<1>1. CASE H = {}
  BY <1>1 DEF WordAt, WordOf
<1>2. CASE H # {}
  <2>1. k \in H
    BY <1>2
  <2>2. k \in 1 .. Len(image.headers) /\ HoldsWord(image.headers[k], v)
    <3>1. k \in 1..n /\ HoldsWord(image.headers[k], v)
      BY <2>1 DEF LastHolder
    <3>2. Len(image.headers) \in Nat
      BY ImagesAssumption
    <3> HIDE DEF k
    <3> QED BY <3>1, <3>2
  <2> HIDE DEF k, H
  <2> DEFINE seg == image.headers[k]
  <2>3. /\ seg \in Headers /\ seg.offset + seg.filesz <= Len(image.file)
    BY <2>2, HeaderParts DEF HoldsWord
  <2>4. image.file \in Seq(Nat)
    BY ImagesAssumption
  <2> DEFINE x == seg.offset + v - seg.vaddr + 1
  <2>5. x \in 1 .. Len(image.file)
    <3>1. /\ seg.vaddr \in Nat /\ seg.offset \in Nat /\ seg.filesz \in Nat /\ Len(image.file) \in Nat
          /\ seg.vaddr <= v /\ v <= seg.vaddr + seg.filesz - 1
      <4>1. HoldsWord(seg, v)
        BY <2>2
      <4> HIDE DEF seg
      <4>2. /\ seg.vaddr \in Nat /\ seg.offset \in Nat /\ seg.filesz \in Nat
        BY <2>3, WellFormedParts
      <4>3. Len(image.file) \in Nat
        BY <2>4
      <4>4. v \in seg.vaddr .. seg.vaddr + seg.filesz - 1
        BY <4>1 DEF HoldsWord
      <4> QED BY <4>2, <4>3, <4>4
    <3>2. seg.offset + seg.filesz <= Len(image.file)
      BY <2>3
    <3> HIDE DEF seg
    <3> DEFINE len == Len(image.file)
               va == seg.vaddr
               off == seg.offset
               fs == seg.filesz
    <3>3. va \in Nat /\ off \in Nat /\ fs \in Nat /\ len \in Nat /\ va <= v /\ v <= va + fs - 1 /\ off + fs <= len
      BY <3>1, <3>2
    <3> HIDE DEF len, va, off, fs
    <3>4. off + v - va + 1 \in 1..len
      BY <3>3
    <3> QED BY <3>4 DEF len, va, off
  <2>6. WordAt(image, n, v) = image.file[x]
    BY <1>2 DEF WordAt, WordOf, FileWord, H, k
  <2> HIDE DEF x
  <2>7. image.file[x] \in Nat
    BY <2>4, <2>5, ElementOfSeq
  <2> QED BY <2>6, <2>7
<1> QED BY <1>1, <1>2

(***************************************************************************)
(* One more segment: its data replaces that of the earlier ones.           *)
(***************************************************************************)
LEMMA WordAtGrows ==
  ASSUME NEW image, NEW n \in Nat, NEW v
  PROVE  WordAt(image, n + 1, v) =
           IF HoldsWord(image.headers[n + 1], v) THEN FileWord(image, image.headers[n + 1], v)
           ELSE WordAt(image, n, v)
<1>1. \A k : k \in 1 .. n + 1 <=> k \in 1..n \/ k = n + 1
  OBVIOUS
<1>2. \A k \in 1..n : ~(n + 1 <= k) /\ k <= n + 1
  OBVIOUS
<1>3. CASE HoldsWord(image.headers[n + 1], v)
  <2>1. LastHolder(image, n + 1, v) = {n + 1}
    BY <1>1, <1>2, <1>3 DEF LastHolder
  <2>2. (CHOOSE k \in {n + 1} : TRUE) = n + 1
    OBVIOUS
  <2> QED BY <1>3, <2>1, <2>2 DEF WordAt, WordOf
<1>4. CASE ~HoldsWord(image.headers[n + 1], v)
  <2>1. LastHolder(image, n + 1, v) = LastHolder(image, n, v)
    BY <1>1, <1>4 DEF LastHolder
  <2>2. WordAt(image, n + 1, v) = WordAt(image, n, v)
    BY <2>1 DEF WordAt
  <2> QED BY <1>4, <2>2
<1> QED BY <1>3, <1>4

(***************************************************************************)
(* The words of a page.                                                    *)
(***************************************************************************)
LEMMA AddressOnPage ==
  ASSUME NEW page \in Nat, NEW i \in Indices
  PROVE  page * W + i \in Nat /\ (page * W + i) \div W = page /\ (page * W + i) % W = i
<1>1. W \in Nat \ {0} /\ i \in 0 .. W - 1
  BY WAssumption DEF Indices
<1>2. (W * page + i) \div W = page /\ (W * page + i) % W = i
  BY <1>1, DivMod
<1>3. page * W = W * page /\ page * W \in Nat
  BY <1>1
<1>4. page * W + i \in Nat
  <2> DEFINE pw == page * W
  <2> HIDE DEF pw
  <2>1. pw + i \in Nat
    BY <1>1, <1>3 DEF pw
  <2> QED BY <2>1 DEF pw
<1> QED BY <1>2, <1>3, <1>4

LEMMA HeldOnPage ==
  ASSUME NEW image \in Images, Linked(image), WellFormed(image),
         NEW k \in 1 .. Len(image.headers),
         NEW page \in Nat, NEW i \in Indices, HoldsWord(image.headers[k], page * W + i)
  PROVE  SpansPage(image.headers[k], page)
<1> DEFINE seg == image.headers[k]
           v == page * W + i
<1>1. v \in Nat /\ v \div W = page
  BY AddressOnPage
<1>2. HoldsWord(seg, v)
  OBVIOUS
<1>3. seg \in Headers /\ seg.filesz <= seg.memsz
  BY HeaderParts DEF HoldsWord
<1> HIDE DEF seg, v
<1>4. SpansPage(seg, v \div W)
  BY <1>1, <1>2, <1>3, HolderSpans
<1> QED BY <1>1, <1>4 DEF seg

LEMMA ImageGrows ==
  ASSUME NEW image \in Images, Linked(image), WellFormed(image),
         NEW n \in 0 .. Len(image.headers) - 1,
         NEW seg, seg = image.headers[n + 1]
  PROVE  ImageContent(image, n + 1) =
           IF Loads(seg) THEN SegmentContent(image, seg, ImageContent(image, n), PageCount(seg))
           ELSE ImageContent(image, n)
<1> DEFINE new == ImageContent(image, n + 1)
           old == ImageContent(image, n)
           next == IF Loads(seg) THEN SegmentContent(image, seg, old, PageCount(seg)) ELSE old
           s == image.headers
<1>1. Len(s) \in Nat
  BY ImagesAssumption
<1>2. n \in Nat /\ n \in 0 .. Len(s) /\ n + 1 \in 1 .. Len(s) /\ 1..n \subseteq 1 .. Len(s)
      /\ \A k : k \in 1 .. n + 1 <=> k \in 1..n \/ k = n + 1
  BY <1>1
<1>3. /\ seg \in Headers
      /\ Loads(seg) => seg.filesz <= seg.memsz /\ seg.offset + seg.filesz <= Len(image.file)
  BY <1>2, HeaderParts
<1>4. FirstPage(seg) + PageCount(seg) - 1 = LastPage(seg)
  BY <1>3, WellFormedParts DEF PageCount
<1>5. ASSUME NEW page \in Pages
      PROVE  new[page] = next[page]
  <2>1. page \in Nat
    BY PagesIndexed
  <2>2. \A i \in Indices : page * W + i \in Nat
    BY <2>1, AddressOnPage
  <2>3. (\E k \in 1 .. n + 1 : SpansPage(s[k], page)) <=>
          (\E k \in 1..n : SpansPage(s[k], page)) \/ SpansPage(seg, page)
    BY <1>2
  <2>4. CASE ~SpansPage(seg, page)
    <3>1. ASSUME NEW i \in Indices
          PROVE  WordAt(image, n + 1, page * W + i) = WordAt(image, n, page * W + i)
      <4>1. ~HoldsWord(seg, page * W + i)
        BY <1>2, <2>1, <2>4, HeldOnPage
      <4> QED BY <1>2, <4>1, WordAtGrows
    <3>2. new[page] = old[page]
      BY <2>3, <2>4, <3>1 DEF ImageContent
    <3>3. Loads(seg) => page \notin FirstPage(seg) .. FirstPage(seg) + PageCount(seg) - 1
      BY <1>4, <2>4 DEF SpansPage
    <3>4. next[page] = old[page]
      <4> HIDE DEF old
      <4> QED BY <3>3 DEF SegmentContent
    <3> QED BY <3>2, <3>4
  <2>5. CASE SpansPage(seg, page)
    <3> DEFINE words == IF old[page] = Gone THEN Zeroes ELSE old[page]
    <3>1. words \in Words /\ \A i \in Indices : words[i] = WordAt(image, n, page * W + i)
      <4>1. CASE \E k \in 1..n : SpansPage(s[k], page)
        <5> DEFINE ws == [i \in Indices |-> WordAt(image, n, page * W + i)]
        <5>1. old[page] = ws
          BY <4>1 DEF ImageContent
        <5>2. ws \in Words
          BY <1>2, <2>2, WordAtIsNat DEF Words
        <5>3. ws # Gone
          BY <5>2, GoneIsNoPage
        <5>4. words = ws
          BY <5>1, <5>3
        <5> QED BY <5>2, <5>4
      <4>2. CASE ~\E k \in 1..n : SpansPage(s[k], page)
        <5>1. old[page] = Gone
          BY <4>2 DEF ImageContent
        <5>2. ASSUME NEW i \in Indices
              PROVE  WordAt(image, n, page * W + i) = 0
          <6>1. \A k \in 1..n : ~HoldsWord(s[k], page * W + i)
            BY <1>2, <2>1, <4>2, HeldOnPage
          <6>2. LastHolder(image, n, page * W + i) = {}
            BY <6>1 DEF LastHolder
          <6> QED BY <6>2 DEF WordAt, WordOf
        <5>3. words = Zeroes
          BY <5>1
        <5> QED BY <5>2, <5>3 DEF Zeroes, Words
      <4> QED BY <4>1, <4>2
    <3>2. Loads(seg) /\ page \in FirstPage(seg) .. FirstPage(seg) + PageCount(seg) - 1
      BY <1>4, <2>5 DEF SpansPage
    <3>3. next[page] = Copied(image, seg, page, words)
      <4> HIDE DEF old
      <4> QED BY <3>2 DEF SegmentContent, LoadedPage
    <3>4. Copied(image, seg, page, words) \in Words
      <4> HIDE DEF words
      <4> QED BY <1>3, <2>1, <3>1, CopiedWords
    <3>5. ASSUME NEW i \in Indices
          PROVE  Copied(image, seg, page, words)[i] = WordAt(image, n + 1, page * W + i)
      <4> HIDE DEF words
      <4>1. Copied(image, seg, page, words)[i] =
              IF HoldsWord(seg, page * W + i) THEN FileWord(image, seg, page * W + i) ELSE words[i]
        BY <1>3, <2>1, <2>5, <3>1, <3>2, CopiedIs
      <4>2. WordAt(image, n + 1, page * W + i) =
              IF HoldsWord(seg, page * W + i) THEN FileWord(image, seg, page * W + i)
              ELSE WordAt(image, n, page * W + i)
        BY <1>2, WordAtGrows
      <4> QED BY <3>1, <4>1, <4>2
    <3>6. new[page] = [i \in Indices |-> WordAt(image, n + 1, page * W + i)]
      BY <2>3, <2>5 DEF ImageContent
    <3> HIDE DEF words
    <3>7. Copied(image, seg, page, words) = [i \in Indices |-> Copied(image, seg, page, words)[i]]
      BY <3>4 DEF Words
    <3> QED BY <3>3, <3>5, <3>6, <3>7
  <2> QED BY <2>4, <2>5
<1>6. new = [page \in Pages |-> new[page]] /\ next = [page \in Pages |-> next[page]]
  BY DEF ImageContent, SegmentContent
<1> HIDE DEF new, next
<1>7. new = next
  BY <1>5, <1>6
<1> QED BY <1>7 DEF new, next, old

(***************************************************************************)
(* The loop over the program headers.                                      *)
(***************************************************************************)
LEMMA SegmentsShow ==
  ASSUME NEW image \in Images, Linked(image),
         NEW b, NEW roots, NEW views, Shows(b, roots, views, Empty)
  PROVE  \E content :
           /\ Shows(SegmentFold(b, image), roots, views, content)
           /\ content = [page \in Pages |-> content[page]]
           /\ WellFormed(image) => content = ImageContent(image, Len(image.headers))
<1> DEFINE l == Len(image.headers)
           Has(x, k, content) ==
             /\ Shows(x, roots, views, content)
             /\ content = [page \in Pages |-> content[page]]
             /\ WellFormed(image) => content = ImageContent(image, k)
           After == [k \in 0..l |-> {x \in Machines : \E content : Has(x, k, content)}]
<1>1. l \in Nat
  BY ImagesAssumption
<1>2. PICK g : /\ g[0] = b /\ g[l] = SegmentFold(b, image)
               /\ \A k \in 0 .. l - 1 : g[k + 1] = MapElfSegment(g[k], image, image.headers[k + 1])
  BY SegmentRounds DEF Shows
<1>3. g[0] \in After[0]
  <2>1. ImageContent(image, 0) = Empty
    <3>1. 1..0 = {}
      OBVIOUS
    <3> QED BY <3>1 DEF ImageContent, Empty
  <2>2. b \in Machines
    BY SoundParts DEF Shows, Building
  <2>3. 0 \in 0..l
    BY <1>1
  <2>4. Has(b, 0, Empty)
    BY <2>1 DEF Empty
  <2> HIDE DEF Has
  <2> QED BY <1>2, <2>2, <2>3, <2>4
<1>4. ASSUME NEW k \in 0 .. l - 1, g[k] \in After[k]
      PROVE  g[k + 1] \in After[k + 1]
  <2> DEFINE seg == image.headers[k + 1]
  <2>1. k \in 0..l /\ k + 1 \in 0..l /\ k + 1 \in 1..l
    BY <1>1
  <2>2. PICK old : Has(g[k], k, old)
    <3> HIDE DEF Has
    <3> QED BY <1>4, <2>1
  <2> DEFINE new == IF Loads(seg) THEN SegmentContent(image, seg, old, PageCount(seg)) ELSE old
  <2>3. seg \in Headers
    BY <2>1, HeaderParts
  <2>4. g[k + 1] = MapElfSegment(g[k], image, seg)
    BY <1>2
  <2>5. WellFormed(image) => ImageContent(image, k + 1) = new
    BY <2>2, ImageGrows
  <2>6. DOMAIN old = Pages
    <3>1. old = [page \in Pages |-> old[page]]
      BY <2>2
    <3> QED BY <3>1
  <2>7. new = [page \in Pages |-> new[page]]
    <3>1. old = [page \in Pages |-> old[page]]
      BY <2>2
    <3> HIDE DEF seg
    <3> QED BY <3>1 DEF SegmentContent
  <2> HIDE DEF After, seg
  <2>8. Shows(g[k + 1], roots, views, new)
    <3>1. CASE Loads(seg)
      BY <2>2, <2>3, <2>4, <2>6, <3>1, SegmentShows
    <3>2. CASE ~Loads(seg)
      BY <2>2, <2>4, <3>2 DEF MapElfSegment
    <3> QED BY <3>1, <3>2
  <2>9. g[k + 1] \in Machines
    BY <2>8, SoundParts DEF Shows, Building
  <2> HIDE DEF new
  <2>10. Has(g[k + 1], k + 1, new)
    BY <2>5, <2>7, <2>8
  <2> HIDE DEF Has
  <2> QED BY <2>1, <2>9, <2>10 DEF After
<1>5. g[l] \in After[l]
  <2> HIDE DEF After
  <2> QED BY <1>1, <1>3, <1>4, Rounds
<1>6. l \in 0..l
  BY <1>1
<1>7. PICK content : Has(g[l], l, content)
  <2> HIDE DEF Has
  <2> QED BY <1>5, <1>6
<1> QED BY <1>2, <1>7 DEF l

(***************************************************************************)
(* The stack: its pages are zero, and no segment had one of them.          *)
(***************************************************************************)
StackContent(content, k) ==
  [page \in Pages |-> IF page \in StackBottom .. StackBottom + k - 1 THEN Zeroes ELSE content[page]]

StackFree(content, k) == \A page \in StackBottom .. StackBottom + k - 1 : content[page] = Gone

LEMMA StackPagesOfUser ==
  /\ StackBottom \in Nat /\ StackTop \in Nat /\ StackCount \in Nat
  /\ StackBottom + StackCount - 1 = StackTop
  /\ \A k \in 0 .. StackCount - 1 : StackBottom + k \in UserPages
<1>1. StackTop \in Nat /\ StackBottom \in Nat /\ StackBottom < StackTop /\ W \in Nat \ {0}
      /\ StackTop \div W \in 1 .. W - 2
  BY StackAssumption, WAssumption, PagesIndexed
<1>2. ASSUME NEW k \in 0 .. StackCount - 1
      PROVE  StackBottom + k \in UserPages
  <2> DEFINE page == StackBottom + k
  <2>1. page \in Nat /\ page <= StackTop
    BY <1>1 DEF StackCount
  <2> HIDE DEF page
  <2>2. page \div W <= StackTop \div W
    BY <1>1, <2>1, DivMono
  <2>3. page \div W \in Nat
    BY <1>1, <2>1
  <2>4. page \div W \in 0 .. W - 2
    BY <1>1, <2>2, <2>3
  <2>5. page \in UserPages
    BY <2>1, <2>4 DEF UserPages
  <2> QED BY <2>5 DEF page
<1> QED BY <1>1, <1>2 DEF StackCount

LEMMA StackShows ==
  ASSUME NEW b, NEW roots, NEW views, NEW content, Shows(b, roots, views, content),
         content = [page \in Pages |-> content[page]]
  PROVE  /\ Shows(StackFold(b), roots, views, StackContent(content, StackCount))
         /\ StackFold(b).ok => StackFree(content, StackCount)
<1> DEFINE l == StackCount
           After == [k \in 0..l |-> {x \in Machines :
                       /\ Shows(x, roots, views, StackContent(content, k))
                       /\ x.ok => StackFree(content, k)}]
<1>1. l \in Nat /\ StackBottom \in Nat
  BY StackPagesOfUser
<1>2. PICK g : /\ g[0] = b /\ g[l] = StackFold(b)
               /\ \A k \in 0 .. l - 1 : g[k + 1] = MapUserPageAlloc(g[k], StackBottom + k)
  BY StackRounds DEF Shows
<1>3. \A k \in 0 .. l - 1 : StackBottom + k \in UserPages
  BY StackPagesOfUser
<1> HIDE DEF l
<1>4. g[0] \in After[0]
  <2>1. StackBottom .. StackBottom + 0 - 1 = {}
    BY <1>1
  <2>2. StackContent(content, 0) = content /\ StackFree(content, 0)
    BY <2>1 DEF StackContent, StackFree
  <2>3. b \in Machines
    BY SoundParts DEF Shows, Building
  <2>4. 0 \in 0..l
    BY <1>1
  <2> QED BY <1>2, <2>2, <2>3, <2>4
<1>5. ASSUME NEW k \in 0 .. l - 1, g[k] \in After[k]
      PROVE  g[k + 1] \in After[k + 1]
  <2> DEFINE page == StackBottom + k
             old == StackContent(content, k)
  <2>1. k \in 0..l /\ k + 1 \in 0..l /\ k \in Nat
    BY <1>1
  <2>2. Shows(g[k], roots, views, old) /\ (g[k].ok => StackFree(content, k))
    BY <1>5, <2>1
  <2>3. page \in UserPages /\ page \in Pages
    BY <1>3, UserPagesArePages
  <2>4. StackBottom .. StackBottom + (k + 1) - 1 = (StackBottom .. StackBottom + k - 1) \union {page}
        /\ page \notin StackBottom .. StackBottom + k - 1
    BY <1>1, <2>1
  <2>5. g[k + 1] = MapUserPageAlloc(g[k], page)
    BY <1>2
  <2> HIDE DEF After, page
  <2>6. old[page] = content[page]
    BY <2>3, <2>4 DEF StackContent
  <2>7. [old EXCEPT ![page] = Zeroes] = StackContent(content, k + 1)
    BY <2>3, <2>4 DEF StackContent
  <2> HIDE DEF old
  <2>8. /\ Shows(g[k + 1], roots, views, [old EXCEPT ![page] = Zeroes])
        /\ g[k + 1].ok => g[k].ok /\ old[page] = Gone
    BY <2>2, <2>3, <2>5, MapShows
  <2>9. g[k + 1].ok => StackFree(content, k + 1)
    BY <2>2, <2>4, <2>6, <2>8 DEF StackFree
  <2>10. g[k + 1] \in Machines
    BY <2>8, SoundParts DEF Shows, Building
  <2> QED BY <2>1, <2>7, <2>8, <2>9, <2>10 DEF After
<1>6. g[l] \in After[l]
  <2> HIDE DEF After
  <2> QED BY <1>1, <1>4, <1>5, Rounds
<1>7. l \in 0..l
  BY <1>1
<1> QED BY <1>2, <1>6, <1>7 DEF l

(***************************************************************************)
(* What the loader leaves is the image as ELF defines it.                  *)
(***************************************************************************)
LoadedWord(image, v) ==
  LET segs == image.headers
      Spans(n, u) == Loads(segs[n]) /\ u \div W \in FirstPage(segs[n]) .. LastPage(segs[n])
      Holds(n, u) == Loads(segs[n]) /\ u \in segs[n].vaddr .. segs[n].vaddr + segs[n].filesz - 1
      last == {n \in DOMAIN segs : Holds(n, v) /\ \A k \in DOMAIN segs : Holds(k, v) => k <= n}
  IN CASE last # {} -> LET n == CHOOSE k \in last : TRUE
                       IN image.file[segs[n].offset + v - segs[n].vaddr + 1]
       [] last = {} /\ (\/ \E n \in DOMAIN segs : Spans(n, v)
                        \/ v \div W \in StackBottom..StackTop) -> 0
       [] OTHER -> Unmapped

LEMMA LoadedByWord ==
  ASSUME NEW image
  PROVE  LoadedImage(image) = [v \in Vaddrs |-> LoadedWord(image, v)]
BY Zenon DEF LoadedImage, LoadedWord

LEMMA LoadedImageIs ==
  ASSUME NEW image \in Images, NEW v \in Vaddrs
  PROVE  LoadedWord(image, v) =
           IF LastHolder(image, Len(image.headers), v) # {}
           THEN WordAt(image, Len(image.headers), v)
           ELSE IF \/ \E k \in 1 .. Len(image.headers) : SpansPage(image.headers[k], v \div W)
                   \/ v \div W \in StackBottom..StackTop
                THEN 0 ELSE Unmapped
<1> DEFINE segs == image.headers
           l == Len(segs)
           Holds(n, u) == Loads(segs[n]) /\ u \in segs[n].vaddr .. segs[n].vaddr + segs[n].filesz - 1
           last == {n \in DOMAIN segs : Holds(n, v) /\ \A k \in DOMAIN segs : Holds(k, v) => k <= n}
           some == \E n \in DOMAIN segs :
                     Loads(segs[n]) /\ v \div W \in FirstPage(segs[n]) .. LastPage(segs[n])
           stack == v \div W \in StackBottom..StackTop
           word == LET n == CHOOSE k \in last : TRUE
                   IN image.file[segs[n].offset + v - segs[n].vaddr + 1]
<1>1. DOMAIN segs = 1..l
  BY ImagesAssumption
<1>2. last = LastHolder(image, l, v)
  BY <1>1 DEF LastHolder, HoldsWord
<1>3. some <=> \E k \in 1..l : SpansPage(segs[k], v \div W)
  BY <1>1 DEF SpansPage
<1>4. LoadedWord(image, v) = CASE last # {} -> word
                                [] last = {} /\ (some \/ stack) -> 0
                                [] OTHER -> Unmapped
  BY DEF LoadedWord
<1>5. last # {} => WordAt(image, l, v) = word
  BY <1>2 DEF WordAt, WordOf, FileWord
<1> HIDE DEF last, some, stack, word
<1>6. LoadedWord(image, v) = IF last # {} THEN word ELSE IF some \/ stack THEN 0 ELSE Unmapped
  BY <1>4
<1> QED BY <1>2, <1>3, <1>5, <1>6 DEF stack

LEMMA LoadedIsSeen ==
  ASSUME NEW image \in Images, Linked(image), WellFormed(image),
         StackFree(ImageContent(image, Len(image.headers)), StackCount),
         NEW mem, NEW root,
         Content(mem, root) = StackContent(ImageContent(image, Len(image.headers)), StackCount)
  PROVE  View(mem, root) = LoadedImage(image)
<1> DEFINE l == Len(image.headers)
           s == image.headers
           content == ImageContent(image, l)
<1>1. l \in Nat /\ l \in 0..l
  BY ImagesAssumption
<1>2. ASSUME NEW v \in Vaddrs
      PROVE  Content(mem, root)[v \div W][v % W] = LoadedWord(image, v)
  <2> DEFINE page == v \div W
             i == v % W
             some == \E k \in 1..l : SpansPage(s[k], page)
             stack == page \in StackBottom..StackTop
  <2>1. page \in Pages /\ i \in Indices /\ page \in Nat
    BY VaddrsIndexed, PagesIndexed
  <2>2. v = page * W + i /\ v \in Nat
    <3>1. v \in Nat /\ W \in Nat \ {0}
      BY WAssumption DEF Vaddrs
    <3> QED BY <3>1
  <2>3. LoadedWord(image, v) = IF LastHolder(image, l, v) # {} THEN WordAt(image, l, v)
                                ELSE IF some \/ stack THEN 0 ELSE Unmapped
    BY LoadedImageIs
  <2>4. LastHolder(image, l, v) = {} => WordAt(image, l, v) = 0
    BY DEF WordAt, WordOf
  <2>5. stack <=> page \in StackBottom .. StackBottom + StackCount - 1
    BY StackPagesOfUser
  <2> HIDE DEF page, i
  <2>6. Content(mem, root)[page] = IF stack THEN Zeroes ELSE content[page]
    BY <2>1, <2>5 DEF StackContent
  <2>7. stack => content[page] = Gone
    BY <2>5 DEF StackFree
  <2>8. CASE some
    <3> DEFINE ws == [k \in Indices |-> WordAt(image, l, page * W + k)]
    <3>1. content[page] = ws
      BY <2>1, <2>8 DEF ImageContent
    <3>2. ws \in Words
      BY <1>1, <2>1, AddressOnPage, WordAtIsNat DEF Words
    <3>3. ~stack
      BY <2>7, <3>1, <3>2, GoneIsNoPage
    <3>4. Content(mem, root)[page][i] = WordAt(image, l, v)
      BY <2>1, <2>2, <2>6, <3>1, <3>3
    <3> QED BY <2>3, <2>4, <2>8, <3>4 DEF page, i
  <2>9. CASE ~some
    <3>1. content[page] = Gone
      BY <2>1, <2>9 DEF ImageContent
    <3>2. \A k \in 1..l : ~HoldsWord(s[k], v)
      BY <2>1, <2>2, <2>9, HeldOnPage
    <3>3. LastHolder(image, l, v) = {}
      BY <3>2 DEF LastHolder
    <3>4. Zeroes[i] = 0 /\ Gone[i] = Unmapped
      BY <2>1 DEF Zeroes, Gone
    <3>5. Content(mem, root)[page][i] = IF stack THEN 0 ELSE Unmapped
      BY <2>6, <3>1, <3>4
    <3> QED BY <2>3, <2>9, <3>3, <3>5 DEF page, i
  <2> QED BY <2>8, <2>9
<1>3. View(mem, root) = [v \in Vaddrs |-> Content(mem, root)[v \div W][v % W]]
  BY ViewOfContent
<1>4. LoadedImage(image) = [v \in Vaddrs |-> LoadedWord(image, v)]
  BY LoadedByWord
<1> QED BY <1>2, <1>3, <1>4

LEMMA LoadShows ==
  ASSUME NEW image \in Images, InUserPart(image),
         NEW m, NEW roots, Sound(m, roots), m.root = 0,
         cr3 = 0 \/ \E p \in Pids : roots[p] = cr3,
         NEW views, SeenAs(m.mem, roots, views),
         NEW n, n = LoadElfIntoNewSpace(m, image)
  PROVE  /\ Sound(n, roots) /\ (n.ok => n.root # 0)
         /\ SeenAs(n.mem, roots, views)
         /\ n.ok => View(n.mem, n.root) = Promised(n, image)
<1>1. Sound(n, roots) /\ (n.ok => n.root # 0)
  BY LoadBuilds
<1>2. CASE ~image.valid
  <2>1. PICK own : Owning(m, roots, own)
    BY DEF Sound
  <2>2. n = Fail(m) /\ n.mem = m.mem /\ ~n.ok
    BY <1>2, <2>1, FailOwns DEF LoadElfIntoNewSpace
  <2> QED BY <1>1, <2>2
<1>3. CASE image.valid
  <2> DEFINE a == NewUser(m, cr3)
             c == SegmentFold(a, image)
             loaded == ImageContent(image, Len(image.headers))
  <2>1. n = StackFold(c) /\ Linked(image)
    BY <1>3 DEF LoadElfIntoNewSpace, MapUserStack, SegmentFold, StackFold, Linked
  <2>2. Shows(a, roots, views, Empty)
    BY NewUserShows
  <2> HIDE DEF a
  <2>3. PICK content : /\ Shows(c, roots, views, content)
                       /\ content = [page \in Pages |-> content[page]]
                       /\ WellFormed(image) => content = loaded
    BY <2>1, <2>2, SegmentsShow
  <2> HIDE DEF c, loaded
  <2>4. /\ Shows(n, roots, views, StackContent(content, StackCount))
        /\ n.ok => StackFree(content, StackCount)
    BY <2>1, <2>3, StackShows
  <2>5. n.ok /\ WellFormed(image) => View(n.mem, n.root) = LoadedImage(image)
    BY <2>1, <2>3, <2>4, LoadedIsSeen DEF Shows, loaded
  <2>6. n.ok => View(n.mem, n.root) = Promised(n, image)
    BY <2>5 DEF Promised
  <2> QED BY <1>1, <2>4, <2>6 DEF Shows
<1> QED BY <1>2, <1>3

-----------------------------------------------------------------------------
(***************************************************************************)
(* The steps.  What a process has in its memory is a function of its       *)
(* frames, so it is kept by whatever keeps the content of its space.       *)
(***************************************************************************)
Views == [p \in Pids |-> Content(machine.mem, Roots[p])]

\* expected says something of every process.
AsWritten == \A p \in InTable : View(machine.mem, procs[p].cr3) = expected[p]
WrittenInv == MemInv /\ AsWritten /\ expected = [p \in Pids |-> expected[p]]

LEMMA OwnSeen == SeenAs(machine.mem, Roots, Views)
BY DEF SeenAs, Views

LEMMA SameContentSeen ==
  ASSUME NEW mem, NEW mem2, NEW r, Content(mem2, r) = Content(mem, r)
  PROVE  View(mem2, r) = View(mem, r)
<1>1. /\ View(mem, r) = [v \in Vaddrs |-> Content(mem, r)[v \div W][v % W]]
      /\ View(mem2, r) = [v \in Vaddrs |-> Content(mem2, r)[v \div W][v % W]]
  BY ViewOfContent
<1> QED BY <1>1

LEMMA StillSeen ==
  ASSUME WrittenInv, NEW mem, SeenAs(mem, Roots, Views), NEW p \in InTable
  PROVE  /\ p \in Pids /\ procs[p].cr3 = Roots[p] /\ Roots[p] # 0
         /\ View(mem, procs[p].cr3) = expected[p]
<1> DEFINE r == Roots[p]
           old == machine.mem
<1>1. p \in Pids /\ r = procs[p].cr3 /\ r # 0
  BY RootsTyped DEF InTable, MemInv, WrittenInv
<1>2. Content(mem, r) = Content(old, r)
  BY <1>1 DEF SeenAs, Views
<1>3. View(old, r) = expected[p]
  BY <1>1 DEF WrittenInv, AsWritten
<1> HIDE DEF r, old
<1>4. View(mem, r) = View(old, r)
  BY <1>2, SameContentSeen
<1> QED BY <1>1, <1>3, <1>4 DEF r

LEMMA InitWritten == Init => WrittenInv
<1> SUFFICES ASSUME Init PROVE WrittenInv
  OBVIOUS
<1>1. MemInv
  BY InitMemInv
<1>2. InTable = {} /\ expected = [p \in Pids |-> [v \in Vaddrs |-> Unmapped]]
  BY DEF Init, InTable, Nobody
<1>3. expected = [p \in Pids |-> expected[p]]
  BY <1>2
<1> QED BY <1>1, <1>2, <1>3 DEF WrittenInv, AsWritten

(***************************************************************************)
(* A process enters with the memory it was made with.                      *)
(***************************************************************************)
LEMMA EnterWrites ==
  ASSUME WrittenInv, NEW m, m \in Machines, SeenAs(m.mem, Roots, Views), next_pid <= MaxPid,
         NEW parent, NEW image, m.ok => View(m.mem, m.root) = image, Enter(m, parent, image), MemInv'
  PROVE  WrittenInv'
<1> DEFINE q == next_pid
           mem == m.mem
<1>1. machine'.mem = mem
  BY DroppedParts DEF Enter, Done, Dropped
<1>2. q \in Pids /\ procs[q].state = "Free" /\ procs \in [Pids -> Entry]
  BY MaxProcessesAssumption DEF WrittenInv, MemInv, Pids
<1>3. ASSUME NEW p \in InTable
      PROVE  p \in Pids /\ View(mem, procs[p].cr3) = expected[p]
  <2> HIDE DEF mem
  <2>1. SeenAs(mem, Roots, Views)
    BY DEF mem
  <2> QED BY <2>1, StillSeen
<1>4. CASE ~m.ok \/ TableFull
  <2>1. procs' = procs /\ expected' = expected
    BY <1>4 DEF Enter
  <2>2. InTable' = InTable
    BY <2>1 DEF InTable
  <2> HIDE DEF mem
  <2>3. AsWritten'
    BY <1>1, <1>3, <2>1, <2>2 DEF AsWritten
  <2>4. expected' = [p \in Pids |-> expected'[p]]
    BY <2>1 DEF WrittenInv
  <2> QED BY <2>3, <2>4 DEF WrittenInv
<1>5. CASE m.ok /\ ~TableFull
  <2> DEFINE entry == [state |-> "Alive", parent |-> parent, cr3 |-> m.root]
  <2>1. procs' = [procs EXCEPT ![q] = entry] /\ expected' = [expected EXCEPT ![q] = image]
    BY <1>5 DEF Enter
  <2>2. entry.cr3 = m.root /\ View(mem, m.root) = image
    BY <1>5
  <2> HIDE DEF entry, mem
  <2>3. \A p \in Pids : procs'[p] = IF p = q THEN entry ELSE procs[p]
    BY <1>2, <2>1
  <2>4. expected = [p \in Pids |-> expected[p]]
    BY DEF WrittenInv
  <2>5. expected' = [p \in Pids |-> IF p = q THEN image ELSE expected[p]]
    BY <1>2, <2>1, <2>4
  <2> HIDE DEF q
  <2>6. ASSUME NEW p \in InTable'
        PROVE  View(machine'.mem, procs'[p].cr3) = expected'[p]
    <3>1. p \in Pids /\ procs'[p].state # "Free"
      BY <2>6 DEF InTable
    <3>2. CASE p = q
      BY <1>1, <2>2, <2>3, <2>5, <3>1, <3>2
    <3>3. CASE p # q
      <4>1. p \in InTable
        BY <2>3, <3>1, <3>3 DEF InTable
      <4> QED BY <1>1, <1>3, <2>3, <2>5, <3>3, <4>1
    <3> QED BY <3>2, <3>3
  <2>7. AsWritten'
    BY <2>6 DEF AsWritten
  <2>8. expected' = [p \in Pids |-> expected'[p]]
    BY <2>5
  <2> QED BY <2>7, <2>8 DEF WrittenInv
<1> QED BY <1>4, <1>5

LEMMA SpawnWrites ==
  ASSUME WrittenInv, NEW image \in Images, SpawnUserProcess(image), ~spoilt'
  PROVE  WrittenInv'
<1> DEFINE m == LoadElfIntoNewSpace(machine, image)
<1>1. MemInv /\ Sound(machine, Roots) /\ machine.root = 0
  BY DEF WrittenInv, MemInv
<1>2. InUserPart(image) /\ Enter(m, 0, Promised(m, image)) /\ next_pid <= MaxPid
  BY DEF SpawnUserProcess, Spoil
<1>3. /\ Sound(m, Roots) /\ SeenAs(m.mem, Roots, Views)
      /\ m.ok => View(m.mem, m.root) = Promised(m, image)
  BY <1>1, <1>2, OwnSeen, LoadShows, RootsTyped
<1>4. MemInv'
  BY <1>1, SpawnKeeps
<1> HIDE DEF m
<1>5. m \in Machines
  BY <1>3, SoundParts
<1> DEFINE words == Promised(m, image)
<1> HIDE DEF words
<1>6. Enter(m, 0, words) /\ (m.ok => View(m.mem, m.root) = words)
  BY <1>2, <1>3 DEF words
<1> QED BY <1>2, <1>3, <1>4, <1>5, <1>6, EnterWrites

LEMMA ForkWrites ==
  ASSUME WrittenInv, SysFork
  PROVE  WrittenInv'
<1> DEFINE c == current_pid
           r == cr3
           m == CloneUserSpace(machine, procs[c].cr3, r)
<1>1. MemInv /\ Sound(machine, Roots) /\ machine.root = 0 /\ c # 0 /\ procs[c].state = "Alive"
  BY DEF WrittenInv, MemInv, SysFork, Running
<1>2. c \in Pids /\ r = Roots[c] /\ procs[c].cr3 = r /\ r # 0
  BY <1>1, RootsTyped
<1>3. c \in InTable
  BY <1>1, <1>2 DEF InTable
<1>4. Enter(m, c, expected[c]) /\ next_pid <= MaxPid
  BY DEF SysFork
<1>5. m = CloneUserSpace(machine, r, r)
  BY <1>2
<1> HIDE DEF m, r, c
<1>6. Shows(m, Roots, Views, Views[c])
  BY <1>1, <1>2, <1>5, OwnSeen, CloneShows
<1>7. SeenAs(m.mem, Roots, Views) /\ m \in Machines
  BY <1>6, SoundParts DEF Shows, Building
<1>8. m.ok => View(m.mem, m.root) = expected[c]
  <2> SUFFICES ASSUME m.ok PROVE View(m.mem, m.root) = expected[c]
    OBVIOUS
  <2>1. Content(m.mem, m.root) = Content(machine.mem, r)
    BY <1>2, <1>6 DEF Shows, Views
  <2>2. View(machine.mem, r) = expected[c]
    BY <1>2, <1>3 DEF WrittenInv, AsWritten
  <2>3. /\ View(m.mem, m.root) = [v \in Vaddrs |-> Content(m.mem, m.root)[v \div W][v % W]]
        /\ View(machine.mem, r) = [v \in Vaddrs |-> Content(machine.mem, r)[v \div W][v % W]]
    BY ViewOfContent
  <2> QED BY <2>1, <2>2, <2>3
<1>9. MemInv'
  BY <1>1, ForkKeeps
<1> QED BY <1>4, <1>7, <1>8, <1>9, EnterWrites

(***************************************************************************)
(* Steps that leave memory alone.                                          *)
(***************************************************************************)
LEMMA QuietWrites ==
  ASSUME WrittenInv, machine' = machine, expected' = expected, MemInv',
         \A p \in Pids : procs'[p].cr3 = procs[p].cr3 /\ (procs'[p].state = "Free" <=> procs[p].state = "Free")
  PROVE  WrittenInv'
<1>1. InTable' = InTable /\ \A p \in InTable : procs'[p].cr3 = procs[p].cr3
  BY DEF InTable
<1>2. AsWritten'
  BY <1>1 DEF AsWritten, WrittenInv
<1> QED BY <1>2 DEF WrittenInv

LEMMA ExitWrites ==
  ASSUME WrittenInv, SysExit
  PROVE  WrittenInv'
<1> DEFINE c == current_pid
<1>1. MemInv /\ MemInv'
  BY ExitKeeps DEF WrittenInv
<1>2. machine' = machine /\ expected' = expected /\ procs[c].state = "Alive" /\ c # 0
      /\ procs' = [procs EXCEPT ![c].state = "Zombie"]
  BY DEF SysExit, Running
<1>3. c \in Pids /\ procs \in [Pids -> Entry]
  BY <1>1, <1>2, RootsTyped DEF MemInv
<1>4. \A p \in Pids : procs'[p].cr3 = procs[p].cr3 /\ (procs'[p].state = "Free" <=> procs[p].state = "Free")
  BY <1>2, <1>3 DEF Entry
<1> QED BY <1>1, <1>2, <1>4, QuietWrites

(***************************************************************************)
(* waitpid: dealloc_user clears no frame, the others keep theirs.          *)
(***************************************************************************)
LEMMA WaitpidWrites ==
  ASSUME WrittenInv, NEW q \in Pids, SysWaitpid(q)
  PROVE  WrittenInv'
<1> DEFINE m == DeallocUser(machine, procs[q].cr3)
           gone == [v \in Vaddrs |-> Unmapped]
<1>1. MemInv /\ MemInv'
  BY WaitpidKeeps DEF WrittenInv
<1>2. procs' = [procs EXCEPT ![q] = Nobody] /\ expected' = [expected EXCEPT ![q] = gone]
      /\ machine' = Dropped(m) /\ procs[q].state = "Zombie"
  BY DEF SysWaitpid, Done, Dropped
<1>3. Roots \in [Pids -> 0..NFrames] /\ Roots[q] = procs[q].cr3 /\ Roots[q] # 0 /\ Sound(machine, Roots)
      /\ procs \in [Pids -> Entry]
  BY <1>1, <1>2, RootsTyped DEF MemInv
<1>4. Sound(m, [Roots EXCEPT ![q] = 0]) /\ m.mem = machine.mem
  BY <1>3, DeallocSound
<1> HIDE DEF m, gone
<1>5. machine'.mem = machine.mem
  BY <1>2, <1>4, SoundParts, DroppedParts
<1>6. expected' = [p \in Pids |-> IF p = q THEN gone ELSE expected[p]]
  BY <1>2 DEF WrittenInv
<1>7. \A p \in Pids : procs'[p] = IF p = q THEN Nobody ELSE procs[p]
  BY <1>2, <1>3
<1>8. ASSUME NEW p \in InTable'
      PROVE  View(machine'.mem, procs'[p].cr3) = expected'[p]
  <2>1. p \in Pids /\ procs'[p].state # "Free"
    BY <1>8 DEF InTable
  <2>2. p # q /\ p \in InTable
    BY <1>7, <2>1 DEF Nobody, InTable
  <2>3. View(machine.mem, procs[p].cr3) = expected[p]
    BY <2>2 DEF WrittenInv, AsWritten
  <2> QED BY <1>5, <1>6, <1>7, <2>1, <2>2, <2>3
<1>9. AsWritten'
  BY <1>8 DEF AsWritten
<1> QED BY <1>1, <1>6, <1>9 DEF WrittenInv

(***************************************************************************)
(* A store changes one word of what its own process sees.                  *)
(***************************************************************************)
LEMMA WordSeen ==
  ASSUME NEW mem \in Memory, NEW own, NEW p, NEW r, Space(mem, own, p, r), NEW v \in Vaddrs,
         NEW f, f = Translate(mem, r, v \div W), f # 0, NEW word,
         NEW words, words = [mem[f] EXCEPT ![v % W] = word]
  PROVE  View([mem EXCEPT ![f] = words], r) = [View(mem, r) EXCEPT ![v] = word]
<1> DEFINE page == v \div W
           i == v % W
           mem2 == [mem EXCEPT ![f] = words]
<1>1. page \in Pages /\ i \in Indices
  BY VaddrsIndexed
<1>2. f \in Frames /\ Content(mem2, r) = [Content(mem, r) EXCEPT ![page] = words]
  BY <1>1, FillContent
<1>3. Content(mem, r)[page] = mem[f]
  BY <1>1 DEF Content, PageAt
<1>4. mem[f] \in Words
  BY <1>2 DEF Memory
<1>5. /\ View(mem, r) = [u \in Vaddrs |-> Content(mem, r)[u \div W][u % W]]
      /\ View(mem2, r) = [u \in Vaddrs |-> Content(mem2, r)[u \div W][u % W]]
  BY ViewOfContent
<1>6. ASSUME NEW u \in Vaddrs
      PROVE  Content(mem2, r)[u \div W][u % W] =
               IF u = v THEN word ELSE Content(mem, r)[u \div W][u % W]
  <2> DEFINE q == u \div W
             j == u % W
  <2>1. q \in Pages /\ j \in Indices
    BY VaddrsIndexed
  <2>2. q = page /\ j = i => u = v
    BY SamePage DEF Vaddrs
  <2>3. u = v => q = page /\ j = i
    OBVIOUS
  <2>4. DOMAIN Content(mem, r) = Pages
    BY DEF Content
  <2> HIDE DEF q, j, page, i, mem2
  <2>5. CASE q = page
    <3>1. Content(mem2, r)[q] = words /\ Content(mem, r)[q] = mem[f]
      BY <1>1, <1>2, <1>3, <2>4, <2>5
    <3>2. words[j] = IF j = i THEN word ELSE mem[f][j]
      BY <1>1, <1>4, <2>1 DEF Words, i
    <3> QED BY <2>2, <2>3, <2>5, <3>1, <3>2 DEF q, j
  <2>6. CASE q # page
    <3>1. Content(mem2, r)[q] = Content(mem, r)[q]
      BY <1>1, <1>2, <2>1, <2>4, <2>6
    <3> QED BY <2>3, <2>6, <3>1 DEF q, j
  <2> QED BY <2>5, <2>6
<1> HIDE DEF mem2
<1>7. View(mem2, r) = [View(mem, r) EXCEPT ![v] = word]
  BY <1>5, <1>6
<1> QED BY <1>7 DEF mem2

LEMMA WriteWrites ==
  ASSUME WrittenInv, NEW v \in Vaddrs, NEW word \in Nat, UserWrite(v, word)
  PROVE  WrittenInv'
<1> DEFINE c == current_pid
           r == cr3
           f == Translate(machine.mem, r, v \div W)
           words == [machine.mem[f] EXCEPT ![v % W] = word]
           mem == machine.mem
           mem2 == [mem EXCEPT ![f] = words]
<1>1. MemInv /\ MemInv'
  BY WriteKeeps DEF WrittenInv
<1>2. f \in Frames /\ machine' = [machine EXCEPT !.mem[f] = words] /\ procs' = procs /\ c # 0
      /\ procs[c].state = "Alive" /\ expected' = [expected EXCEPT ![c][v] = word]
  BY DEF UserWrite, Running
<1>3. PICK own : Owning(machine, Roots, own)
  BY <1>1 DEF MemInv, Sound
<1>4. c \in Pids /\ r = Roots[c] /\ r # 0 /\ c \in Int /\ procs[c].cr3 = r
  BY <1>1, <1>2, RootsTyped DEF Pids
<1>5. machine \in Machines /\ mem \in Memory /\ Space(mem, own, c, r) /\ f # 0
  BY <1>2, <1>3, <1>4, FrameNumbers DEF Owning, Spaces, Machines
<1>6. v \div W \in Indices \union Pages /\ v \div W \in Pages /\ v % W \in Indices
  BY VaddrsIndexed
<1>7. own[f][1] = c
  <2> DEFINE page == v \div W
  <2>1. page \div W \in Indices /\ page % W \in Indices
    BY <1>6, PagesIndexed
  <2> HIDE DEF page
  <2>2. f = Translate(mem, r, page)
    BY DEF page
  <2> HIDE DEF f, mem
  <2>3. own[f] = <<c, page \div W, page % W>>
    BY <1>5, <2>1, <2>2, TranslateOwns
  <2> QED BY <2>3
<1>8. machine'.mem = mem2
  BY <1>2, <1>5 DEF Machines
<1>9. View(mem2, r) = [View(mem, r) EXCEPT ![v] = word]
  <2>1. f = Translate(mem, r, v \div W) /\ words = [mem[f] EXCEPT ![v % W] = word]
    OBVIOUS
  <2> HIDE DEF f, words, mem, c, r
  <2>2. mem \in Memory /\ Space(mem, own, c, r) /\ f # 0
    BY <1>5
  <2>3. View([mem EXCEPT ![f] = words], r) = [View(mem, r) EXCEPT ![v] = word]
    BY <2>1, <2>2, WordSeen
  <2> QED BY <2>3
<1> HIDE DEF words, f, mem
<1>10. \A g \in Frames : g # f => mem2[g] = mem[g]
  BY <1>5 DEF Memory
<1> HIDE DEF mem2, c, r
<1>11. InTable' = InTable
  BY <1>2 DEF InTable
<1>12. c \in InTable
  BY <1>2, <1>4 DEF InTable
<1>13. expected' = [p \in Pids |-> IF p = c THEN [expected[c] EXCEPT ![v] = word] ELSE expected[p]]
  BY <1>2 DEF WrittenInv
<1>14. ASSUME NEW p \in InTable
       PROVE  View(mem2, procs[p].cr3) = expected'[p]
  <2>1. p \in Pids /\ View(mem, procs[p].cr3) = expected[p]
    BY DEF WrittenInv, AsWritten, InTable, mem
  <2>2. CASE p = c
    BY <1>4, <1>9, <1>13, <2>1, <2>2
  <2>3. CASE p # c
    <3> DEFINE root == Roots[p]
    <3>1. root = procs[p].cr3 /\ root # 0 /\ p \in Int
      BY <1>1, RootsTyped DEF MemInv, InTable, Pids
    <3>2. Space(mem, own, p, root)
      BY <1>3, <2>1, <3>1 DEF Owning, Spaces, mem
    <3> HIDE DEF root
    <3>3. \A g \in Frames : own[g][1] = p => mem2[g] = mem[g]
      BY <1>7, <1>10, <2>3
    <3>4. Content(mem2, root) = Content(mem, root)
      BY <3>1, <3>2, <3>3, ContentKept
    <3>5. View(mem2, root) = View(mem, root)
      BY <3>4, SameContentSeen
    <3> QED BY <1>13, <2>1, <2>3, <3>1, <3>5
  <2> QED BY <2>2, <2>3
<1>15. AsWritten'
  BY <1>2, <1>8, <1>11, <1>14 DEF AsWritten
<1> QED BY <1>1, <1>13, <1>15 DEF WrittenInv

(***************************************************************************)
(* exec.  The argument block goes to one frame; an address whose walk does *)
(* not touch that frame reads as before.                                   *)
(***************************************************************************)
LEMMA UnhitSeen ==
  ASSUME NEW mem, NEW own, NEW p, NEW r, Space(mem, own, p, r), NEW mem2, NEW a,
         \A g \in Frames : g # a => mem2[g] = mem[g],
         NEW v \in Vaddrs, a \notin Walk(mem2, r, v)
  PROVE  View(mem2, r)[v] = View(mem, r)[v]
<1> DEFINE page == v \div W
           i == page \div W
           j == page % W
           t == mem[r][i]
           f == Translate(mem, r, page)
           f2 == Translate(mem2, r, page)
<1>1. page \in Pages
  BY VaddrsIndexed
<1>2. i \in Indices /\ j \in Indices
  <2> HIDE DEF page
  <2> QED BY <1>1, PagesIndexed
<1>3. a # r /\ a # mem2[r][i] /\ a # f2
  BY DEF Walk
<1>4. r \in Frames
  BY DEF Space
<1>5. mem2[r] = mem[r]
  BY <1>3, <1>4
<1>6. f2 = f
  <2>1. CASE t \notin Frames
    BY <1>5, <2>1 DEF Translate
  <2>2. CASE t \in Frames
    <3>1. mem2[t] = mem[t]
      BY <1>3, <1>5, <2>2
    <3> QED BY <1>5, <3>1 DEF Translate
  <2> QED BY <2>1, <2>2
<1>7. f # 0 => f \in Frames
  <2> HIDE DEF page
  <2> QED BY <1>2, TranslateOwns
<1> HIDE DEF f, f2
<1>8. f # 0 => mem2[f] = mem[f]
  BY <1>3, <1>6, <1>7
<1>9. /\ View(mem, r)[v] = IF f = 0 THEN Unmapped ELSE mem[f][v % W]
      /\ View(mem2, r)[v] = IF f2 = 0 THEN Unmapped ELSE mem2[f2][v % W]
  BY DEF View, f, f2
<1> QED BY <1>6, <1>8, <1>9

(***************************************************************************)
(* expected after exec is what is in memory after exec.                    *)
(***************************************************************************)
LEMMA DamageSeen ==
  ASSUME WrittenInv, current_pid \in InTable, NEW image, NEW argc \in ArgumentCounts,
         NEW m, Sound(m, Roots), m.root # 0, SeenAs(m.mem, Roots, Views),
         View(m.mem, m.root) = Promised(m, image),
         NEW p \in InTable
  PROVE  ExecDamage(m, image, argc)[p] =
           View(PushArguments(m, argc).mem, IF p = current_pid THEN m.root ELSE procs[p].cr3)
<1> DEFINE c == current_pid
           hit == PushArguments(m, argc).mem
           a == ArgumentFrame(m)
           root == IF p = c THEN m.root ELSE procs[p].cr3
           ideal == [expected EXCEPT ![c] = Promised(m, image)]
<1>1. PICK own : Owning(m, Roots, own)
  BY DEF Sound
<1>2. /\ p \in Pids /\ c \in Pids /\ procs[p].cr3 = Roots[p] /\ Roots[p] # 0
      /\ View(m.mem, procs[p].cr3) = expected[p]
  <2> DEFINE mem == m.mem
  <2> HIDE DEF mem
  <2>1. SeenAs(mem, Roots, Views)
    BY DEF mem
  <2>2. /\ p \in Pids /\ procs[p].cr3 = Roots[p] /\ Roots[p] # 0
        /\ View(mem, procs[p].cr3) = expected[p]
    BY <2>1, StillSeen
  <2> QED BY <2>2 DEF mem, InTable
<1>3. ideal[p] = View(m.mem, root)
  <2>1. expected = [q \in Pids |-> expected[q]]
    BY DEF WrittenInv
  <2>2. CASE p = c
    BY <1>2, <2>1, <2>2
  <2>3. CASE p # c
    BY <1>2, <2>1, <2>3
  <2> QED BY <2>2, <2>3
<1>4. \E q : Space(m.mem, own, q, root)
  <2>1. CASE p = c
    BY <1>1, <2>1 DEF Owning
  <2>2. CASE p # c
    BY <1>1, <1>2, <2>2 DEF Owning, Spaces
  <2> QED BY <2>1, <2>2
<1>5. m \in Machines
  BY <1>1 DEF Owning
<1>6. \A g \in Frames : g # a => hit[g] = m.mem[g]
  BY <1>5, PushParts
<1>7. ExecDamage(m, image, argc)[p] =
        [v \in Vaddrs |-> IF a \in Walk(hit, root, v) THEN View(hit, root)[v] ELSE ideal[p][v]]
  BY <1>2 DEF ExecDamage
<1> HIDE DEF hit, a, root, ideal
<1>8. ASSUME NEW v \in Vaddrs
      PROVE  (IF a \in Walk(hit, root, v) THEN View(hit, root)[v] ELSE ideal[p][v]) = View(hit, root)[v]
  <2>1. CASE a \in Walk(hit, root, v)
    BY <2>1
  <2>2. CASE a \notin Walk(hit, root, v)
    <3> DEFINE mem == m.mem
    <3>1. PICK q : Space(mem, own, q, root)
      BY <1>4
    <3>2. (\A g \in Frames : g # a => hit[g] = mem[g]) /\ ideal[p] = View(mem, root)
      BY <1>3, <1>6
    <3> HIDE DEF mem
    <3>3. View(hit, root)[v] = View(mem, root)[v]
      BY <2>2, <3>1, <3>2, UnhitSeen
    <3> QED BY <2>2, <3>2, <3>3
  <2> QED BY <2>1, <2>2
<1>9. View(hit, root) = [v \in Vaddrs |-> View(hit, root)[v]]
  BY DEF View
<1>10. ExecDamage(m, image, argc)[p] = View(hit, root)
  BY <1>7, <1>8, <1>9
<1> QED BY <1>10 DEF hit, root, c

LEMMA ExecWrites ==
  ASSUME WrittenInv, NEW image \in Images, NEW argc \in ArgumentCounts, SysExec(image, argc), ~spoilt'
  PROVE  WrittenInv'
<1> DEFINE c == current_pid
           m == LoadElfIntoNewSpace(machine, image)
           n == PushArguments(m, argc)
           d == DeallocUser(n, procs[c].cr3)
<1>1. MemInv /\ MemInv'
  BY ExecKeeps DEF WrittenInv
<1>2. InUserPart(image) /\ c # 0 /\ procs[c].state = "Alive"
      /\ IF ~m.ok THEN machine' = Dropped(m) /\ procs' = procs /\ expected' = expected
         ELSE /\ ~Spoils(m, argc)
              /\ machine' = Dropped(d) /\ procs' = [procs EXCEPT ![c].cr3 = n.root]
              /\ expected' = ExecDamage(m, image, argc)
  BY ExecParts
<1>3. c \in Pids /\ procs \in [Pids -> Entry] /\ Sound(machine, Roots) /\ machine.root = 0
  BY <1>1, <1>2, RootsTyped DEF MemInv
<1>4. c \in InTable
  BY <1>2, <1>3 DEF InTable
<1>5. /\ Sound(m, Roots) /\ (m.ok => m.root # 0)
      /\ SeenAs(m.mem, Roots, Views)
      /\ m.ok => View(m.mem, m.root) = Promised(m, image)
  BY <1>1, <1>2, <1>3, OwnSeen, LoadShows, RootsTyped
<1> HIDE DEF m
<1>6. CASE ~m.ok
  <2> DEFINE mem == m.mem
  <2>1. machine' = Dropped(m) /\ procs' = procs /\ expected' = expected
    BY <1>2, <1>6
  <2>2. machine'.mem = mem
    BY <1>5, <2>1, SoundParts, DroppedParts
  <2>3. InTable' = InTable
    BY <2>1 DEF InTable
  <2>4. SeenAs(mem, Roots, Views)
    BY <1>5
  <2> HIDE DEF mem
  <2>5. \A p \in InTable : View(mem, procs[p].cr3) = expected[p]
    BY <2>4, StillSeen
  <2>6. AsWritten'
    BY <2>1, <2>2, <2>3, <2>5 DEF AsWritten
  <2> QED BY <1>1, <2>1, <2>6 DEF WrittenInv
<1>7. CASE m.ok
  <2> DEFINE hit == n.mem
  <2>1. machine' = Dropped(d) /\ procs' = [procs EXCEPT ![c].cr3 = n.root] /\ expected' = ExecDamage(m, image, argc)
    BY <1>2, <1>7
  <2>2. Sound(n, Roots) /\ n.root = m.root
    BY <1>1, <1>2, <1>5, <1>7, ArgumentsSound
  <2>3. ASSUME NEW p \in InTable
        PROVE  expected'[p] = View(hit, IF p = c THEN m.root ELSE procs[p].cr3)
    BY <1>4, <1>5, <1>7, <2>1, DamageSeen
  <2>4. expected' = [p \in Pids |-> expected'[p]]
    BY <2>1 DEF ExecDamage
  <2>5. Roots \in [Pids -> 0..NFrames] /\ Roots[c] = procs[c].cr3 /\ Roots[c] # 0
    BY <1>1, <1>2, <1>3, RootsTyped DEF MemInv
  <2> HIDE DEF n
  <2>6. d.mem = hit /\ d \in Machines
    <3>1. /\ Sound(DeallocUser(n, Roots[c]), [Roots EXCEPT ![c] = 0])
          /\ DeallocUser(n, Roots[c]).mem = n.mem
      BY <1>3, <2>2, <2>5, DeallocSound
    <3> QED BY <2>5, <3>1, SoundParts
  <2> HIDE DEF d, hit
  <2>7. machine'.mem = hit
    BY <2>1, <2>6, DroppedParts
  <2>8. \A p \in Pids : procs'[p].state = procs[p].state
          /\ procs'[p].cr3 = IF p = c THEN m.root ELSE procs[p].cr3
    BY <1>3, <2>1, <2>2 DEF Entry
  <2>9. InTable' = InTable
    BY <2>8 DEF InTable
  <2>10. ASSUME NEW p \in InTable
         PROVE  View(hit, procs'[p].cr3) = expected'[p]
    <3>1. procs'[p].cr3 = IF p = c THEN m.root ELSE procs[p].cr3
      BY <2>8 DEF InTable
    <3> QED BY <2>3, <3>1
  <2>11. AsWritten'
    BY <2>7, <2>9, <2>10 DEF AsWritten
  <2> QED BY <1>1, <2>4, <2>11 DEF WrittenInv
<1> QED BY <1>6, <1>7

LEMMA NextWrites ==
  ASSUME WrittenInv, Next, ~spoilt'
  PROVE  WrittenInv'
<1>1. ASSUME NEW image \in Images, SpawnUserProcess(image)
      PROVE  WrittenInv'
  BY <1>1, SpawnWrites
<1>2. ASSUME NEW image \in Images, NEW argc \in ArgumentCounts, SysExec(image, argc)
      PROVE  WrittenInv'
  BY <1>2, ExecWrites
<1>3. ASSUME NEW p \in Pids, Dispatch(p)
      PROVE  WrittenInv'
  <2>1. MemInv'
    BY <1>3, DispatchKeeps DEF WrittenInv
  <2>2. machine' = machine /\ expected' = expected /\ procs' = procs
    BY <1>3 DEF Dispatch
  <2> QED BY <2>1, <2>2, QuietWrites
<1>4. ASSUME NEW p \in Pids, SysWaitpid(p)
      PROVE  WrittenInv'
  BY <1>4, WaitpidWrites
<1>5. CASE SysFork
  BY <1>5, ForkWrites
<1>6. CASE SysExit
  BY <1>6, ExitWrites
<1>7. ASSUME NEW w \in Writes, UserWrite(w[1], w[2])
      PROVE  WrittenInv'
  <2>1. w[1] \in Vaddrs /\ w[2] \in Nat
    BY WritesAssumption
  <2> QED BY <1>7, <2>1, WriteWrites
<1> QED BY <1>1, <1>2, <1>3, <1>4, <1>5, <1>6, <1>7 DEF Next

(***************************************************************************)
(* Every process finds in its memory what the loader, fork and it itself   *)
(* put there: the loader copies every word of the file to where ELF wants  *)
(* it and clears the rest (where the file is what ELF demands), fork       *)
(* copies all pages of the parent, and no operation on one space, whether  *)
(* it succeeds or fails halfway, touches the frames of another, but for    *)
(* the argument block.  It ends where FramesHaveOneUse ends.               *)
(***************************************************************************)
THEOREM MemoryIsAsWritten == Spec => []MemoryAsWritten
<1> DEFINE Inv == ~spoilt => WrittenInv
<1>1. Init => Inv
  BY InitWritten
<1>2. Inv /\ [Next]_vars => Inv'
  <2>1. ASSUME Inv, Next, ~spoilt'
        PROVE  WrittenInv'
    BY <2>1, NextWrites, SpoiltAgrees
  <2>2. ASSUME Inv, UNCHANGED vars, ~spoilt'
        PROVE  WrittenInv'
    <3>1. machine' = machine /\ procs' = procs /\ next_pid' = next_pid /\ current_pid' = current_pid
          /\ cr3' = cr3 /\ expected' = expected /\ spoilt' = spoilt
      BY <2>2 DEF vars
    <3>2. Roots' = Roots
      BY <3>1 DEF Roots
    <3>3. MemInv' /\ WrittenInv
      BY <2>2, <3>1, <3>2 DEF MemInv, WrittenInv
    <3> QED BY <3>1, <3>3, QuietWrites
  <2> QED BY <2>1, <2>2
<1>3. Inv => MemoryAsWritten
  BY DEF WrittenInv, AsWritten, MemoryAsWritten
<1> HIDE DEF Inv
<1> QED BY <1>1, <1>2, <1>3, PTL DEF Spec

=============================================================================
