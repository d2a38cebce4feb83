------------------------ MODULE WindowManagerProofs ------------------------
(***************************************************************************)
(* The window list, the focus, the grip of a drag and the reach of the     *)
(* title bars, for every screen, every number of windows, and every        *)
(* sequence of clicks, drags, creations and destructions.                  *)
(*                                                                         *)
(* The parts of the inductive invariant are stated for a window list, a    *)
(* cursor and a drag as values, since an event changes the list in several *)
(* steps.  The focus needs that identifiers are unique; the grip needs     *)
(* that identifiers are never reused, so that a drag whose window was      *)
(* destroyed does not take hold of another one; the title bars stay on the *)
(* screen because of the grip and the clamped cursor.                      *)
(***************************************************************************)
EXTENDS WindowManagerProps, Least, FiniteSetTheorems, SequenceTheorems

Window == [id : Nat, x : Int, y : Int, width : Nat, height : Nat,
           z_order : Nat, focused : BOOLEAN]

OpenIn(ws) == {i \in Slots : ws[i].id # 0}

ListOK(ws, n, ni, nz) ==
  /\ ws \in [Slots -> Window]
  /\ n = Cardinality(OpenIn(ws))
  /\ ni \in 1 .. MaxId + 1 /\ nz \in 1 .. MaxZ + 1
  /\ \A i \in OpenIn(ws) : ws[i].id < ni /\ ws[i].z_order \in 1 .. nz - 1
  /\ \A i, j \in OpenIn(ws) : i # j => ws[i].id # ws[j].id /\ ws[i].z_order # ws[j].z_order

FocusOK(ws) == \A i, j \in OpenIn(ws) : ws[i].focused /\ ws[j].focused => i = j

Gripped(w, c, d) ==
  /\ c.x - w.x = d.offset_x
  /\ c.y - w.y = d.offset_y
  /\ IsInTitleBar(w, c.x, c.y)

GripOK(ws, c, d) ==
  d.window_id # 0 =>
    c.left /\ \A i \in Slots : ws[i].id = d.window_id => Gripped(ws[i], c, d)

OnScreen(w) == \E p \in Screen : IsInTitleBar(w, p[1], p[2])

ReachOK(ws) == \A i \in OpenIn(ws) : OnScreen(ws[i])

\* Applications place the title bar of a new window at least partly on the
\* screen, as init does for the first one.
ShapesReachable == \A s \in Shapes : OnScreen(s)

Cursor == [x : 0 .. Width - 1, y : 0 .. Height - 1, left : BOOLEAN]
Drag   == [window_id : Nat, offset_x : Int, offset_y : Int]

WmInv ==
  /\ ListOK(windows, count, next_id, next_z)
  /\ FocusOK(windows)
  /\ GripOK(windows, cursor, drag)
  /\ ShapesReachable => ReachOK(windows)
  /\ cursor \in Cursor /\ drag \in Drag /\ drag.window_id < next_id

-----------------------------------------------------------------------------
(***************************************************************************)
(* SlotOf finds a slot with the identifier, or there is none.              *)
(***************************************************************************)
LEMMA SlotsLen ==
  ASSUME NEW S, NEW ws \in [Slots -> S]
  PROVE  Len(ws) = MaxWindows /\ 1..Len(ws) = Slots
<1>1. MaxWindows \in Nat
  BY WindowsAssumption
<1>2. ws \in Seq(S)
  BY <1>1 DEF Slots
<1>3. Len(ws) \in Nat /\ DOMAIN ws = 1..Len(ws)
  BY <1>2, LenProperties
<1>4. 1..Len(ws) = 1..MaxWindows
  BY <1>3 DEF Slots
<1>5. Len(ws) = MaxWindows
  <2> DEFINE n == Len(ws)
  <2>1. n \in Nat /\ \A k \in Int : k \in 1..n <=> k \in 1..MaxWindows
    BY <1>3, <1>4
  <2> HIDE DEF n
  <2>2. n \in 1..n => n <= MaxWindows
    BY <1>1, <2>1
  <2>3. MaxWindows \in 1..MaxWindows => MaxWindows <= n
    BY <1>1, <2>1
  <2>4. n = MaxWindows
    BY <1>1, <2>1, <2>2, <2>3
  <2> QED BY <2>4 DEF n
<1> QED BY <1>5 DEF Slots

LEMMA WindowsLen ==
  ASSUME NEW ws \in [Slots -> Window]
  PROVE  Len(ws) = MaxWindows /\ 1..Len(ws) = Slots
BY SlotsLen

LEMMA FirstSlot ==
  ASSUME NEW T \in SUBSET Slots
  PROVE  T # {} => Min(T) \in T /\ Min(T) \in Slots /\ Min(T) # 0
<1>1. T \in SUBSET Nat /\ 0 \notin T
  BY DEF Slots
<1> QED BY <1>1, MinOfNat

LEMMA SlotOfOK ==
  ASSUME windows \in [Slots -> Window], NEW id
  PROVE  \/ SlotOf(id) = 0 /\ \A i \in Slots : windows[i].id # id
         \/ SlotOf(id) \in Slots /\ SlotOf(id) # 0 /\ windows[SlotOf(id)].id = id
<1> DEFINE T == {i \in Slots : windows[i].id = id}
<1>1. SlotOf(id) = IF T # {} THEN Min(T) ELSE 0
  BY WindowsLen DEF SlotOf, SelectInSeq
<1>2. T \in SUBSET Slots
  OBVIOUS
<1>3. T # {} => Min(T) \in T /\ Min(T) \in Slots /\ Min(T) # 0
  <2> HIDE DEF T
  <2> QED BY <1>2, FirstSlot
<1>4. CASE T = {}
  BY <1>1, <1>4
<1>5. CASE T # {}
  <2>1. SlotOf(id) = Min(T)
    BY <1>1, <1>5
  <2> QED BY <1>3, <1>5, <2>1
<1> QED BY <1>4, <1>5

(***************************************************************************)
(* FocusedId is the identifier of an open window with the flag, 0 if there *)
(* is none.                                                                *)
(***************************************************************************)
Flagged(ws) == {i \in Slots : ws[i].id # 0 /\ ws[i].focused}

LEMMA FocusedIdOK ==
  ASSUME NEW ws \in [Slots -> Window]
  PROVE  /\ Flagged(ws) = {} => FocusedId(ws) = 0
         /\ Flagged(ws) # {} => /\ Min(Flagged(ws)) \in Flagged(ws)
                                /\ FocusedId(ws) = ws[Min(Flagged(ws))].id
<1> DEFINE T == Flagged(ws)
<1>1. SelectInSeq(ws, LAMBDA w : w.id # 0 /\ w.focused) = IF T # {} THEN Min(T) ELSE 0
  BY WindowsLen DEF SelectInSeq, Flagged
<1>2. T \in SUBSET Slots
  BY DEF Flagged
<1>3. T # {} => Min(T) \in T /\ Min(T) # 0
  <2> HIDE DEF T
  <2> QED BY <1>2, FirstSlot
<1>4. CASE T = {}
  BY <1>1, <1>4 DEF FocusedId
<1>5. CASE T # {}
  <2>1. SelectInSeq(ws, LAMBDA w : w.id # 0 /\ w.focused) = Min(T) /\ Min(T) # 0
    BY <1>1, <1>3, <1>5
  <2>2. FocusedId(ws) = ws[Min(T)].id
    BY <2>1 DEF FocusedId
  <2> QED BY <1>3, <1>5, <2>2
<1> QED BY <1>4, <1>5

LEMMA FocusedIdSame ==
  ASSUME NEW ws \in [Slots -> Window], NEW vs \in [Slots -> Window],
         Flagged(vs) = Flagged(ws), \A i \in Flagged(ws) : vs[i].id = ws[i].id
  PROVE  FocusedId(vs) = FocusedId(ws)
BY FocusedIdOK

(***************************************************************************)
(* hit_test finds a window at the point, and of those the topmost: the     *)
(* places in the stacking order are distinct, so that there is one.        *)
(***************************************************************************)
Hit(px, py) == {i \in Slots : windows[i].id # 0 /\ ContainsPoint(windows[i], px, py)}

LEMMA HitTestOK ==
  ASSUME ListOK(windows, count, next_id, next_z), NEW px, NEW py
  PROVE  /\ Hit(px, py) = {} => HitTest(px, py) = 0
         /\ Hit(px, py) # {} =>
              /\ HitTest(px, py) \in Hit(px, py)
              /\ \A j \in Hit(px, py) \ {HitTest(px, py)} :
                   windows[j].z_order < windows[HitTest(px, py)].z_order
<1> DEFINE H == Hit(px, py)
           Top(i) == \A j \in H \ {i} :
                        \/ windows[j].z_order < windows[i].z_order
                        \/ windows[j].z_order = windows[i].z_order /\ j < i
<1>1. HitTest(px, py) = IF H = {} THEN 0 ELSE CHOOSE i \in H : Top(i)
  BY DEF HitTest, Hit
<1>2. ASSUME H # {}
      PROVE  \E i \in H : Top(i)
  <2> DEFINE D == {next_z - windows[i].z_order : i \in H}
  <2>1. \A i \in H : i \in OpenIn(windows) /\ windows[i].z_order \in 1 .. next_z - 1
    BY DEF ListOK, Hit, OpenIn
  <2>2. next_z \in Nat
    BY DEF ListOK
  <2>3. D \in SUBSET Nat /\ D # {}
    BY <1>2, <2>1, <2>2
  <2>4. Min(D) \in D /\ \A x \in D : Min(D) <= x
    <3> HIDE DEF D
    <3> QED BY <2>3, MinOfNat
  <2>5. PICK i \in H : \A j \in H : next_z - windows[i].z_order <= next_z - windows[j].z_order
    BY <2>4
  <2>6. \A j \in H \ {i} : windows[j].z_order # windows[i].z_order
    BY <2>1 DEF ListOK
  <2>7. \A j \in H \ {i} : windows[j].z_order < windows[i].z_order
    BY <2>1, <2>2, <2>5, <2>6
  <2> QED BY <2>7
<1>3. ASSUME H # {}
      PROVE  /\ HitTest(px, py) \in H
             /\ \A j \in H \ {HitTest(px, py)} :
                  windows[j].z_order < windows[HitTest(px, py)].z_order
  <2>1. HitTest(px, py) \in H /\ Top(HitTest(px, py))
    <3> HIDE DEF H, Top
    <3> QED BY <1>1, <1>2, <1>3
  <2>2. \A i, j \in H : i # j => windows[i].z_order # windows[j].z_order
    BY DEF ListOK, Hit, OpenIn
  <2> HIDE DEF H
  <2> QED BY <2>1, <2>2
<1> QED BY <1>1, <1>3

-----------------------------------------------------------------------------
(***************************************************************************)
(* The operations of WindowList.                                           *)
(***************************************************************************)
LEMMA SlotsFinite == IsFiniteSet(Slots) /\ Cardinality(Slots) = MaxWindows
<1>1. MaxWindows \in Nat \ {0}
  BY WindowsAssumption
<1>2. 1 \in Int /\ MaxWindows \in Int
  BY <1>1
<1>3. IsFiniteSet(1..MaxWindows)
      /\ Cardinality(1..MaxWindows) = IF 1 > MaxWindows THEN 0 ELSE MaxWindows - 1 + 1
  BY <1>2, FS_Interval
<1> QED BY <1>1, <1>3 DEF Slots

LEMMA OpenFinite ==
  ASSUME NEW ws
  PROVE  /\ IsFiniteSet(OpenIn(ws)) /\ Cardinality(OpenIn(ws)) \in Nat
         /\ Cardinality(OpenIn(ws)) <= MaxWindows
         /\ Cardinality(OpenIn(ws)) = MaxWindows => OpenIn(ws) = Slots
<1>1. OpenIn(ws) \in SUBSET Slots
  BY DEF OpenIn
<1>2. /\ IsFiniteSet(OpenIn(ws)) /\ Cardinality(OpenIn(ws)) <= Cardinality(Slots)
      /\ Cardinality(Slots) = Cardinality(OpenIn(ws)) => Slots = OpenIn(ws)
  BY <1>1, SlotsFinite, FS_Subset
<1> QED BY <1>2, SlotsFinite, FS_CardinalityType

LEMMA EmptyWindow == Empty \in Window /\ Empty.id = 0
BY DEF Empty, Window

LEMMA PutOK ==
  ASSUME NEW ws, NEW n, NEW ni, NEW nz, ListOK(ws, n, ni, nz),
         NEW f \in Slots, ws[f].id = 0,
         NEW w \in Window, w.id = ni, w.z_order = nz, ni <= MaxId, nz <= MaxZ
  PROVE  ListOK([ws EXCEPT ![f] = w], n + 1, ni + 1, nz + 1)
<1> DEFINE vs == [ws EXCEPT ![f] = w]
<1>1. ws \in [Slots -> Window] /\ ni \in 1 .. MaxId + 1 /\ nz \in 1 .. MaxZ + 1
  BY DEF ListOK
<1>2. vs \in [Slots -> Window] /\ vs[f] = w /\ \A i \in Slots \ {f} : vs[i] = ws[i]
  BY <1>1
<1> HIDE DEF vs
<1>3. OpenIn(vs) = OpenIn(ws) \union {f} /\ f \notin OpenIn(ws)
  BY <1>1, <1>2 DEF OpenIn
<1>4. Cardinality(OpenIn(vs)) = n + 1
  <2>1. Cardinality(OpenIn(ws) \union {f}) = Cardinality(OpenIn(ws)) + 1
    BY <1>3, OpenFinite, FS_AddElement
  <2> QED BY <1>3, <2>1 DEF ListOK
<1>5. ni + 1 \in 1 .. MaxId + 1 /\ nz + 1 \in 1 .. MaxZ + 1
  BY <1>1, WindowsAssumption
<1>6. \A i \in OpenIn(ws) : /\ ws[i].id \in Nat /\ ws[i].id < ni
                            /\ ws[i].z_order \in 1 .. nz - 1 /\ vs[i] = ws[i]
  BY <1>1, <1>2, <1>3 DEF ListOK, Window, OpenIn
<1>7. \A i \in OpenIn(vs) : vs[i].id < ni + 1 /\ vs[i].z_order \in 1 .. nz
  BY <1>1, <1>2, <1>3, <1>6
<1>8. \A i, j \in OpenIn(vs) : i # j => vs[i].id # vs[j].id /\ vs[i].z_order # vs[j].z_order
  BY <1>1, <1>2, <1>3, <1>6 DEF ListOK
<1>9. ListOK(vs, n + 1, ni + 1, nz + 1)
  BY <1>1, <1>2, <1>4, <1>5, <1>7, <1>8 DEF ListOK
<1> QED BY <1>9 DEF vs

LEMMA TakeOK ==
  ASSUME NEW ws, NEW n, NEW ni, NEW nz, ListOK(ws, n, ni, nz),
         NEW f \in Slots, ws[f].id # 0
  PROVE  ListOK([ws EXCEPT ![f] = Empty], n - 1, ni, nz) /\ n \in Nat
<1> DEFINE vs == [ws EXCEPT ![f] = Empty]
<1>1. ws \in [Slots -> Window]
  BY DEF ListOK
<1>2. vs \in [Slots -> Window] /\ vs[f] = Empty /\ \A i \in Slots \ {f} : vs[i] = ws[i]
  BY <1>1, EmptyWindow
<1> HIDE DEF vs
<1>3. OpenIn(vs) = OpenIn(ws) \ {f} /\ f \in OpenIn(ws)
  BY <1>2, EmptyWindow DEF OpenIn
<1>4. Cardinality(OpenIn(vs)) = n - 1 /\ n \in Nat
  <2>1. Cardinality(OpenIn(ws) \ {f}) = Cardinality(OpenIn(ws)) - 1
    BY <1>3, OpenFinite, FS_RemoveElement
  <2> QED BY <1>3, <2>1, OpenFinite DEF ListOK
<1>5. \A i \in OpenIn(vs) : i \in OpenIn(ws) /\ vs[i] = ws[i]
  BY <1>2, <1>3 DEF OpenIn
<1>6. ListOK(vs, n - 1, ni, nz)
  BY <1>2, <1>4, <1>5 DEF ListOK
<1> QED BY <1>4, <1>6 DEF vs

(***************************************************************************)
(* A list with the same identifiers and the same stacking, or one in which *)
(* a window was raised to the top.                                         *)
(***************************************************************************)
LEMMA SameListOK ==
  ASSUME NEW ws, NEW vs \in [Slots -> Window], NEW n, NEW ni, NEW nz, ListOK(ws, n, ni, nz),
         \A i \in Slots : vs[i].id = ws[i].id /\ vs[i].z_order = ws[i].z_order
  PROVE  ListOK(vs, n, ni, nz) /\ OpenIn(vs) = OpenIn(ws)
<1>1. OpenIn(vs) = OpenIn(ws) /\ OpenIn(ws) \subseteq Slots
  BY DEF OpenIn
<1> QED BY <1>1 DEF ListOK

LEMMA RaisedListOK ==
  ASSUME NEW ws, NEW vs \in [Slots -> Window], NEW n, NEW ni, NEW nz, ListOK(ws, n, ni, nz),
         nz <= MaxZ, NEW top \in Slots, vs[top].z_order = nz,
         \A i \in Slots : vs[i].id = ws[i].id,
         \A i \in Slots \ {top} : vs[i].z_order = ws[i].z_order
  PROVE  /\ ListOK(vs, n, ni, nz + 1) /\ OpenIn(vs) = OpenIn(ws)
         /\ \A i \in OpenIn(ws) \ {top} : vs[i].z_order < vs[top].z_order
<1>1. OpenIn(vs) = OpenIn(ws) /\ OpenIn(ws) \subseteq Slots
  BY DEF OpenIn
<1>2. nz \in 1 .. MaxZ + 1 /\ nz + 1 \in 1 .. MaxZ + 1
  BY WindowsAssumption DEF ListOK
<1>3. \A i \in OpenIn(ws) \ {top} : vs[i].z_order \in 1 .. nz - 1
  BY <1>1 DEF ListOK
<1>4. \A i \in OpenIn(vs) : vs[i].id < ni /\ vs[i].z_order \in 1 .. nz
  BY <1>1, <1>2, <1>3 DEF ListOK
<1>5. \A i, j \in OpenIn(vs) : i # j => vs[i].id # vs[j].id /\ vs[i].z_order # vs[j].z_order
  BY <1>1, <1>2, <1>3 DEF ListOK
<1> QED BY <1>1, <1>2, <1>3, <1>4, <1>5 DEF ListOK

LEMMA SetFocusOK ==
  ASSUME NEW ws \in [Slots -> Window], NEW id
  PROVE  /\ SetFocus(ws, id) \in [Slots -> Window]
         /\ \A i \in Slots : /\ SetFocus(ws, id)[i].id = ws[i].id
                             /\ SetFocus(ws, id)[i].x = ws[i].x
                             /\ SetFocus(ws, id)[i].y = ws[i].y
                             /\ SetFocus(ws, id)[i].width = ws[i].width
                             /\ SetFocus(ws, id)[i].height = ws[i].height
                             /\ SetFocus(ws, id)[i].z_order = ws[i].z_order
                             /\ SetFocus(ws, id)[i].focused = (ws[i].id = id)
BY DEF SetFocus, Window

(***************************************************************************)
(* Windows with the same frame are gripped, contain points and reach the   *)
(* screen alike.                                                           *)
(***************************************************************************)
SameFrame(w, v) == v.x = w.x /\ v.y = w.y /\ v.width = w.width /\ v.height = w.height

LEMMA FrameOK ==
  ASSUME NEW w, NEW v, SameFrame(w, v)
  PROVE  /\ OnScreen(w) => OnScreen(v)
         /\ \A c, d : Gripped(w, c, d) => Gripped(v, c, d)
<1>1. \A px, py : IsInTitleBar(w, px, py) = IsInTitleBar(v, px, py)
  BY DEF SameFrame, IsInTitleBar, FullWidth
<1> QED BY <1>1 DEF OnScreen, Gripped, SameFrame

LEMMA CursorOK ==
  ASSUME cursor \in Cursor, NEW m \in Moves, NEW left \in BOOLEAN
  PROVE  ApplyDelta(m, left) \in Cursor /\ ApplyDelta(m, left).left = left
<1>1. \A v \in Int, last \in Nat : Clamp(v, last) \in 0..last
  BY DEF Clamp
<1>2. cursor.x + m[1] \in Int /\ cursor.y + m[2] \in Int
  BY MovesAssumption DEF Cursor
<1>3. Width - 1 \in Nat /\ Height - 1 \in Nat
  BY ScreenAssumption
<1>4. Clamp(cursor.x + m[1], Width - 1) \in 0 .. Width - 1
      /\ Clamp(cursor.y + m[2], Height - 1) \in 0 .. Height - 1
  BY <1>1, <1>2, <1>3
<1> QED BY <1>4 DEF ApplyDelta, Cursor

\* The body of FocusFollowsPress.
FocusStep ==
  FocusedId(windows') # FocusedId(windows) =>
    \/ FocusedId(windows') = 0 /\ ~cursor.left /\ cursor'.left
    \/ FocusedId(windows') = 0 /\ count' < count
    \/ /\ ~cursor.left /\ cursor'.left
       /\ \E i \in Open : /\ windows'[i].id = FocusedId(windows')
                          /\ ContainsPoint(windows[i], cursor'.x, cursor'.y)
                          /\ \A j \in Open \ {i} : windows'[j].z_order < windows'[i].z_order

LEMMA InitWm == Init => WmInv
<1> SUFFICES ASSUME Init PROVE WmInv
  OBVIOUS
<1>1. PICK s \in Shapes :
       windows = [i \in Slots |-> IF i = 1
         THEN [id |-> 1, x |-> s.x, y |-> s.y, width |-> s.width, height |-> s.height,
               z_order |-> 1, focused |-> FALSE]
         ELSE Empty]
  BY DEF Init
<1> DEFINE w == [id |-> 1, x |-> s.x, y |-> s.y, width |-> s.width, height |-> s.height,
                 z_order |-> 1, focused |-> FALSE]
<1>2. s \in [x : Int, y : Int, width : Nat, height : Nat]
  BY ShapesAssumption
<1>3. w \in Window /\ w.id = 1 /\ w.z_order = 1 /\ w.focused = FALSE /\ SameFrame(s, w)
  BY <1>2 DEF Window, SameFrame
<1> HIDE DEF w
<1>4. 1 \in Slots
  BY WindowsAssumption DEF Slots
<1>5. windows \in [Slots -> Window] /\ windows[1] = w
      /\ \A i \in Slots \ {1} : windows[i] = Empty
  BY <1>1, <1>3, <1>4, EmptyWindow DEF w
<1>6. OpenIn(windows) = {1}
  BY <1>3, <1>4, <1>5, EmptyWindow DEF OpenIn
<1>7. Cardinality(OpenIn(windows)) = 1
  BY <1>6, FS_Singleton
<1>8. count = 1 /\ next_id = 2 /\ next_z = 2
  BY DEF Init
<1>9. next_id \in 1 .. MaxId + 1 /\ next_z \in 1 .. MaxZ + 1
  BY <1>8, WindowsAssumption
<1>10. ListOK(windows, count, next_id, next_z) /\ FocusOK(windows)
  BY <1>3, <1>5, <1>6, <1>7, <1>8, <1>9 DEF ListOK, FocusOK
<1>11. ShapesReachable => ReachOK(windows)
  BY <1>3, <1>5, <1>6, FrameOK DEF ShapesReachable, ReachOK
<1>13. cursor \in Cursor
  <2>1. Width \div 2 \in 0 .. Width - 1 /\ Height \div 2 \in 0 .. Height - 1
    BY ScreenAssumption
  <2> QED BY <2>1 DEF Init, Cursor
<1>14. drag \in Drag /\ drag.window_id = 0
  BY DEF Init, Drag
<1> QED BY <1>8, <1>10, <1>11, <1>13, <1>14 DEF WmInv, GripOK

LEMMA CreateStep ==
  ASSUME WmInv, NEW s \in Shapes, Create(s)
  PROVE  WmInv' /\ FocusStep
<1> DEFINE f == SlotOf(0)
           w == NewWindow(s)
<1>1. ListOK(windows, count, next_id, next_z) /\ windows \in [Slots -> Window]
  BY DEF WmInv, ListOK
<1>2. /\ count < MaxWindows /\ next_id <= MaxId /\ next_z <= MaxZ
      /\ windows' = [windows EXCEPT ![f] = w]
      /\ count' = count + 1 /\ next_id' = next_id + 1 /\ next_z' = next_z + 1
      /\ UNCHANGED <<cursor, drag>>
  BY DEF Create
<1>3. f \in Slots /\ windows[f].id = 0
  <2>1. OpenIn(windows) # Slots
    <3>1. count = Cardinality(OpenIn(windows))
      BY <1>1 DEF ListOK
    <3>2. CASE OpenIn(windows) = Slots
      BY <1>2, <3>1, <3>2, SlotsFinite, WindowsAssumption
    <3> QED BY <3>2
  <2>2. \E i \in Slots : windows[i].id = 0
    BY <2>1 DEF OpenIn
  <2> QED BY <1>1, <2>2, SlotOfOK
<1>4. s \in [x : Int, y : Int, width : Nat, height : Nat]
  BY ShapesAssumption
<1>5. next_id \in Nat \ {0} /\ next_z \in Nat
  BY <1>1 DEF ListOK
<1>6. w \in Window /\ w.id = next_id /\ w.z_order = next_z /\ w.focused = FALSE
      /\ SameFrame(s, w)
  BY <1>4, <1>5 DEF NewWindow, Window, SameFrame
<1> HIDE DEF f, w
<1>7. ListOK(windows', count', next_id', next_z')
  <2>1. ListOK([windows EXCEPT ![f] = w], count + 1, next_id + 1, next_z + 1)
    BY <1>1, <1>2, <1>3, <1>6, PutOK
  <2> QED BY <1>2, <2>1
<1>8. windows'[f] = w /\ \A i \in Slots \ {f} : windows'[i] = windows[i]
  BY <1>1, <1>2, <1>3
<1>9. OpenIn(windows') = OpenIn(windows) \union {f} /\ OpenIn(windows) \subseteq Slots
  BY <1>3, <1>5, <1>6, <1>8 DEF OpenIn
<1>10. FocusOK(windows')
  BY <1>6, <1>8, <1>9, <1>3 DEF WmInv, FocusOK, OpenIn
<1>11. GripOK(windows', cursor', drag')
  <2>1. drag.window_id # next_id
    BY <1>5 DEF WmInv, Drag
  <2> QED BY <1>2, <1>6, <1>8, <2>1 DEF WmInv, GripOK
<1>12. ShapesReachable => ReachOK(windows')
  BY <1>6, <1>8, <1>9, FrameOK DEF WmInv, ShapesReachable, ReachOK
<1>13. drag'.window_id < next_id'
  BY <1>2, <1>5 DEF WmInv, Drag
<1>15. WmInv'
  BY <1>2, <1>7, <1>10, <1>11, <1>12, <1>13
  DEF WmInv, ShapesReachable, OnScreen, IsInTitleBar, FullWidth, Screen, Cursor, Drag
<1>16. Flagged(windows') = Flagged(windows) /\ f \notin Flagged(windows)
  BY <1>3, <1>6, <1>8 DEF Flagged
<1>17. FocusedId(windows') = FocusedId(windows)
  <2>1. windows' \in [Slots -> Window] /\ \A i \in Flagged(windows) : windows'[i] = windows[i]
    BY <1>7, <1>8, <1>16 DEF ListOK, Flagged
  <2> QED BY <1>1, <1>16, <2>1, FocusedIdSame
<1> QED BY <1>15, <1>17 DEF FocusStep

LEMMA DestroyStep ==
  ASSUME WmInv, NEW id \in 1..MaxId, Destroy(id)
  PROVE  WmInv' /\ FocusStep
<1> DEFINE f == SlotOf(id)
<1>1. ListOK(windows, count, next_id, next_z) /\ windows \in [Slots -> Window]
  BY DEF WmInv, ListOK
<1>2. /\ windows' = [windows EXCEPT ![f] = Empty] /\ count' = count - 1
      /\ UNCHANGED <<next_id, next_z, cursor, drag>>
  BY DEF Destroy
<1>3. f \in Slots /\ windows[f].id # 0
  BY <1>1, SlotOfOK DEF Destroy
<1> HIDE DEF f
<1>4. ListOK(windows', count', next_id', next_z') /\ count \in Nat
  BY <1>1, <1>2, <1>3, TakeOK
<1>5. windows'[f] = Empty /\ \A i \in Slots \ {f} : windows'[i] = windows[i]
  BY <1>1, <1>2, <1>3
<1>6. OpenIn(windows') = OpenIn(windows) \ {f}
      /\ \A i \in OpenIn(windows') : windows'[i] = windows[i]
  BY <1>3, <1>5, EmptyWindow DEF OpenIn
<1>7. FocusOK(windows') /\ (ShapesReachable => ReachOK(windows'))
  BY <1>6 DEF WmInv, FocusOK, ReachOK
<1>8. GripOK(windows', cursor', drag')
  BY <1>2, <1>5, EmptyWindow DEF WmInv, GripOK
<1>9. WmInv'
  BY <1>2, <1>4, <1>7, <1>8
  DEF WmInv, ShapesReachable, OnScreen, IsInTitleBar, FullWidth, Screen, Cursor, Drag
<1>10. windows' \in [Slots -> Window] /\ Flagged(windows') = Flagged(windows) \ {f}
       /\ \A i \in Flagged(windows') : windows'[i] = windows[i]
  BY <1>3, <1>4, <1>5, EmptyWindow DEF ListOK, Flagged
<1>11. CASE f \notin Flagged(windows)
  <2>1. FocusedId(windows') = FocusedId(windows)
    BY <1>1, <1>10, <1>11, FocusedIdSame
  <2> QED BY <1>9, <2>1 DEF FocusStep
<1>12. CASE f \in Flagged(windows)
  <2>1. Flagged(windows') = {}
    BY <1>10, <1>12 DEF WmInv, FocusOK, Flagged, OpenIn
  <2>2. FocusedId(windows') = 0
    BY <1>10, <2>1, FocusedIdOK
  <2>3. count' < count
    BY <1>2, <1>4
  <2> QED BY <1>9, <2>2, <2>3 DEF FocusStep
<1> QED BY <1>11, <1>12

(***************************************************************************)
(* What ProcessEvent leaves to show once the windows, the cursor and the   *)
(* drag after it are known.                                                *)
(***************************************************************************)
LEMMA AfterEvent ==
  ASSUME NEW ws, windows' = ws,
         ListOK(ws, count', next_id', next_z'), FocusOK(ws), GripOK(ws, cursor', drag'),
         ShapesReachable => ReachOK(ws), cursor' \in Cursor,
         drag' \in Drag, drag'.window_id < next_id'
  PROVE  WmInv'
BY DEF WmInv, ShapesReachable, OnScreen, IsInTitleBar, FullWidth, Screen, Cursor, Drag

LEMMA DragStep ==
  ASSUME WmInv, NEW m, NEW c \in Cursor, c.left, drag.window_id # 0, DragTo(m, c)
  PROVE  /\ ListOK(windows', count', next_id', next_z') /\ FocusOK(windows')
         /\ GripOK(windows', c, drag') /\ (ShapesReachable => ReachOK(windows'))
         /\ FocusedId(windows') = FocusedId(windows)
         /\ UNCHANGED <<count, next_id, next_z, drag>>
<1> DEFINE f == SlotOf(drag.window_id)
<1>1. ListOK(windows, count, next_id, next_z) /\ windows \in [Slots -> Window]
      /\ FocusOK(windows) /\ GripOK(windows, cursor, drag)
      /\ (ShapesReachable => ReachOK(windows))
  BY DEF WmInv, ListOK
<1>2. UNCHANGED <<count, next_id, next_z, drag>>
  BY DEF DragTo
<1>3. CASE f = 0
  <2>1. windows' = windows /\ \A i \in Slots : windows[i].id # drag.window_id
    BY <1>1, <1>3, SlotOfOK DEF DragTo
  <2> QED BY <1>1, <1>2, <2>1 DEF GripOK
<1>4. CASE f # 0
  <2> DEFINE w == [windows[f] EXCEPT !.x = c.x - drag.offset_x, !.y = c.y - drag.offset_y]
  <2>1. f \in Slots /\ windows[f].id = drag.window_id /\ windows[f] \in Window
    BY <1>1, <1>4, SlotOfOK
  <2>2. windows' = [windows EXCEPT ![f] = w]
    BY <1>1, <1>4, <2>1 DEF DragTo
  <2>3. /\ c.x \in 0 .. Width - 1 /\ c.y \in 0 .. Height - 1
        /\ cursor.x \in Int /\ cursor.y \in Int
        /\ drag.offset_x \in Int /\ drag.offset_y \in Int
    BY DEF WmInv, Cursor, Drag
  <2>4. /\ w \in Window /\ w.id = windows[f].id /\ w.z_order = windows[f].z_order
        /\ w.focused = windows[f].focused /\ w.width = windows[f].width
        /\ w.x = c.x - drag.offset_x /\ w.y = c.y - drag.offset_y
    <3> DEFINE u == [windows[f] EXCEPT !.x = c.x - drag.offset_x]
    <3>0. c.x - drag.offset_x \in Int /\ c.y - drag.offset_y \in Int
      BY <2>3
    <3>1. /\ u \in Window /\ u.id = windows[f].id /\ u.z_order = windows[f].z_order
          /\ u.focused = windows[f].focused /\ u.width = windows[f].width
          /\ u.x = c.x - drag.offset_x
      BY <2>1, <3>0 DEF Window
    <3>2. w = [u EXCEPT !.y = c.y - drag.offset_y]
      OBVIOUS
    <3> HIDE DEF u, w, f
    <3> QED BY <3>0, <3>1, <3>2 DEF Window
  <2>5. Gripped(w, c, drag) /\ IsInTitleBar(w, c.x, c.y)
    <3>1. Gripped(windows[f], cursor, drag)
      BY <1>1, <2>1 DEF GripOK
    <3>2. /\ windows[f].x \in Int /\ windows[f].y \in Int
          /\ FullWidth(windows[f]) \in Int /\ FullWidth(w) = FullWidth(windows[f])
          /\ TitleBar \in Int
      BY <2>1, <2>4, FrameAssumption DEF Window, FullWidth
    <3> HIDE DEF w, f
    <3> QED BY <2>3, <2>4, <3>1, <3>2 DEF Gripped, IsInTitleBar
  <2> HIDE DEF w, f
  <2>6. /\ windows' \in [Slots -> Window] /\ windows'[f] = w
        /\ \A i \in Slots \ {f} : windows'[i] = windows[i]
    BY <1>1, <2>1, <2>2, <2>4
  <2>7. ListOK(windows', count, next_id, next_z) /\ OpenIn(windows') = OpenIn(windows)
    <3>1. \A i \in Slots : /\ windows'[i].id = windows[i].id
                          /\ windows'[i].z_order = windows[i].z_order
      BY <2>4, <2>6
    <3> QED BY <1>1, <2>6, <3>1, SameListOK
  <2>8. \A i \in Slots : windows'[i].focused = windows[i].focused
    BY <2>4, <2>6
  <2>9. FocusOK(windows')
    BY <1>1, <2>7, <2>8 DEF FocusOK, OpenIn
  <2>10. GripOK(windows', c, drag')
    <3>1. \A i \in Slots : windows[i].id = drag.window_id => i = f
      BY <1>1, <2>1 DEF ListOK, OpenIn
    <3> QED BY <1>2, <2>4, <2>5, <2>6, <3>1 DEF GripOK
  <2>11. ShapesReachable => ReachOK(windows')
    <3>1. OnScreen(w)
      <4>1. <<c.x, c.y>> \in Screen
        BY <2>3 DEF Screen
      <4> QED BY <2>5, <4>1 DEF OnScreen
    <3> QED BY <1>1, <2>6, <2>7, <3>1 DEF ReachOK, OpenIn
  <2>12. FocusedId(windows') = FocusedId(windows)
    <3>1. /\ Flagged(windows') = Flagged(windows)
          /\ \A i \in Flagged(windows) : windows'[i].id = windows[i].id
      BY <2>4, <2>6, <2>8 DEF Flagged
    <3> QED BY <1>1, <2>6, <3>1, FocusedIdSame
  <2> QED BY <1>2, <2>7, <2>9, <2>10, <2>11, <2>12
<1> QED BY <1>3, <1>4

LEMMA DesktopStep ==
  ASSUME WmInv, NEW c, drag.window_id = 0, PressOnDesktop(c)
  PROVE  /\ ListOK(windows', count', next_id', next_z') /\ FocusOK(windows')
         /\ GripOK(windows', c, drag') /\ (ShapesReachable => ReachOK(windows'))
         /\ FocusedId(windows') = 0
         /\ UNCHANGED <<count, next_id, next_z, drag>>
<1>1. ListOK(windows, count, next_id, next_z) /\ windows \in [Slots -> Window]
      /\ (ShapesReachable => ReachOK(windows))
  BY DEF WmInv, ListOK
<1>2. windows' = SetFocus(windows, 0) /\ UNCHANGED <<count, next_id, next_z, drag>>
  BY DEF PressOnDesktop
<1>3. /\ windows' \in [Slots -> Window]
      /\ \A i \in Slots : /\ windows'[i].id = windows[i].id
                          /\ windows'[i].z_order = windows[i].z_order
                          /\ SameFrame(windows[i], windows'[i])
                          /\ windows'[i].focused = (windows[i].id = 0)
  BY <1>1, <1>2, SetFocusOK DEF SameFrame
<1>4. ListOK(windows', count, next_id, next_z) /\ OpenIn(windows') = OpenIn(windows)
  BY <1>1, <1>3, SameListOK
<1>5. Flagged(windows') = {} /\ FocusOK(windows')
  BY <1>3 DEF Flagged, FocusOK, OpenIn
<1>6. FocusedId(windows') = 0
  BY <1>3, <1>5, FocusedIdOK
<1>7. ShapesReachable => ReachOK(windows')
  BY <1>1, <1>3, <1>4, FrameOK DEF ReachOK, OpenIn
<1> QED BY <1>2, <1>4, <1>5, <1>6, <1>7 DEF GripOK

LEMMA PressStep ==
  ASSUME WmInv, NEW c \in Cursor, c.left, drag.window_id = 0, PressOnWindow(c),
         next_z <= MaxZ
  PROVE  /\ ListOK(windows', count', next_id', next_z') /\ FocusOK(windows')
         /\ GripOK(windows', c, drag') /\ (ShapesReachable => ReachOK(windows'))
         /\ drag' \in Drag /\ drag'.window_id < next_id' /\ UNCHANGED <<count, next_id>>
         /\ \E i \in Open : /\ windows'[i].id = FocusedId(windows')
                            /\ ContainsPoint(windows[i], c.x, c.y)
                            /\ \A j \in Open \ {i} : windows'[j].z_order < windows'[i].z_order
<1> DEFINE i == HitTest(c.x, c.y)
           w == windows[i]
           vs == SetFocus(windows, w.id)
<1>1. ListOK(windows, count, next_id, next_z) /\ windows \in [Slots -> Window]
      /\ (ShapesReachable => ReachOK(windows))
  BY DEF WmInv, ListOK
<1>2. /\ i # 0 /\ windows' = [vs EXCEPT ![i].z_order = next_z] /\ next_z' = next_z + 1
      /\ drag' = IF IsInTitleBar(w, c.x, c.y)
                 THEN [window_id |-> w.id, offset_x |-> c.x - w.x, offset_y |-> c.y - w.y]
                 ELSE drag
      /\ UNCHANGED <<count, next_id>>
  BY DEF PressOnWindow, RaiseToTop
<1>3. i \in Slots /\ w.id # 0 /\ ContainsPoint(w, c.x, c.y)
  BY <1>1, <1>2, HitTestOK DEF Hit
<1>4. w \in Window /\ w.id < next_id /\ i \in OpenIn(windows)
  BY <1>1, <1>3 DEF ListOK, OpenIn
<1> HIDE DEF i
<1>5. /\ vs \in [Slots -> Window]
      /\ \A j \in Slots : /\ vs[j].id = windows[j].id
                          /\ vs[j].z_order = windows[j].z_order
                          /\ SameFrame(windows[j], vs[j])
                          /\ vs[j].focused = (windows[j].id = w.id)
  <2> HIDE DEF w
  <2> QED BY <1>1, SetFocusOK DEF SameFrame
<1> HIDE DEF vs
<1>6. next_z \in Nat
  BY <1>1 DEF ListOK
<1>7. /\ windows' \in [Slots -> Window]
      /\ windows'[i].z_order = next_z
      /\ \A j \in Slots : /\ windows'[j].id = vs[j].id
                          /\ SameFrame(vs[j], windows'[j])
                          /\ windows'[j].focused = vs[j].focused
      /\ \A j \in Slots \ {i} : windows'[j].z_order = vs[j].z_order
  <2> DEFINE v == [vs[i] EXCEPT !.z_order = next_z]
  <2>1. windows' = [vs EXCEPT ![i] = v] /\ vs[i] \in Window
    BY <1>2, <1>3, <1>5
  <2>2. v \in Window /\ v.z_order = next_z /\ v.id = vs[i].id /\ SameFrame(vs[i], v)
        /\ v.focused = vs[i].focused
    BY <1>6, <2>1 DEF Window, SameFrame
  <2> HIDE DEF v
  <2>3. windows' \in [Slots -> Window] /\ windows'[i] = v
        /\ \A j \in Slots \ {i} : windows'[j] = vs[j]
    BY <1>3, <1>5, <2>1, <2>2
  <2>4. \A j \in Slots : SameFrame(vs[j], vs[j])
    BY DEF SameFrame
  <2> QED BY <2>2, <2>3, <2>4
<1>8. \A j \in Slots : /\ windows'[j].id = windows[j].id
                      /\ SameFrame(windows[j], windows'[j])
                      /\ windows'[j].focused = (windows[j].id = w.id)
  <2>1. \A j \in Slots : SameFrame(windows[j], windows'[j])
    BY <1>5, <1>7 DEF SameFrame
  <2> QED BY <1>5, <1>7, <2>1
<1>9. /\ ListOK(windows', count, next_id, next_z + 1) /\ OpenIn(windows') = OpenIn(windows)
      /\ \A j \in OpenIn(windows) \ {i} : windows'[j].z_order < windows'[i].z_order
  <2>1. \A j \in Slots \ {i} : windows'[j].z_order = windows[j].z_order
    BY <1>5, <1>7
  <2> QED BY <1>1, <1>3, <1>7, <1>8, <2>1, RaisedListOK
<1>10. \A j \in Slots : windows[j].id = w.id => j = i
  BY <1>1, <1>3 DEF ListOK, OpenIn
<1>11. Flagged(windows') = {i} /\ FocusOK(windows')
  BY <1>3, <1>8, <1>10, ZenonT(30) DEF Flagged, FocusOK, OpenIn
<1>12. FocusedId(windows') = windows'[i].id
  BY <1>7, <1>11, FocusedIdOK
<1>13. ShapesReachable => ReachOK(windows')
  BY <1>1, <1>8, <1>9, FrameOK DEF ReachOK, OpenIn
<1>14. drag \in Drag /\ drag.window_id < next_id
  BY DEF WmInv
<1>15. c.x \in Int /\ c.y \in Int
  BY DEF Cursor
<1>16. CASE IsInTitleBar(w, c.x, c.y)
  <2>1. drag' = [window_id |-> w.id, offset_x |-> c.x - w.x, offset_y |-> c.y - w.y]
    BY <1>2, <1>16
  <2>2. /\ drag' \in Drag /\ drag'.window_id = w.id
        /\ drag'.offset_x = c.x - w.x /\ drag'.offset_y = c.y - w.y
    BY <1>4, <1>15, <2>1 DEF Drag, Window
  <2>3. Gripped(w, c, drag')
    BY <1>16, <2>2 DEF Gripped
  <2>4. GripOK(windows', c, drag')
    <3>1. SameFrame(w, windows'[i])
      BY <1>3, <1>8
    <3>2. Gripped(windows'[i], c, drag')
      BY <2>3, <3>1, FrameOK
    <3> QED BY <1>8, <1>10, <2>2, <3>2 DEF GripOK
  <2> QED BY <1>2, <1>3, <1>4, <1>9, <1>11, <1>12, <1>13, <2>2, <2>4 DEF Open, OpenIn
<1>17. CASE ~IsInTitleBar(w, c.x, c.y)
  <2>1. drag' = drag
    BY <1>2, <1>17
  <2> QED BY <1>2, <1>3, <1>4, <1>9, <1>11, <1>12, <1>13, <1>14, <2>1 DEF Open, OpenIn, GripOK
<1> QED BY <1>16, <1>17

LEMMA EventStep ==
  ASSUME WmInv, NEW m \in Moves, NEW left \in BOOLEAN, ProcessEvent(m, left)
  PROVE  WmInv' /\ FocusStep
<1> DEFINE c == ApplyDelta(m, left)
<1>2. c \in Cursor /\ c.left = left
  BY CursorOK DEF WmInv
<1>3. /\ cursor' = c
      /\ \/ drag.window_id # 0 /\ ~left /\ StopDrag
         \/ drag.window_id # 0 /\ left /\ DragTo(m, c)
         \/ drag.window_id = 0 /\ left /\ ~cursor.left /\ PressOnDesktop(c)
         \/ drag.window_id = 0 /\ left /\ ~cursor.left /\ PressOnWindow(c)
         \/ drag.window_id = 0 /\ JustMove
  BY DEF ProcessEvent, ProcessMouse
<1>4. /\ ListOK(windows, count, next_id, next_z) /\ FocusOK(windows)
      /\ (ShapesReachable => ReachOK(windows))
      /\ drag \in Drag /\ drag.window_id < next_id
  BY DEF WmInv
<1> HIDE DEF c
<1>5. CASE drag.window_id # 0 /\ ~left /\ StopDrag
  <2>1. /\ drag' = [drag EXCEPT !.window_id = 0]
        /\ UNCHANGED <<windows, count, next_id, next_z>>
    BY <1>5 DEF StopDrag, list
  <2>2. drag' \in Drag /\ drag'.window_id = 0 /\ drag'.window_id < next_id
    BY <1>4, <2>1 DEF Drag, ListOK
  <2>3. WmInv'
    BY <1>2, <1>3, <1>4, <2>1, <2>2, AfterEvent DEF GripOK
  <2> QED BY <2>1, <2>3 DEF FocusStep
<1>6. CASE drag.window_id # 0 /\ left /\ DragTo(m, c)
  <2>1. /\ ListOK(windows', count', next_id', next_z') /\ FocusOK(windows')
        /\ GripOK(windows', c, drag') /\ (ShapesReachable => ReachOK(windows'))
        /\ FocusedId(windows') = FocusedId(windows)
        /\ UNCHANGED <<count, next_id, next_z, drag>>
    BY <1>2, <1>6, DragStep
  <2>2. WmInv'
    BY <1>2, <1>3, <1>4, <2>1, AfterEvent
  <2> QED BY <2>1, <2>2 DEF FocusStep
<1>7. CASE drag.window_id = 0 /\ left /\ ~cursor.left /\ PressOnDesktop(c)
  <2>1. /\ ListOK(windows', count', next_id', next_z') /\ FocusOK(windows')
        /\ GripOK(windows', c, drag') /\ (ShapesReachable => ReachOK(windows'))
        /\ FocusedId(windows') = 0
        /\ UNCHANGED <<count, next_id, next_z, drag>>
    BY <1>7, DesktopStep
  <2>2. WmInv'
    BY <1>2, <1>3, <1>4, <2>1, AfterEvent
  <2> QED BY <1>2, <1>3, <1>7, <2>1, <2>2 DEF FocusStep
<1>8. CASE drag.window_id = 0 /\ left /\ ~cursor.left /\ PressOnWindow(c)
  <2>0. next_z <= MaxZ
    BY <1>8 DEF ProcessEvent
  <2>1. /\ ListOK(windows', count', next_id', next_z') /\ FocusOK(windows')
        /\ GripOK(windows', c, drag') /\ (ShapesReachable => ReachOK(windows'))
        /\ drag' \in Drag /\ drag'.window_id < next_id'
    BY <1>2, <1>8, <2>0, PressStep
  <2>2. \E i \in Open : /\ windows'[i].id = FocusedId(windows')
                        /\ ContainsPoint(windows[i], c.x, c.y)
                        /\ \A j \in Open \ {i} : windows'[j].z_order < windows'[i].z_order
    BY <1>2, <1>8, <2>0, PressStep
  <2>3. WmInv'
    BY <1>2, <1>3, <2>1, AfterEvent
  <2> QED BY <1>2, <1>3, <1>8, <2>2, <2>3 DEF FocusStep
<1>9. CASE drag.window_id = 0 /\ JustMove
  <2>1. UNCHANGED <<windows, count, next_id, next_z, drag>>
    BY <1>9 DEF JustMove, list
  <2>2. WmInv'
    BY <1>2, <1>3, <1>4, <1>9, <2>1, AfterEvent DEF GripOK
  <2> QED BY <2>1, <2>2 DEF FocusStep
<1> QED BY <1>3, <1>5, <1>6, <1>7, <1>8, <1>9

LEMMA WmStep == WmInv /\ [Next]_vars => WmInv' /\ [FocusStep]_vars
<1> SUFFICES ASSUME WmInv, [Next]_vars
             PROVE  WmInv' /\ FocusStep
  OBVIOUS
<1>1. CASE UNCHANGED vars
  <2>1. UNCHANGED <<windows, count, next_id, next_z, cursor, drag>>
    BY <1>1 DEF vars, list
  <2>2. WmInv'
    BY <2>1 DEF WmInv, ListOK, FocusOK, GripOK, Gripped, ReachOK, OpenIn, Slots, Window,
                IsInTitleBar, FullWidth, ShapesReachable, OnScreen, Screen, Cursor, Drag
  <2> QED BY <2>1, <2>2 DEF FocusStep
<1>2. ASSUME NEW s \in Shapes, Create(s)
      PROVE  WmInv' /\ FocusStep
  BY <1>2, CreateStep
<1>3. ASSUME NEW id \in 1..MaxId, Destroy(id)
      PROVE  WmInv' /\ FocusStep
  BY <1>3, DestroyStep
<1>4. ASSUME NEW m \in Moves, NEW left \in BOOLEAN, ProcessEvent(m, left)
      PROVE  WmInv' /\ FocusStep
  BY <1>4, EventStep
<1> QED BY <1>1, <1>2, <1>3, <1>4 DEF Next

-----------------------------------------------------------------------------
LEMMA WmInvImplies ==
  ASSUME WmInv
  PROVE  TypeOK /\ OneFocus /\ DragKeepsGrip /\ (ShapesReachable => TitleBarReachable)
<1>1. Open = OpenIn(windows)
  BY DEF Open, OpenIn
<1>2. /\ ListOK(windows, count, next_id, next_z) /\ FocusOK(windows)
      /\ GripOK(windows, cursor, drag) /\ (ShapesReachable => ReachOK(windows))
      /\ windows \in [Slots -> Window]
  BY DEF WmInv, ListOK
<1>3. drag.window_id \in 0 .. next_id - 1
  BY <1>2 DEF WmInv, Drag, ListOK
<1>4. TypeOK
  BY <1>1, <1>2, <1>3 DEF TypeOK, WmInv, ListOK
<1>5. OneFocus
  BY <1>1, <1>2 DEF OneFocus, FocusOK
<1>6. DragKeepsGrip
  BY <1>2, SlotOfOK DEF DragKeepsGrip, GripOK, Gripped
<1>7. ShapesReachable => TitleBarReachable
  BY <1>1, <1>2 DEF ReachOK, TitleBarReachable, OnScreen
<1> QED BY <1>4, <1>5, <1>6, <1>7

(***************************************************************************)
(* create, destroy and raise_to_top keep count the number of windows, and  *)
(* give no identifier and no place in the stacking order twice.            *)
(***************************************************************************)
THEOREM WindowListCorrect == Spec => []TypeOK
<1>1. WmInv => TypeOK
  BY WmInvImplies
<1> QED BY <1>1, InitWm, WmStep, PTL DEF Spec

(***************************************************************************)
(* No two open windows have the focus, although set_focus(0) leaves the    *)
(* flag in the empty slots that create uses next.                          *)
(***************************************************************************)
THEOREM OneWindowHasFocus == Spec => []OneFocus
<1>1. WmInv => OneFocus
  BY WmInvImplies
<1> QED BY <1>1, InitWm, WmStep, PTL DEF Spec

(***************************************************************************)
(* A drag holds its window where it took it, whatever the cursor runs into *)
(* and whatever other windows come and go.                                 *)
(***************************************************************************)
THEOREM DragHolds == Spec => []DragKeepsGrip
<1>1. WmInv => DragKeepsGrip
  BY WmInvImplies
<1> QED BY <1>1, InitWm, WmStep, PTL DEF Spec

(***************************************************************************)
(* If applications create windows with a part of the title bar on the      *)
(* screen, no sequence of drags takes the title bar of one off it.         *)
(***************************************************************************)
THEOREM TitleBarsStay == Spec => [](ShapesReachable => TitleBarReachable)
<1>1. WmInv => (ShapesReachable => TitleBarReachable)
  BY WmInvImplies
<1> QED BY <1>1, InitWm, WmStep, PTL DEF Spec

(***************************************************************************)
(* The focus moves only with a press, to the window under the cursor that  *)
(* the press brings to the top, or is lost on the desktop or with its      *)
(* window.                                                                 *)
(***************************************************************************)
THEOREM FocusMovesByPress == Spec => FocusFollowsPress
<1>1. WmInv /\ [Next]_vars => [FocusStep]_vars
  BY WmStep
<1> QED BY <1>1, InitWm, WmStep, PTL DEF Spec, FocusFollowsPress, FocusStep

\* hit_test finds a window wherever there is one, and of those at the point
\* the one that is above all others.
HitIsTopmost ==
  \A px, py \in Int :
    LET hit == HitTest(px, py)
    IN IF hit = 0 THEN \A i \in Open : ~ContainsPoint(windows[i], px, py)
       ELSE /\ hit \in Open /\ ContainsPoint(windows[hit], px, py)
            /\ \A i \in Open \ {hit} :
                 ContainsPoint(windows[i], px, py) => windows[i].z_order < windows[hit].z_order

(***************************************************************************)
(* A press anywhere goes to the topmost window there, if there is one:     *)
(* the choice of hit_test is never between two windows at the same height. *)
(***************************************************************************)
THEOREM HitTestFindsTop == Spec => []HitIsTopmost
<1>1. WmInv => HitIsTopmost
  <2> SUFFICES ASSUME WmInv, NEW px \in Int, NEW py \in Int
               PROVE  LET hit == HitTest(px, py)
                      IN IF hit = 0 THEN \A i \in Open : ~ContainsPoint(windows[i], px, py)
                         ELSE /\ hit \in Open /\ ContainsPoint(windows[hit], px, py)
                              /\ \A i \in Open \ {hit} :
                                   ContainsPoint(windows[i], px, py) =>
                                     windows[i].z_order < windows[hit].z_order
    BY DEF HitIsTopmost
  <2>1. ListOK(windows, count, next_id, next_z)
    BY DEF WmInv
  <2>2. Hit(px, py) = {i \in Open : ContainsPoint(windows[i], px, py)} /\ 0 \notin Open
    BY DEF Hit, Open, Slots
  <2>3. CASE Hit(px, py) = {}
    BY <2>1, <2>2, <2>3, HitTestOK
  <2>4. CASE Hit(px, py) # {}
    BY <2>1, <2>2, <2>4, HitTestOK
  <2> QED BY <2>3, <2>4
<1> QED BY <1>1, InitWm, WmStep, PTL DEF Spec

-----------------------------------------------------------------------------
(***************************************************************************)
(* iter_z_order: after each round the slots that were looked at and are in *)
(* use stand in the order, none above its successor.                       *)
(***************************************************************************)
Z(i) == windows[i].z_order

Ordered(order, T) ==
  /\ order \in Seq(Slots)
  /\ \A j, k \in 1..Len(order) : j < k => Z(order[j]) <= Z(order[k])
  /\ \A j \in 1..Len(order) : order[j] \in T
  /\ \A i \in T : \E j \in 1..Len(order) : order[j] = i

LEMMA InsertKeepsOrder ==
  ASSUME windows \in [Slots -> Window], NEW T, NEW order, Ordered(order, T),
         NEW i \in Slots, windows[i].id # 0
  PROVE  Ordered(InsertByZ(order, i), T \union {i})
<1> DEFINE n == Len(order)
           I == {j \in 1..n : Z(order[j]) <= Z(i)}
           p == SelectLastInSeq(order, LAMBDA j : windows[j].z_order <= windows[i].z_order)
           new == SubSeq(order, 1, p) \o <<i>> \o SubSeq(order, p + 1, n)
<1>1. n \in Nat /\ order \in [1..n -> Slots] /\ \A j \in Slots : Z(j) \in Nat
  <2>1. order \in Seq(Slots)
    BY DEF Ordered
  <2>2. n \in Nat /\ DOMAIN order = 1..n /\ \A j \in 1..n : order[j] \in Slots
    BY <2>1, LenProperties, ElementOfSeq
  <2> QED BY <2>1, <2>2 DEF Z, Window
<1>2. p = IF I # {} THEN Max(I) ELSE 0
  BY DEF SelectLastInSeq, Z
<1>3. /\ p \in 0..n
      /\ \A j \in 1..n : j <= p => Z(order[j]) <= Z(i)
      /\ \A j \in 1..n : j > p => Z(i) < Z(order[j])
  <2>1. I \in SUBSET (1..n)
    OBVIOUS
  <2>2. CASE I = {}
    <3>1. p = 0
      BY <1>2, <2>2
    <3>2. \A j \in 1..n : ~(Z(order[j]) <= Z(i))
      BY <2>2
    <3> HIDE DEF p, I, n
    <3> QED BY <1>1, <3>1, <3>2
  <2>3. CASE I # {}
    <3>1. p = Max(I)
      BY <1>2, <2>3
    <3>2. p \in I /\ \A j \in I : j <= p
      <4> HIDE DEF I, p, n
      <4> QED BY <1>1, <2>1, <2>3, <3>1, LastIsMax
    <3>3. p \in 1..n /\ Z(order[p]) <= Z(i) /\ \A j \in 1..n : Z(order[j]) <= Z(i) => j <= p
      BY <3>2
    <3>4. \A j \in 1..n : j < p => Z(order[j]) <= Z(order[p])
      BY <3>3 DEF Ordered
    <3> HIDE DEF p, I, n
    <3> QED BY <1>1, <3>3, <3>4
  <2> QED BY <2>2, <2>3
<1>4. InsertByZ(order, i) = new
  <2> HIDE DEF n
  <2>1. (1 + p) - 1 = p /\ 1 + p = p + 1
    BY <1>1, <1>3
  <2>2. InsertByZ(order, i) = InsertAt(order, 1 + p, i)
    BY DEF InsertByZ
  <2> HIDE DEF p
  <2> QED BY <2>1, <2>2 DEF InsertAt, n
<1> HIDE DEF p, I
<1>5. /\ new \in Seq(Slots) /\ Len(new) = n + 1
      /\ \A j \in 1 .. n + 1 : new[j] = IF j <= p THEN order[j]
                                         ELSE IF j = p + 1 THEN i ELSE order[j - 1]
  <2> DEFINE a == SubSeq(order, 1, p)
             c == SubSeq(order, p + 1, n)
  <2>1. a \in Seq(Slots) /\ Len(a) = p /\ \A j \in 1..p : a[j] = order[j]
    <3>1. \A j \in 1..p : order[j] \in Slots /\ 1 + j - 1 = j
      BY <1>1, <1>3
    <3>2. p \in Int /\ 1 \in Int /\ p - 1 + 1 = p /\ (p < 1 => p = 0)
      BY <1>1, <1>3
    <3>3. /\ a \in Seq(Slots) /\ Len(a) = IF 1 <= p THEN p - 1 + 1 ELSE 0
          /\ \A j \in 1 .. p - 1 + 1 : a[j] = order[1 + j - 1]
      <4> HIDE DEF n
      <4> QED BY <3>1, <3>2, SubSeqProperties
    <3> HIDE DEF a, n
    <3> QED BY <1>1, <1>3, <3>1, <3>2, <3>3
  <2>2. c \in Seq(Slots) /\ Len(c) = n - p /\ \A j \in 1 .. n - p : c[j] = order[p + j]
    <3>1. \A j \in p + 1 .. n : order[j] \in Slots
      BY <1>1, <1>3
    <3>2. p + 1 \in Int /\ n \in Int
      BY <1>1, <1>3
    <3>3. /\ c \in Seq(Slots) /\ Len(c) = IF p + 1 <= n THEN n - (p + 1) + 1 ELSE 0
          /\ \A j \in 1 .. n - (p + 1) + 1 : c[j] = order[p + 1 + j - 1]
      <4> HIDE DEF n
      <4> QED BY <3>1, <3>2, SubSeqProperties
    <3> HIDE DEF c, n
    <3> QED BY <1>1, <1>3, <3>3
  <2>3. <<i>> \in Seq(Slots) /\ Len(<<i>>) = 1 /\ <<i>>[1] = i
    OBVIOUS
  <2> HIDE DEF a, c, n
  <2> DEFINE d == a \o <<i>>
  <2>4. d \in Seq(Slots) /\ Len(d) = p + 1 /\ \A j \in 1 .. p + 1 : d[j] = IF j <= p THEN order[j] ELSE i
    <3>1. /\ d \in Seq(Slots) /\ Len(d) = Len(a) + 1
          /\ \A j \in 1 .. Len(a) + 1 : d[j] = IF j <= Len(a) THEN a[j] ELSE <<i>>[j - Len(a)]
      BY <2>1, <2>3, ConcatProperties
    <3>2. \A j \in 1 .. p + 1 : ~(j <= p) => j - p = 1
      BY <1>1, <1>3
    <3> HIDE DEF d
    <3> QED BY <1>1, <1>3, <2>1, <2>3, <3>1, <3>2
  <2> HIDE DEF d
  <2>5. /\ d \o c \in Seq(Slots) /\ Len(d \o c) = Len(d) + Len(c)
        /\ \A j \in 1 .. Len(d) + Len(c) : (d \o c)[j] = IF j <= Len(d) THEN d[j] ELSE c[j - Len(d)]
    BY <2>2, <2>4, ConcatProperties
  <2>6. Len(d) + Len(c) = n + 1
    BY <1>1, <1>3, <2>2, <2>4
  <2>7. new = d \o c
    BY DEF a, c, d
  <2> HIDE DEF new
  <2>8. ASSUME NEW j \in 1 .. n + 1
        PROVE  new[j] = IF j <= p THEN order[j] ELSE IF j = p + 1 THEN i ELSE order[j - 1]
    <3>1. CASE j <= p + 1
      BY <1>1, <1>3, <2>4, <2>5, <2>6, <2>7, <3>1
    <3>2. CASE j > p + 1
      <4>1. j - (p + 1) \in 1 .. n - p /\ p + (j - (p + 1)) = j - 1
        BY <1>1, <1>3, <3>2
      <4>2. new[j] = c[j - (p + 1)]
        <5>1. j \in 1 .. Len(d) + Len(c) /\ ~(j <= Len(d)) /\ j - Len(d) = j - (p + 1)
          BY <1>1, <1>3, <2>4, <2>6, <3>2
        <5> QED BY <2>5, <2>7, <5>1
      <4>3. c[j - (p + 1)] = order[j - 1]
        BY <2>2, <4>1
      <4> QED BY <1>1, <1>3, <3>2, <4>2, <4>3
    <3> QED BY <1>1, <1>3, <3>1, <3>2
  <2> QED BY <2>5, <2>6, <2>7, <2>8
<1> HIDE DEF new, n
<1>6. \A j, k \in 1 .. n + 1 : j < k => Z(new[j]) <= Z(new[k])
  <2> SUFFICES ASSUME NEW j \in 1 .. n + 1, NEW k \in 1 .. n + 1, j < k
               PROVE  Z(new[j]) <= Z(new[k])
    OBVIOUS
  <2>1. \A x, y \in 1..n : x < y => Z(order[x]) <= Z(order[y])
    BY DEF Ordered, n
  <2>2. \A x \in 1..n : Z(order[x]) \in Nat
    BY <1>1
  <2>3. CASE k <= p
    BY <1>1, <1>3, <1>5, <2>1, <2>3
  <2>4. CASE k = p + 1
    BY <1>1, <1>3, <1>5, <2>4
  <2>5. CASE k > p + 1 /\ j <= p
    BY <1>1, <1>3, <1>5, <2>1, <2>5, SMTT(30)
  <2>6. CASE k > p + 1 /\ j = p + 1
    <3>1. new[j] = i /\ new[k] = order[k - 1] /\ k - 1 \in 1..n /\ k - 1 > p
      BY <1>1, <1>3, <1>5, <2>6
    <3> QED BY <1>1, <1>3, <2>2, <3>1
  <2>7. CASE k > p + 1 /\ j > p + 1
    <3>1. /\ new[j] = order[j - 1] /\ new[k] = order[k - 1]
          /\ j - 1 \in 1..n /\ k - 1 \in 1..n /\ j - 1 < k - 1
      BY <1>1, <1>3, <1>5, <2>7
    <3> QED BY <2>1, <3>1
  <2> QED BY <1>1, <1>3, <2>3, <2>4, <2>5, <2>6, <2>7
<1>7. \A j \in 1 .. n + 1 : new[j] \in T \union {i}
  <2>1. \A j \in 1..n : order[j] \in T
    BY DEF Ordered, n
  <2> SUFFICES ASSUME NEW j \in 1 .. n + 1
               PROVE  new[j] \in T \union {i}
    OBVIOUS
  <2>2. \/ j <= p /\ j \in 1..n
        \/ j = p + 1 /\ ~(j <= p)
        \/ j > p + 1 /\ j - 1 \in 1..n /\ ~(j <= p) /\ j # p + 1
    BY <1>1, <1>3
  <2> QED BY <1>5, <2>1, <2>2
<1>8. \A x \in T \union {i} : \E j \in 1 .. n + 1 : new[j] = x
  <2> SUFFICES ASSUME NEW x \in T \union {i}
               PROVE  \E j \in 1 .. n + 1 : new[j] = x
    OBVIOUS
  <2>1. p + 1 \in 1 .. n + 1 /\ new[p + 1] = i
    BY <1>1, <1>3, <1>5
  <2>2. CASE x # i
    <3>1. PICK j \in 1..n : order[j] = x
      BY <2>2 DEF Ordered, n
    <3>2. CASE j <= p
      <4>1. j \in 1 .. n + 1
        BY <1>1
      <4> QED BY <1>5, <3>1, <3>2, <4>1
    <3>3. CASE j > p
      <4>1. j + 1 \in 1 .. n + 1 /\ ~(j + 1 <= p) /\ j + 1 # p + 1 /\ (j + 1) - 1 = j
        BY <1>1, <1>3, <3>3
      <4>2. new[j + 1] = order[j]
        BY <1>5, <4>1
      <4> QED BY <3>1, <4>1, <4>2
    <3> QED BY <1>1, <1>3, <3>2, <3>3
  <2> QED BY <2>1, <2>2
<1> QED BY <1>4, <1>5, <1>6, <1>7, <1>8 DEF Ordered

LEMMA IterZOrderOK ==
  ASSUME windows \in [Slots -> Window]
  PROVE  Ordered(IterZOrder, OpenIn(windows))
<1> DEFINE Op(x, e) == InsertByZ(x, e)
           S == {order \in Seq(Slots) : \E T \in SUBSET Slots : Ordered(order, T)}
           l == MaxWindows
           s == [i \in Slots |-> i]
           G == [x \in S \X Slots |-> Op(x[1], x[2])]
           IsFold(f) == f = [T \in SUBSET (1..l) |->
                              IF T = {} THEN <<>> ELSE Op(f[T \ {Max(T)}], s[Max(T)])]
           it == CHOOSE f : IsFold(f)
<1>1. l \in Nat /\ Slots = 1..l /\ \A k \in 1..l : s[k] = k /\ s[k] \in Slots
  BY WindowsAssumption DEF Slots
<1>2. Len(s) = l /\ DOMAIN s = 1..l
  <2>1. s \in [Slots -> Slots]
    OBVIOUS
  <2> QED BY <1>1, <2>1, SlotsLen
<1>3. \A x \in S, e \in Slots : Op(x, e) \in S
  <2> SUFFICES ASSUME NEW x \in S, NEW e \in Slots
               PROVE  InsertByZ(x, e) \in S
    OBVIOUS
  <2>1. PICK T \in SUBSET Slots : Ordered(x, T)
    OBVIOUS
  <2>2. CASE windows[e].id = 0
    BY <2>2 DEF InsertByZ
  <2>3. CASE windows[e].id # 0
    <3>1. Ordered(InsertByZ(x, e), T \union {e}) /\ T \union {e} \in SUBSET Slots
      BY <2>1, <2>3, InsertKeepsOrder
    <3> QED BY <3>1 DEF Ordered
  <2> QED BY <2>2, <2>3
<1>4. <<>> \in S /\ Ordered(<<>>, {})
  <2>1. <<>> \in Seq(Slots) /\ Len(<<>>) = 0 /\ 1..0 = {}
    OBVIOUS
  <2>2. Ordered(<<>>, {})
    BY <2>1 DEF Ordered
  <2> QED BY <2>1, <2>2
<1>5. IterZOrder = it[1..l]
  <2>1. FoldLeft(InsertByZ, <<>>, s) = it[1..l]
    <3> HIDE DEF S, l
    <3> QED BY <1>2 DEF FoldLeft, MapThenFoldSet
  <2> HIDE DEF it
  <2> QED BY <2>1 DEF IterZOrder
<1> HIDE DEF S, Op, l, s
<1>6. G \in [S \X Slots -> S]
  BY <1>3
<1>7. PICK f : IsFoldOf(f, S, G, <<>>, l, s)
  <2> HIDE DEF G
  <2> QED BY <1>1, <1>4, <1>6, FoldExists
<1>8. IsFold(f)
  <2>1. ASSUME NEW T \in SUBSET (1..l)
        PROVE  f[T] = IF T = {} THEN <<>> ELSE Op(f[T \ {Max(T)}], s[Max(T)])
    <3>1. CASE T = {}
      BY <1>7, <3>1 DEF IsFoldOf
    <3>2. CASE T # {}
      <4>1. f[T \ {Max(T)}] \in S /\ s[Max(T)] \in Slots
        BY <1>1, <1>7, <3>2, MaxIn DEF IsFoldOf
      <4>2. G[<<f[T \ {Max(T)}], s[Max(T)]>>] = Op(f[T \ {Max(T)}], s[Max(T)])
        BY <4>1
      <4> HIDE DEF G
      <4> QED BY <1>7, <3>2, <4>2 DEF IsFoldOf
    <3> QED BY <3>1, <3>2
  <2> HIDE DEF G
  <2>2. f = [T \in SUBSET (1..l) |-> f[T]]
    BY <1>7 DEF IsFoldOf
  <2> QED BY <2>1, <2>2
<1>9. IsFold(it)
  <2> HIDE DEF IsFold
  <2> QED BY <1>8
<1> HIDE DEF it, IsFold
<1> DEFINE Seen(k) == {i \in 1..k : windows[i].id # 0}
           Good == [k \in 0..l |-> {x \in Seq(Slots) : Ordered(x, Seen(k))}]
           g == [k \in 0..l |-> it[1..k]]
<1>10. g[0] \in Good[0]
  <2>1. 1..0 = {} /\ 0 \in 0..l
    BY <1>1
  <2>2. it[{}] = <<>>
    BY <1>9 DEF IsFold
  <2>3. Seen(0) = {}
    BY <2>1
  <2>4. <<>> \in Seq(Slots)
    OBVIOUS
  <2> HIDE DEF Seen
  <2> QED BY <1>4, <2>1, <2>2, <2>3, <2>4
<1>11. ASSUME NEW k \in 0 .. l - 1, g[k] \in Good[k]
       PROVE  g[k + 1] \in Good[k + 1]
  <2>1. k \in 0..l /\ k + 1 \in 0..l /\ k + 1 \in 1..l /\ k \in Int
    BY <1>1
  <2> DEFINE x == it[1..k]
  <2>2. x \in Seq(Slots) /\ Ordered(x, Seen(k))
    <3> HIDE DEF Seen
    <3> QED BY <1>11, <2>1
  <2>3. g[k + 1] = InsertByZ(x, k + 1)
    <3>1. 1 .. k + 1 \in SUBSET (1..l) /\ 1 .. k + 1 # {} /\ Max(1 .. k + 1) = k + 1
          /\ (1 .. k + 1) \ {k + 1} = 1..k
      <4>1. l \in Nat /\ k \in 0 .. l - 1
        BY <1>1
      <4> QED BY <4>1, LastPosition
    <3>2. it[1 .. k + 1] = Op(it[1..k], s[k + 1])
      BY <1>9, <3>1 DEF IsFold
    <3> QED BY <1>1, <2>1, <3>2 DEF Op
  <2> HIDE DEF x
  <2>4. CASE windows[k + 1].id = 0
    <3>1. Seen(k + 1) = Seen(k)
      BY <2>1, <2>4
    <3>2. InsertByZ(x, k + 1) = x
      BY <2>4 DEF InsertByZ
    <3> HIDE DEF Seen
    <3> QED BY <2>1, <2>2, <2>3, <3>1, <3>2
  <2>5. CASE windows[k + 1].id # 0
    <3>1. Seen(k + 1) = Seen(k) \union {k + 1}
      BY <2>1, <2>5
    <3>2. k + 1 \in Slots
      BY <1>1, <2>1
    <3> HIDE DEF Seen
    <3>3. Ordered(InsertByZ(x, k + 1), Seen(k + 1))
      BY <2>2, <2>5, <3>1, <3>2, InsertKeepsOrder
    <3>4. InsertByZ(x, k + 1) \in Seq(Slots)
      BY <3>3 DEF Ordered
    <3> QED BY <2>1, <2>3, <3>3, <3>4
  <2> QED BY <2>4, <2>5
<1>12. g[l] \in Good[l]
  <2> HIDE DEF g, Good
  <2> QED BY <1>1, <1>10, <1>11, Rounds
<1>13. Seen(l) = OpenIn(windows) /\ l \in 0..l
  BY <1>1 DEF OpenIn
<1> HIDE DEF Seen
<1> QED BY <1>5, <1>12, <1>13

(***************************************************************************)
(* composite: what is left at a pixel is the last window of the order that *)
(* painted there.                                                          *)
(***************************************************************************)
LEMMA CompositeOK ==
  ASSUME NEW px, NEW py, NEW order \in Seq(Slots), order = IterZOrder
  PROVE  \/ /\ Composite(px, py) = 0
            /\ \A j \in 1..Len(order) : ~Paints(windows[order[j]], px, py)
         \/ \E m \in 1..Len(order) :
              /\ Composite(px, py) = order[m] /\ Paints(windows[order[m]], px, py)
              /\ \A j \in m + 1 .. Len(order) : ~Paints(windows[order[j]], px, py)
<1> DEFINE Op(x, e) == IF Paints(windows[e], px, py) THEN e ELSE x
           S == Slots \union {0}
           l == Len(order)
           G == [x \in S \X Slots |-> Op(x[1], x[2])]
           IsFold(f) == f = [T \in SUBSET (1..l) |->
                              IF T = {} THEN 0 ELSE Op(f[T \ {Max(T)}], order[Max(T)])]
           it == CHOOSE f : IsFold(f)
<1>1. l \in Nat /\ DOMAIN order = 1..l /\ \A k \in 1..l : order[k] \in Slots
  BY LenProperties, ElementOfSeq
<1>2. \A x \in S, e \in Slots : Op(x, e) \in S
  OBVIOUS
<1>3. 0 \in S
  OBVIOUS
<1>4. Composite(px, py) = it[1..l]
  <2>1. FoldLeft(Op, 0, order) = it[1..l]
    <3> HIDE DEF S, Op
    <3> QED BY <1>1 DEF FoldLeft, MapThenFoldSet
  <2> HIDE DEF it
  <2> QED BY <2>1 DEF Composite
<1> HIDE DEF S, Op, l
<1>5. G \in [S \X Slots -> S]
  BY <1>2
<1>6. PICK f : IsFoldOf(f, S, G, 0, l, order)
  <2> HIDE DEF G
  <2> QED BY <1>1, <1>3, <1>5, FoldExists
<1>7. IsFold(f)
  <2>1. ASSUME NEW T \in SUBSET (1..l)
        PROVE  f[T] = IF T = {} THEN 0 ELSE Op(f[T \ {Max(T)}], order[Max(T)])
    <3>1. CASE T = {}
      BY <1>6, <3>1 DEF IsFoldOf
    <3>2. CASE T # {}
      <4>1. f[T \ {Max(T)}] \in S /\ order[Max(T)] \in Slots
        BY <1>1, <1>6, <3>2, MaxIn DEF IsFoldOf
      <4>2. G[<<f[T \ {Max(T)}], order[Max(T)]>>] = Op(f[T \ {Max(T)}], order[Max(T)])
        BY <4>1
      <4> HIDE DEF G
      <4> QED BY <1>6, <3>2, <4>2 DEF IsFoldOf
    <3> QED BY <3>1, <3>2
  <2> HIDE DEF G
  <2>2. f = [T \in SUBSET (1..l) |-> f[T]]
    BY <1>6 DEF IsFoldOf
  <2> QED BY <2>1, <2>2
<1>8. IsFold(it)
  <2> HIDE DEF IsFold
  <2> QED BY <1>7
<1> HIDE DEF it, IsFold
<1> DEFINE Covers(j) == Paints(windows[order[j]], px, py)
           Shown(x, k) == \/ x = 0 /\ \A j \in 1..k : ~Covers(j)
                          \/ \E m \in 1..k : /\ x = order[m] /\ Covers(m)
                                             /\ \A j \in m + 1 .. k : ~Covers(j)
           Good == [k \in 0..l |-> {x \in S : Shown(x, k)}]
           g == [k \in 0..l |-> it[1..k]]
<1>9. g[0] \in Good[0]
  <2>1. 1..0 = {} /\ 0 \in 0..l
    BY <1>1
  <2>2. it[{}] = 0
    BY <1>8 DEF IsFold
  <2> HIDE DEF Covers
  <2> QED BY <1>3, <2>1, <2>2
<1>10. ASSUME NEW k \in 0 .. l - 1, g[k] \in Good[k]
       PROVE  g[k + 1] \in Good[k + 1]
  <2>1. k \in 0..l /\ k + 1 \in 0..l /\ k + 1 \in 1..l /\ k \in Int /\ k \in Nat
    BY <1>1
  <2> DEFINE x == it[1..k]
  <2>2. x \in S /\ Shown(x, k)
    <3> HIDE DEF Shown
    <3> QED BY <1>10, <2>1
  <2>3. g[k + 1] = Op(x, order[k + 1])
    <3>1. 1 .. k + 1 \in SUBSET (1..l) /\ 1 .. k + 1 # {} /\ Max(1 .. k + 1) = k + 1
          /\ (1 .. k + 1) \ {k + 1} = 1..k
      <4>1. l \in Nat /\ k \in 0 .. l - 1
        BY <1>1
      <4> QED BY <4>1, LastPosition
    <3>2. it[1 .. k + 1] = Op(it[1..k], order[k + 1])
      BY <1>8, <3>1 DEF IsFold
    <3> QED BY <2>1, <3>2
  <2> HIDE DEF x
  <2>4. \A j \in 1 .. k + 1 : j \in 1..k \/ j = k + 1
    BY <2>1
  <2>5. CASE Covers(k + 1)
    <3>1. g[k + 1] = order[k + 1]
      BY <2>3, <2>5 DEF Op
    <3>2. k + 1 \in 1 .. k + 1 /\ (k + 1) + 1 .. k + 1 = {}
      BY <2>1
    <3> HIDE DEF Covers
    <3>3. Shown(order[k + 1], k + 1)
      BY <2>5, <3>2
    <3>4. order[k + 1] \in S
      BY <1>1, <2>1 DEF S
    <3> HIDE DEF Shown, g
    <3> QED BY <2>1, <3>1, <3>3, <3>4
  <2>6. CASE ~Covers(k + 1)
    <3>1. g[k + 1] = x
      BY <2>3, <2>6 DEF Op
    <3> HIDE DEF Covers
    <3>2. Shown(x, k + 1)
      <4>1. CASE x = 0 /\ \A j \in 1..k : ~Covers(j)
        BY <2>4, <2>6, <4>1
      <4>2. ASSUME NEW m \in 1..k, x = order[m], Covers(m), \A j \in m + 1 .. k : ~Covers(j)
            PROVE  Shown(x, k + 1)
        <5>1. m \in 1 .. k + 1 /\ \A j \in m + 1 .. k + 1 : j \in m + 1 .. k \/ j = k + 1
          BY <2>1
        <5> QED BY <2>6, <4>2, <5>1
      <4> QED BY <2>2, <4>1, <4>2
    <3> HIDE DEF Shown, g
    <3> QED BY <2>1, <2>2, <3>1, <3>2
  <2> QED BY <2>5, <2>6
<1>11. g[l] \in Good[l]
  <2> HIDE DEF g, Good
  <2> QED BY <1>1, <1>9, <1>10, Rounds
<1>12. Shown(it[1..l], l)
  <2>1. l \in 0..l
    BY <1>1
  <2> HIDE DEF Shown
  <2> QED BY <1>11, <2>1
<1> QED BY <1>4, <1>12 DEF l

LEMMA PaintsInside ==
  ASSUME NEW w \in Window, NEW px \in Int, NEW py \in Int, Paints(w, px, py)
  PROVE  ContainsPoint(w, px, py)
<1>1. /\ w.x \in Int /\ w.y \in Int /\ w.width \in Nat /\ w.height \in Nat
      /\ TitleBar \in Nat \ {0} /\ Border \in Nat \ {0}
  BY FrameAssumption DEF Window
<1>2. CASE OnOutline(w, px, py)
  BY <1>2 DEF OnOutline
<1>3. CASE OnTitle(w, px, py)
  BY <1>1, <1>3 DEF OnTitle, ContainsPoint, FullWidth, FullHeight
<1>4. CASE OnContent(w, px, py)
  BY <1>1, <1>4 DEF OnContent, ContainsPoint, FullWidth, FullHeight
<1> QED BY <1>2, <1>3, <1>4 DEF Paints

(***************************************************************************)
(* The hit test looks for the highest place in the stacking order, the     *)
(* compositor sorts and paints over: they agree because places are         *)
(* distinct and a window paints inside its frame only.                     *)
(***************************************************************************)
LEMMA WhatIsSeen ==
  ASSUME WmInv
  PROVE  SeenIsHit
<1>1. ListOK(windows, count, next_id, next_z) /\ windows \in [Slots -> Window]
  BY DEF WmInv, ListOK
<1>2. Ordered(IterZOrder, OpenIn(windows))
  BY <1>1, IterZOrderOK
<1> SUFFICES ASSUME NEW p \in Screen
             PROVE  LET hit == HitTest(p[1], p[2])
                        seen == Composite(p[1], p[2])
                    IN IF hit = 0 THEN seen = 0
                       ELSE Paints(windows[hit], p[1], p[2]) => seen = hit
  BY DEF SeenIsHit
<1> DEFINE px == p[1]
           py == p[2]
           order == IterZOrder
           P(i) == Paints(windows[i], px, py)
<1>3. px \in Int /\ py \in Int
  BY DEF Screen
<1>4. /\ order \in Seq(Slots) /\ Len(order) \in Nat
      /\ \A j, k \in 1..Len(order) : j < k => Z(order[j]) <= Z(order[k])
      /\ \A j \in 1..Len(order) : order[j] \in OpenIn(windows)
      /\ \A i \in OpenIn(windows) : \E j \in 1..Len(order) : order[j] = i
  <2>1. order \in Seq(Slots)
    BY <1>2 DEF Ordered
  <2>2. Len(order) \in Nat
    BY <2>1, LenProperties
  <2> QED BY <1>2, <2>1, <2>2 DEF Ordered
<1> HIDE DEF px, py, order, P
<1>5. \A i \in OpenIn(windows) : P(i) => i \in Hit(px, py)
  BY <1>1, <1>3, PaintsInside DEF OpenIn, Hit, P
<1>6. \/ Composite(px, py) = 0 /\ \A j \in 1..Len(order) : ~P(order[j])
      \/ \E m \in 1..Len(order) :
           /\ Composite(px, py) = order[m] /\ P(order[m])
           /\ \A j \in m + 1 .. Len(order) : ~P(order[j])
  BY <1>4, CompositeOK DEF order, P
<1>7. 0 \notin Slots /\ Hit(px, py) \subseteq OpenIn(windows) /\ OpenIn(windows) \subseteq Slots
  BY DEF Slots, Hit, OpenIn
<1>8. CASE Hit(px, py) = {}
  <2>1. HitTest(px, py) = 0
    BY <1>1, <1>8, HitTestOK
  <2>2. Composite(px, py) = 0
    BY <1>4, <1>5, <1>6, <1>8
  <2> QED BY <2>1, <2>2 DEF px, py
<1>9. CASE Hit(px, py) # {}
  <2> DEFINE h == HitTest(px, py)
  <2>1. h \in Hit(px, py) /\ \A j \in Hit(px, py) \ {h} : windows[j].z_order < windows[h].z_order
    BY <1>1, <1>9, HitTestOK
  <2> HIDE DEF h
  <2>2. ASSUME P(h)
        PROVE  Composite(px, py) = h
    <3>1. PICK a \in 1..Len(order) : order[a] = h
      BY <1>4, <1>7, <2>1
    <3>2. PICK m \in 1..Len(order) :
             /\ Composite(px, py) = order[m] /\ P(order[m])
             /\ \A j \in m + 1 .. Len(order) : ~P(order[j])
      BY <1>6, <2>2, <3>1
    <3>3. order[m] \in Hit(px, py)
      BY <1>4, <1>5, <3>2
    <3>4. ~(a > m)
      <4>1. a > m => a \in m + 1 .. Len(order)
        BY <1>4
      <4> QED BY <2>2, <3>1, <3>2, <4>1
    <3>5. CASE a = m
      BY <3>1, <3>2, <3>5
    <3>6. CASE a < m
      <4>1. Z(h) <= Z(order[m])
        BY <1>4, <3>1, <3>6
      <4>2. windows[h].z_order \in Nat /\ windows[order[m]].z_order \in Nat
        BY <1>1, <1>7, <2>1, <3>3 DEF Window
      <4>3. order[m] = h
        BY <2>1, <3>3, <4>1, <4>2 DEF Z
      <4> QED BY <3>2, <4>3
    <3> QED BY <1>4, <3>4, <3>5, <3>6
  <2>3. h # 0
    BY <1>7, <2>1
  <2> QED BY <2>2, <2>3 DEF px, py, h, P
<1> QED BY <1>8, <1>9

(***************************************************************************)
(* A click goes to the window that is seen: hit test and compositor agree  *)
(* wherever the window that is hit paints at all.                          *)
(***************************************************************************)
THEOREM ClicksGoToWhatIsSeen == Spec => []SeenIsHit
<1>1. WmInv => SeenIsHit
  BY WhatIsSeen
<1> QED BY <1>1, InitWm, WmStep, PTL DEF Spec

=============================================================================
