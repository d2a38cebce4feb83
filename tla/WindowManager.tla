---------------------------- MODULE WindowManager ----------------------------
(***************************************************************************)
(* The window manager (wm/src): the list of windows, the cursor, the       *)
(* router that turns input events into focus, raising and dragging, and    *)
(* what the compositor puts on the screen.                                 *)
(*                                                                         *)
(* The wrappers of wm/src/syscalls.rs are stubs (poll_input always returns *)
(* 0, nanosleep ENOSYS), so the loop of run never receives an event yet    *)
(* and is not modelled.  The model hands mouse events to process_event in  *)
(* any order, as the kernel could once the wrappers call it, while         *)
(* applications create and destroy windows between them; the geometry of   *)
(* the screen is the one of the skeleton feature.                          *)
(*                                                                         *)
(* Keys and the other buttons, which change nothing here, and the          *)
(* contents, colours and titles of windows are left out.                   *)
(***************************************************************************)
EXTENDS Integers, FiniteSets, Sequences, SequencesExt

CONSTANTS Width, Height,   \* of the framebuffer
          TitleBar,        \* TITLE_BAR_HEIGHT
          Border,          \* BORDER_WIDTH
          MaxWindows,      \* MAX_WINDOWS
          Shapes,          \* what applications ask for: x, y, width and height
          Moves,           \* the motions of the mouse: pairs dx, dy
          MaxId, MaxZ      \* bounds: next_id and next_z

ASSUME ScreenAssumption == Width \in Nat \ {0} /\ Height \in Nat \ {0}
ASSUME FrameAssumption == TitleBar \in Nat \ {0} /\ Border \in Nat \ {0}
ASSUME WindowsAssumption == MaxWindows \in Nat \ {0} /\ MaxId \in Nat \ {0} /\ MaxZ \in Nat \ {0}
ASSUME ShapesAssumption == Shapes \subseteq [x : Int, y : Int, width : Nat, height : Nat]
ASSUME MovesAssumption == Moves \subseteq Int \X Int

VARIABLES windows,   \* WindowList::windows
          count, next_id, next_z,
          cursor,    \* x, y and left, the left button
          drag       \* window_id (0: none), offset_x, offset_y

list == <<windows, count, next_id, next_z>>
vars == <<list, cursor, drag>>

Slots == 1..MaxWindows

\* Window::empty; a window is never hidden and always draggable.
Empty == [id |-> 0, x |-> 0, y |-> 0, width |-> 0, height |-> 0, z_order |-> 0, focused |-> FALSE]

FullWidth(w)  == w.width + 2 * Border
FullHeight(w) == w.height + TitleBar + 2 * Border

ContainsPoint(w, px, py) ==
  px \in w.x .. w.x + FullWidth(w) - 1 /\ py \in w.y .. w.y + FullHeight(w) - 1

IsInTitleBar(w, px, py) ==
  px \in w.x .. w.x + FullWidth(w) - 1 /\ py \in w.y .. w.y + TitleBar - 1

-----------------------------------------------------------------------------
(***************************************************************************)
(* The window list.  Every search takes the first slot that fits.          *)
(***************************************************************************)
SlotOf(id) == SelectInSeq(windows, LAMBDA w : w.id = id)

NewWindow(s) ==
  [id |-> next_id, x |-> s.x, y |-> s.y, width |-> s.width, height |-> s.height,
   z_order |-> next_z, focused |-> FALSE]

Create(s) ==
  /\ count < MaxWindows /\ next_id <= MaxId /\ next_z <= MaxZ
  /\ windows' = [windows EXCEPT ![SlotOf(0)] = NewWindow(s)]
  /\ count' = count + 1
  /\ next_id' = next_id + 1 /\ next_z' = next_z + 1
  /\ UNCHANGED <<cursor, drag>>

Destroy(id) ==
  /\ SlotOf(id) # 0
  /\ windows' = [windows EXCEPT ![SlotOf(id)] = Empty]
  /\ count' = count - 1
  /\ UNCHANGED <<next_id, next_z, cursor, drag>>

\* Mutant: the other windows keep their flag.
SetFocusToo(ws, id) == [i \in Slots |-> [ws[i] EXCEPT !.focused = @ \/ ws[i].id = id]]

\* set_focus gives the flag to the empty slots when id is 0.
SetFocus(ws, id) == [i \in Slots |-> [ws[i] EXCEPT !.focused = ws[i].id = id]]

\* Mutant: off by one, the place of the window that is on top now.
RaiseToTopShared(ws, i) == [ws EXCEPT ![i].z_order = next_z - 1]

RaiseToTop(ws, i) == [ws EXCEPT ![i].z_order = next_z]

FocusedId(ws) ==
  LET i == SelectInSeq(ws, LAMBDA w : w.id # 0 /\ w.focused)
  IN IF i = 0 THEN 0 ELSE ws[i].id

\* Mutant: the first window that contains the point.
HitTestFirst(px, py) ==
  SelectInSeq(windows, LAMBDA w : w.id # 0 /\ ContainsPoint(w, px, py))

(***************************************************************************)
(* hit_test: the slot of the topmost window at a point, 0 if there is      *)
(* none.  Of two windows with the same z_order the later slot wins.        *)
(***************************************************************************)
HitTest(px, py) ==
  LET hit == {i \in Slots : windows[i].id # 0 /\ ContainsPoint(windows[i], px, py)}
  IN IF hit = {} THEN 0
     ELSE CHOOSE i \in hit : \A j \in hit \ {i} :
            \/ windows[j].z_order < windows[i].z_order
            \/ windows[j].z_order = windows[i].z_order /\ j < i

-----------------------------------------------------------------------------
(***************************************************************************)
(* process_mouse.                                                          *)
(***************************************************************************)
Clamp(v, last) == IF v < 0 THEN 0 ELSE IF v > last THEN last ELSE v

\* Mutant: the cursor may leave the screen.
ApplyDeltaFree(m, left) == [x |-> cursor.x + m[1], y |-> cursor.y + m[2], left |-> left]

ApplyDelta(m, left) ==
  [x |-> Clamp(cursor.x + m[1], Width - 1), y |-> Clamp(cursor.y + m[2], Height - 1), left |-> left]

StopDrag == drag' = [drag EXCEPT !.window_id = 0] /\ UNCHANGED list

\* Mutant: the window moves as far as the mouse did.
DragByMotion(m, c) ==
  /\ windows' = IF SlotOf(drag.window_id) = 0 THEN windows
                ELSE [windows EXCEPT ![SlotOf(drag.window_id)].x = @ + m[1],
                                     ![SlotOf(drag.window_id)].y = @ + m[2]]
  /\ UNCHANGED <<count, next_id, next_z, drag>>

DragTo(m, c) ==
  /\ windows' = IF SlotOf(drag.window_id) = 0 THEN windows
                ELSE [windows EXCEPT ![SlotOf(drag.window_id)].x = c.x - drag.offset_x,
                                     ![SlotOf(drag.window_id)].y = c.y - drag.offset_y]
  /\ UNCHANGED <<count, next_id, next_z, drag>>

PressOnDesktop(c) ==
  /\ HitTest(c.x, c.y) = 0
  /\ windows' = SetFocus(windows, 0)
  /\ UNCHANGED <<count, next_id, next_z, drag>>

PressOnWindow(c) ==
  LET i == HitTest(c.x, c.y)
      w == windows[i]
  IN /\ i # 0
     /\ windows' = RaiseToTop(SetFocus(windows, w.id), i)
     /\ next_z' = next_z + 1
     /\ drag' = IF IsInTitleBar(w, c.x, c.y)
                THEN [window_id |-> w.id, offset_x |-> c.x - w.x, offset_y |-> c.y - w.y]
                ELSE drag
     /\ UNCHANGED <<count, next_id>>

\* Motion, or a button that is held: nothing but the cursor changes.
JustMove == UNCHANGED <<list, drag>>

\* Mutant: a button that is held counts as pressed again.
ProcessMouseHeld(m, left) ==
  LET c == ApplyDelta(m, left)
      dragging == drag.window_id # 0
  IN /\ cursor' = c
     /\ \/ dragging /\ ~left /\ StopDrag
        \/ dragging /\ left /\ DragTo(m, c)
        \/ ~dragging /\ left /\ (PressOnDesktop(c) \/ PressOnWindow(c))
        \/ ~dragging /\ ~left /\ JustMove

ProcessMouse(m, left) ==
  LET c == ApplyDelta(m, left)
      dragging == drag.window_id # 0
      left_down == left /\ ~cursor.left
  IN /\ cursor' = c
     /\ \/ dragging /\ ~left /\ StopDrag
        \/ dragging /\ left /\ DragTo(m, c)
        \/ ~dragging /\ left_down /\ (PressOnDesktop(c) \/ PressOnWindow(c))
        \/ ~dragging /\ ~left_down /\ JustMove

(***************************************************************************)
(* process_event with a mouse event.  Presses are bounded with next_z.     *)
(***************************************************************************)
ProcessEvent(m, left) ==
  /\ left /\ ~cursor.left => next_z <= MaxZ
  /\ ProcessMouse(m, left)

-----------------------------------------------------------------------------
(***************************************************************************)
(* init centres the cursor and creates a window.                           *)
(***************************************************************************)
Init ==
  /\ \E s \in Shapes :
       windows = [i \in Slots |-> IF i = 1
         THEN [id |-> 1, x |-> s.x, y |-> s.y, width |-> s.width, height |-> s.height,
               z_order |-> 1, focused |-> FALSE]
         ELSE Empty]
  /\ count = 1 /\ next_id = 2 /\ next_z = 2
  /\ cursor = [x |-> Width \div 2, y |-> Height \div 2, left |-> FALSE]
  /\ drag = [window_id |-> 0, offset_x |-> 0, offset_y |-> 0]

Next ==
  \/ \E s \in Shapes : Create(s)
  \/ \E id \in 1..MaxId : Destroy(id)
  \/ \E m \in Moves, left \in BOOLEAN : ProcessEvent(m, left)

Spec == Init /\ [][Next]_vars

-----------------------------------------------------------------------------
(***************************************************************************)
(* The compositor: the pixels of the outline, the title bar and the        *)
(* contents.  Windows are painted in the order of iter_z_order, each over  *)
(* the ones before.                                                        *)
(***************************************************************************)
OnOutline(w, px, py) ==
  /\ ContainsPoint(w, px, py)
  /\ px \in {w.x, w.x + FullWidth(w) - 1} \/ py \in {w.y, w.y + FullHeight(w) - 1}

OnTitle(w, px, py) ==
  px \in w.x + 1 .. w.x + FullWidth(w) - 2 /\ py \in w.y + 1 .. w.y + TitleBar

OnContent(w, px, py) ==
  /\ px \in w.x + Border .. w.x + Border + w.width - 1
  /\ py \in w.y + TitleBar .. w.y + TitleBar + w.height - 1

Paints(w, px, py) == OnOutline(w, px, py) \/ OnTitle(w, px, py) \/ OnContent(w, px, py)

\* One round of the insertion sort: the slot goes behind the last one that is
\* not above it.
InsertByZ(order, i) ==
  IF windows[i].id = 0 THEN order
  ELSE InsertAt(order,
         1 + SelectLastInSeq(order, LAMBDA j : windows[j].z_order <= windows[i].z_order), i)

IterZOrder == FoldLeft(InsertByZ, <<>>, [i \in Slots |-> i])

\* The slot of the window whose pixel it is once all are painted.
Composite(px, py) ==
  LET Paint(shown, i) == IF Paints(windows[i], px, py) THEN i ELSE shown
  IN FoldLeft(Paint, 0, IterZOrder)

=============================================================================
