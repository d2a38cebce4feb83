------------------------- MODULE WindowManagerProps -------------------------
(***************************************************************************)
(* What the window manager has to keep true.                               *)
(***************************************************************************)
EXTENDS WindowManager

Open == {i \in Slots : windows[i].id # 0}
Screen == (0 .. Width - 1) \X (0 .. Height - 1)

\* The window list (WindowList of window.rs): count is the number of windows,
\* no identifier and no place in the stacking order is given twice.
TypeOK ==
  /\ count = Cardinality(Open)
  /\ next_id \in 1 .. MaxId + 1 /\ next_z \in 1 .. MaxZ + 1
  /\ \A i \in Open : windows[i].id < next_id /\ windows[i].z_order \in 1 .. next_z - 1
  /\ \A i, j \in Open : i # j => /\ windows[i].id # windows[j].id
                                 /\ windows[i].z_order # windows[j].z_order
  /\ drag.window_id \in 0 .. next_id - 1

\* Keys go to one window: no two windows have the focus, whatever was clicked,
\* destroyed and created before (set_focus(0) of window.rs leaves the flag in
\* the empty slots).
OneFocus == \A i, j \in Open : windows[i].focused /\ windows[j].focused => i = j

\* While a window is dragged the cursor stays where it took hold of it, inside
\* the title bar, also when the cursor is stopped by the edge of the screen or
\* other windows come and go (DragState of input_router.rs).
DragKeepsGrip ==
  LET i == SlotOf(drag.window_id) IN
  drag.window_id # 0 =>
    /\ cursor.left
    /\ i # 0 => /\ cursor.x - windows[i].x = drag.offset_x
                /\ cursor.y - windows[i].y = drag.offset_y
                /\ IsInTitleBar(windows[i], cursor.x, cursor.y)

\* No window is lost: some pixel of the title bar of every window is on the
\* screen, so that the mouse can always get hold of it again (apply_delta of
\* cursor.rs keeps the cursor on the screen, and windows move only with it).
TitleBarReachable ==
  \A i \in Open : \E p \in Screen : IsInTitleBar(windows[i], p[1], p[2])

\* A click goes to the window that is seen: where the window that hit_test
\* finds is painted at all, no other window covers it; and where no window is
\* hit, none is painted (hit_test and iter_z_order of window.rs, composite of
\* compositor.rs).
SeenIsHit ==
  \A p \in Screen :
    LET hit == HitTest(p[1], p[2])
        seen == Composite(p[1], p[2])
    IN IF hit = 0 THEN seen = 0
       ELSE Paints(windows[hit], p[1], p[2]) => seen = hit

\* The focus moves only when a button goes down, and to the window that is
\* then on top at the cursor; it is lost with its window (process_mouse of
\* input_router.rs, destroy of window.rs).
FocusFollowsPress ==
  [][FocusedId(windows') # FocusedId(windows) =>
       \/ FocusedId(windows') = 0 /\ ~cursor.left /\ cursor'.left
       \/ FocusedId(windows') = 0 /\ count' < count
       \/ /\ ~cursor.left /\ cursor'.left
          /\ \E i \in Open : /\ windows'[i].id = FocusedId(windows')
                             /\ ContainsPoint(windows[i], cursor'.x, cursor'.y)
                             /\ \A j \in Open \ {i} : windows'[j].z_order < windows'[i].z_order
    ]_vars
=============================================================================
