-------------------------- MODULE WindowManagerMC --------------------------
(***************************************************************************)
(* A small screen for TLC.                                                 *)
(***************************************************************************)
EXTENDS WindowManagerProps

TwoPlaces == {[x |-> 0, y |-> 0, width |-> 1, height |-> 1],
              [x |-> 1, y |-> 1, width |-> 1, height |-> 1]}
Steps == {<<0, 0>>, <<1, 0>>, <<-1, 0>>, <<0, 1>>, <<0, -1>>}
=============================================================================
