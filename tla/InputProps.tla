----------------------------- MODULE InputProps -----------------------------
(***************************************************************************)
(* What the input path must satisfy.  The history variable truth follows   *)
(* what the mouse did: the packet it is sending, the motion of its         *)
(* complete packets that no poll has reported yet, the number of those     *)
(* packets, and whether that motion ever left the range of the deltas.     *)
(***************************************************************************)
EXTENDS Input

CONSTANT MaxBurst   \* bound: packets between two polls of the mouse

ASSUME MaxBurstAssumption == MaxBurst \in Nat

VARIABLE truth

allvars == <<vars, truth>>

NoMotion == [sent |-> <<>>, x |-> 0, y |-> 0, burst |-> 0, clipped |-> FALSE]

InRange(d) == d \in -DeltaMax - 1 .. DeltaMax

AddPacket ==
  LET x == truth.x + DeltaX(truth.sent)
      y == truth.y + DeltaY(truth.sent)
      clipped == truth.clipped \/ ~InRange(x) \/ ~InRange(y)
  IN [truth EXCEPT !.x = IF clipped THEN 0 ELSE x, !.y = IF clipped THEN 0 ELSE y,
                   !.clipped = clipped]

Completes == Len(wire) = 1 /\ wire' = <<>>

Track ==
  truth' = CASE wire = <<>> /\ wire' # <<>> ->
                  [truth EXCEPT !.sent = wire', !.burst = @ + 1]
             [] Completes -> AddPacket
             [] PollMouse -> [truth EXCEPT !.x = IF truth.clipped THEN 0 ELSE @ - dx,
                                           !.y = IF truth.clipped THEN 0 ELSE @ - dy,
                                           !.burst = 0, !.clipped = FALSE]
             [] OTHER -> truth

TrackedInit == Init /\ truth = NoMotion

TrackedNext == Next /\ Track /\ truth'.burst <= MaxBurst

TrackedSpec == TrackedInit /\ [][TrackedNext]_allvars

-----------------------------------------------------------------------------
(***************************************************************************)
(* Type invariant: the cursors stay in the buffer, at most two bytes of a  *)
(* packet are pending, and the deltas stay in the range of an i16.         *)
(***************************************************************************)
TypeOK ==
  /\ buf \in [0 .. Size - 1 -> 0..255]
  /\ head \in 0 .. Size - 1 /\ tail \in 0 .. Size - 1
  /\ buttons \in 0..7
  /\ InRange(dx) /\ InRange(dy)
  /\ Len(packet) <= 2

(***************************************************************************)
(* ScancodeBuffer and its consumers implement the bounded queue: codes     *)
(* come out in the order they went in, none twice, none overwritten, and a *)
(* code is only dropped when Size - 1 others wait.                         *)
(***************************************************************************)
Queue == INSTANCE ScancodeQueue WITH Capacity <- Size - 1, queue <- Oldest(Count)

ImplementsQueue == Queue!Spec

(***************************************************************************)
(* on_byte, drain and poll_next neither lose nor invent motion: what the   *)
(* mouse sent and no poll reported is what dx and dy hold, unless a delta  *)
(* was clipped.  Keys that are polled first do not disturb it.             *)
(***************************************************************************)
MotionConserved == ~truth.clipped => dx = truth.x /\ dy = truth.y

(***************************************************************************)
(* complete_packet saturates: a packet never moves the accumulated delta   *)
(* against its own direction.                                              *)
(***************************************************************************)
MotionKeepsDirection ==
  [][Completes => /\ DeltaX(truth.sent) >= 0 => dx' >= dx
                  /\ DeltaX(truth.sent) <= 0 => dx' <= dx
                  /\ DeltaY(truth.sent) >= 0 => dy' >= dy
                  /\ DeltaY(truth.sent) <= 0 => dy' <= dy]_allvars

=============================================================================
