--------------------------- MODULE ScancodeQueue ---------------------------
(***************************************************************************)
(* What the scan-code buffer promises its users: a first-in first-out      *)
(* queue of bounded capacity that drops what arrives while it is full.     *)
(* taken is what the last consumer got.                                    *)
(***************************************************************************)
EXTENDS Naturals, Sequences

CONSTANTS Capacity, Codes

VARIABLES queue, taken

vars == <<queue, taken>>

Init == queue = <<>> /\ taken = <<>>

Put(code) ==
  /\ queue' = IF Len(queue) < Capacity THEN Append(queue, code) ELSE queue
  /\ UNCHANGED taken

Take(n) ==
  /\ taken' = SubSeq(queue, 1, n)
  /\ queue' = SubSeq(queue, n + 1, Len(queue))

Next ==
  \/ \E code \in Codes : Put(code)
  \/ \E n \in 1 .. Len(queue) : Take(n)

Spec == Init /\ [][Next]_vars

=============================================================================
