------------------------------ MODULE InputMC -------------------------------
(***************************************************************************)
(* A small instance of the input path: packets that move right beyond the  *)
(* range, move up and left with a button down, and release the button;     *)
(* their data bytes include one that looks like a status byte.             *)
(***************************************************************************)
EXTENDS InputProps

SomePackets == {<<72, 0, 0>>, <<25, 248, 8>>, <<8, 0, 0>>}

=============================================================================
