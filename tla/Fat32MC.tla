------------------------------ MODULE Fat32MC ------------------------------
(***************************************************************************)
(* Small disks for TLC.                                                    *)
(***************************************************************************)
EXTENDS Fat32Props

TwoNames   == {"a", "b"}
NoBytes    == {0}
Bits       == {0, 1}
=============================================================================
