---------------------------- MODULE MCStateLease ----------------------------
(* StateLease for TLC. *)
EXTENDS StateLease, TLC

CONSTANTS s1, s2

MCSlots == {s1, s2}
MCPositions == 0 .. (Capacity + 1)
=============================================================================
