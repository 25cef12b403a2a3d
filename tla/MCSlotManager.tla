--------------------------- MODULE MCSlotManager ---------------------------
(* Two slots, three guards and one bare handle.                             *)
EXTENDS SlotManager

CONSTANTS g1, g2, g3, b1

MCGuard == {g1, g2, g3}
MCHandle == {b1}
=============================================================================
