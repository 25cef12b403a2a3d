--------------------------- MODULE MCSharedMemory ---------------------------
(* One writer and two readers; a pool of one slot or of two.                *)
EXTENDS SharedMemory, TLC

CONSTANTS r1, r2

Small == [slot_count |-> 1, slot_size |-> 1]
Large == [slot_count |-> 2, slot_size |-> 1]
MCConfig == {Small, Large}
Readers == Permutations({r1, r2})
=============================================================================
