------------------------------ MODULE SlotPool ------------------------------
(***************************************************************************)
(* What the shared-memory slot manager promises to the code above it: a    *)
(* slot is handed to a new owner only while nobody owns it, an owner may   *)
(* let others join, and the slot is free again once the last owner left.   *)
(* Owners are anonymous here: holders[s] is the set of those holding slot  *)
(* s.  Which free slot is handed out is left open.                         *)
(*                                                                         *)
(* writer[s] says whose data slot s has: the owner it was last handed to.  *)
(* It tells a slot that is handed out from one that somebody joins, and    *)
(* changes only while the slot has no holder: the data last as long as     *)
(* anybody holds them.                                                     *)
(***************************************************************************)
CONSTANTS Slot,       \* the slot handles of one manager
          Holder,     \* whoever may hold a slot
          Nobody      \* the writer of a slot that was never handed out

VARIABLES holders, writer

poolVars == <<holders, writer>>

PoolInit ==
    /\ holders = [s \in Slot |-> {}]
    /\ writer = [s \in Slot |-> Nobody]

\* h holds no slot.
Idle(h) == \A s \in Slot : h \notin holders[s]

\* A slot without a holder is handed out.
Grant(s, h) ==
    /\ holders[s] = {}
    /\ Idle(h)
    /\ holders' = [holders EXCEPT ![s] = {h}]
    /\ writer' = [writer EXCEPT ![s] = h]

\* A further holder joins a slot that is held.
Join(s, h) ==
    /\ holders[s] # {}
    /\ Idle(h)
    /\ holders' = [holders EXCEPT ![s] = @ \cup {h}]
    /\ UNCHANGED writer

\* A holder leaves.
Leave(s, h) ==
    /\ h \in holders[s]
    /\ holders' = [holders EXCEPT ![s] = @ \ {h}]
    /\ UNCHANGED writer

\* A holder passes its slot on.
Pass(s, h, i) ==
    /\ h \in holders[s]
    /\ Idle(i)
    /\ holders' = [holders EXCEPT ![s] = (@ \ {h}) \cup {i}]
    /\ UNCHANGED writer

PoolNext ==
    \E s \in Slot, h \in Holder :
        \/ Grant(s, h)
        \/ Join(s, h)
        \/ Leave(s, h)
        \/ \E i \in Holder : Pass(s, h, i)

PoolSpec == PoolInit /\ [][PoolNext]_poolVars
=============================================================================
