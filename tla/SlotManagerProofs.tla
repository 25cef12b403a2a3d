------------------------- MODULE SlotManagerProofs -------------------------
(***************************************************************************)
(* The slot manager is correct for any number of slots, guards and bare    *)
(* handles (fewer references than the uint32 counts): TypeOK and           *)
(* CountsHolders are invariants, and the manager implements SlotPool.      *)
(*                                                                         *)
(* TypeOK /\ CountsHolders is inductive.  The argument about counts is     *)
(* always the same: a step adds one holder to the set of one slot, or      *)
(* removes one, and the counter moves by one with it.                      *)
(***************************************************************************)
EXTENDS SlotManager, FiniteSetTheorems, TLAPS

Inv == TypeOK /\ CountsHolders

\* The holders of a slot are a finite set, no larger than all holders, so the
\* counter cannot wrap.
LEMMA HoldersFinite ==
    ASSUME NEW s
    PROVE  /\ IsFiniteSet(Holders(s))
           /\ Cardinality(Holders(s)) \in Nat
           /\ Cardinality(Holders(s)) < RefRange
<1>1. Holders(s) \subseteq Holder
  BY DEF Holders
<1>2. /\ IsFiniteSet(Holders(s))
      /\ Cardinality(Holders(s)) \leq Cardinality(Holder)
  BY <1>1, HolderAssumption, FS_Subset
<1>3. Cardinality(Holders(s)) \in Nat /\ Cardinality(Holder) \in Nat
  BY <1>2, HolderAssumption, FS_CardinalityType
<1> QED
  BY <1>2, <1>3, RangeAssumption

\* A count of 0 means that nobody holds the slot.
LEMMA ZeroMeansFree ==
    ASSUME CountsHolders, NEW s \in Slot
    PROVE  reference_count[s] = 0 <=> Holders(s) = {}
<1>1. reference_count[s] = Cardinality(Holders(s))
  BY DEF CountsHolders
<1> QED
  BY <1>1, HoldersFinite, FS_EmptySet

\* One more holder of slot s, none of another slot.
LEMMA OneMoreHolder ==
    ASSUME TypeOK, CountsHolders,
           NEW h \in Holder, NEW s \in Slot,
           hold[h] = NoSlot,
           hold' = [hold EXCEPT ![h] = s],
           reference_count' = [reference_count EXCEPT ![s] = (@ + 1) % RefRange]
    PROVE  /\ CountsHolders'
           /\ reference_count' \in [Slot -> 0 .. RefRange - 1]
<1>1. Holders(s)' = Holders(s) \cup {h} /\ h \notin Holders(s)
  BY SlotAssumption DEF Holders, TypeOK, Slot, NoSlot
<1>2. \A t \in Slot \ {s} : Holders(t)' = Holders(t)
  BY SlotAssumption DEF Holders, TypeOK, Slot, NoSlot
<1>3. Cardinality(Holders(s)') = Cardinality(Holders(s)) + 1
  BY Zenon, <1>1, HoldersFinite, FS_AddElement
<1>4. Cardinality(Holders(s)') < RefRange
  <2>1. Holders(s)' \subseteq Holder
    BY DEF Holders
  <2>2. Cardinality(Holders(s)') \leq Cardinality(Holder)
    BY <2>1, HolderAssumption, FS_Subset
  <2>3. Cardinality(Holder) \in Nat
    BY HolderAssumption, FS_CardinalityType
  <2> QED
    BY <1>3, <2>2, <2>3, HoldersFinite, RangeAssumption
<1>5. reference_count[s] = Cardinality(Holders(s))
  BY DEF CountsHolders
<1>6. reference_count'[s] = Cardinality(Holders(s)')
  BY <1>3, <1>4, <1>5, HoldersFinite, RangeAssumption DEF TypeOK
<1> QED
  BY <1>2, <1>4, <1>6, RangeAssumption DEF CountsHolders, TypeOK

\* Every step that gives a reference back removes one holder of its slot and
\* lowers that slot's count by one.
LEMMA GiveBackKeepsCounts ==
    ASSUME TypeOK, CountsHolders,
           NEW h \in Holder, NEW s \in Slot, hold[h] = s, GiveBack(h)
    PROVE  /\ CountsHolders'
           /\ reference_count' \in [Slot -> 0 .. RefRange - 1]
           /\ hold' \in [Holder -> Slot \cup {NoSlot}]
           /\ Holders(s)' = Holders(s) \ {h}
           /\ h \in Holders(s)
           /\ \A t \in Slot : t # s => Holders(t)' = Holders(t)
<1>1. hold' = [hold EXCEPT ![h] = NoSlot]
  BY DEF GiveBack, TypeOK
<1>2. Holders(s)' = Holders(s) \ {h} /\ h \in Holders(s)
  BY <1>1, SlotAssumption DEF Holders, TypeOK, Slot, NoSlot
<1>3. \A t \in Slot : t # s => Holders(t)' = Holders(t)
  BY <1>1, SlotAssumption DEF Holders, TypeOK, Slot, NoSlot
<1>4. Cardinality(Holders(s)') = Cardinality(Holders(s)) - 1
  BY ZenonT(40), <1>2, HoldersFinite, FS_RemoveElement
<1>5. reference_count[s] = Cardinality(Holders(s)) /\ reference_count[s] # 0
  BY <1>1, <1>2, ZeroMeansFree DEF CountsHolders
<1>6. reference_count' = [reference_count EXCEPT ![s] = (@ - 1) % RefRange]
  BY <1>5 DEF GiveBack, Decrement
<1>7. /\ reference_count'[s] = Cardinality(Holders(s)')
      /\ reference_count'[s] \in 0 .. RefRange - 1
  BY <1>1, <1>4, <1>5, <1>6, RangeAssumption DEF TypeOK
<1>8. CountsHolders'
  BY <1>1, <1>3, <1>6, <1>7 DEF CountsHolders, TypeOK
<1> QED
  BY <1>1, <1>2, <1>3, <1>6, <1>7, <1>8 DEF TypeOK

\* Moving a reference exchanges one holder for another.
LEMMA TransferKeepsCounts ==
    ASSUME TypeOK, CountsHolders,
           NEW a \in Holder, NEW b \in Holder,
           NEW s \in Slot, hold[a] = s, Transfer(a, b)
    PROVE  /\ CountsHolders'
           /\ hold' \in [Holder -> Slot \cup {NoSlot}]
           /\ Holders(s)' = (Holders(s) \ {a}) \cup {b}
           /\ a \in Holders(s)
           /\ \A t \in Slot : t # s => Holders(t)' = Holders(t)
<1>1. /\ a # b
      /\ hold[b] = NoSlot
      /\ hold' = [hold EXCEPT ![b] = s, ![a] = NoSlot]
      /\ reference_count' = reference_count
  BY SlotAssumption DEF Transfer, TypeOK, Slot, NoSlot
<1>2. /\ Holders(s)' = (Holders(s) \ {a}) \cup {b}
      /\ a \in Holders(s)
      /\ b \notin Holders(s)
  BY <1>1, SlotAssumption DEF Holders, TypeOK, Slot, NoSlot
<1>3. \A t \in Slot : t # s => Holders(t)' = Holders(t)
  BY <1>1, SlotAssumption DEF Holders, TypeOK, Slot, NoSlot
<1>4. IsFiniteSet(Holders(s) \ {a}) /\ Cardinality(Holders(s) \ {a}) = Cardinality(Holders(s)) - 1
  BY Zenon, <1>2, HoldersFinite, FS_RemoveElement
<1>5. Cardinality(Holders(s)') = Cardinality(Holders(s) \ {a}) + 1
  BY ZenonT(40), <1>2, <1>4, FS_AddElement
<1>6. Cardinality(Holders(s)') = Cardinality(Holders(s))
  BY <1>4, <1>5, HoldersFinite
<1>7. CountsHolders'
  BY <1>1, <1>3, <1>6 DEF CountsHolders
<1>8. hold' \in [Holder -> Slot \cup {NoSlot}]
  BY <1>1 DEF TypeOK
<1> QED
  BY <1>2, <1>3, <1>7, <1>8

\* Fresh allocation is a first holder: count 0 becomes count 1.
LEMMA AllocateIsIncrement ==
    ASSUME TypeOK, NEW g \in Guard, NEW s \in Slot, reference_count[s] = 0
    PROVE  [reference_count EXCEPT ![s] = 1]
             = [reference_count EXCEPT ![s] = (@ + 1) % RefRange]
<1>1. Holder # {} /\ IsFiniteSet(Holder)
  BY HolderAssumption DEF Holder
<1>2. Cardinality(Holder) \in Nat /\ Cardinality(Holder) # 0
  BY <1>1, FS_CardinalityType, FS_EmptySet
<1>3. RefRange > 1 /\ (0 + 1) % RefRange = 1
  BY <1>2, RangeAssumption
<1> QED
  BY Zenon, <1>3

-----------------------------------------------------------------------------
\* The initial state satisfies the invariant: every count is 0, nobody holds.
LEMMA InvInit == Init => Inv
<1> SUFFICES ASSUME Init PROVE Inv
  OBVIOUS
<1>1. TypeOK
  <2>1. RefRange \in Nat /\ RefRange > 0
    BY RangeAssumption, HolderAssumption, FS_CardinalityType
  <2> QED
    BY <2>1 DEF Init, TypeOK
<1>2. \A s \in Slot : Holders(s) = {}
  BY SlotAssumption DEF Init, Holders, Slot, NoSlot
<1>3. CountsHolders
  BY <1>2, FS_EmptySet DEF Init, CountsHolders
<1> QED
  BY <1>1, <1>3 DEF Inv

\* Every step of the manager or of a guard preserves the invariant.
LEMMA InvNext == Inv /\ [Next]_vars => Inv'
<1> SUFFICES ASSUME TypeOK, CountsHolders, [Next]_vars PROVE Inv'
  BY DEF Inv
<1>1. ASSUME NEW g \in Guard, AllocateSlot(g) PROVE Inv'
  <2>1. PICK s \in Slot : /\ reference_count[s] = 0
                          /\ reference_count' = [reference_count EXCEPT ![s] = 1]
                          /\ hold' = [hold EXCEPT ![g] = s]
                          /\ writer' = [writer EXCEPT ![s] = g]
    BY Zenon, <1>1 DEF AllocateSlot
  <2>2. g \in Holder /\ hold[g] = NoSlot /\ assigning[g] = NoGuard /\ assigning' = assigning
    BY <1>1 DEF AllocateSlot, Holder, Busy
  <2>3. CountsHolders' /\ reference_count' \in [Slot -> 0 .. RefRange - 1]
    BY Zenon, <2>1, <2>2, AllocateIsIncrement, OneMoreHolder
  <2>4. TypeOK'
    BY <2>1, <2>2, <2>3 DEF TypeOK, Holder
  <2> QED
    BY <2>3, <2>4 DEF Inv
<1>2. ASSUME NEW g \in Guard, Reset(g) PROVE Inv'
  <2>1. g \in Holder /\ GiveBack(g) /\ hold[g] \in Slot /\ assigning' = assigning
    BY <1>2 DEF Reset, GiveBack, TypeOK, Holder
  <2>2. /\ CountsHolders'
        /\ reference_count' \in [Slot -> 0 .. RefRange - 1]
        /\ hold' \in [Holder -> Slot \cup {NoSlot}]
    BY <2>1, GiveBackKeepsCounts
  <2>3. TypeOK'
    BY <2>1, <2>2 DEF TypeOK, GiveBack, Holder
  <2> QED
    BY <2>2, <2>3 DEF Inv
<1>3. ASSUME NEW g \in Guard, MoveAssignTake(g) PROVE Inv'
  <2>1. /\ assigning[g] \in Guard
        /\ assigning' = [assigning EXCEPT ![g] = NoGuard]
    BY <1>3 DEF MoveAssignTake, TypeOK
  <2>2. CASE hold[assigning[g]] = NoSlot
    BY <1>3, <2>1, <2>2 DEF MoveAssignTake, Inv, TypeOK, CountsHolders, Holders
  <2>3. CASE hold[assigning[g]] # NoSlot
    <3>1. /\ Transfer(assigning[g], g)
          /\ g \in Holder /\ assigning[g] \in Holder
          /\ hold[assigning[g]] \in Slot
      BY <1>3, <2>1, <2>3 DEF MoveAssignTake, TypeOK, Holder
    <3>2. CountsHolders' /\ hold' \in [Holder -> Slot \cup {NoSlot}]
      BY <3>1, TransferKeepsCounts
    <3>3. TypeOK'
      BY <2>1, <3>1, <3>2 DEF TypeOK, Transfer, Holder
    <3> QED
      BY <3>2, <3>3 DEF Inv
  <2> QED
    BY <2>2, <2>3
<1>4. ASSUME NEW g \in Guard, NEW new \in Guard, Share(g, new) PROVE Inv'
  <2>1. /\ new \in Holder /\ hold[new] = NoSlot /\ hold[g] \in Slot
        /\ assigning[new] = NoGuard /\ assigning' = assigning /\ writer' = writer
        /\ hold' = [hold EXCEPT ![new] = hold[g]]
        /\ reference_count' = [reference_count EXCEPT ![hold[g]] = (@ + 1) % RefRange]
    BY <1>4 DEF Share, Increment, Busy, TypeOK, Holder
  <2>2. CountsHolders' /\ reference_count' \in [Slot -> 0 .. RefRange - 1]
    BY Zenon, <2>1, OneMoreHolder
  <2>3. TypeOK'
    BY <2>1, <2>2 DEF TypeOK, Holder
  <2> QED
    BY <2>2, <2>3 DEF Inv
<1>5. ASSUME NEW g \in Guard, NEW new \in Guard, MoveConstruct(g, new) PROVE Inv'
  <2>1. /\ g \in Holder /\ new \in Holder /\ hold[g] \in Slot /\ Transfer(g, new)
        /\ assigning[g] = NoGuard /\ assigning[new] = NoGuard /\ assigning' = assigning
    BY <1>5 DEF MoveConstruct, Transfer, Busy, TypeOK, Holder
  <2>2. CountsHolders' /\ hold' \in [Holder -> Slot \cup {NoSlot}]
    BY <2>1, TransferKeepsCounts
  <2>3. TypeOK'
    BY <2>1, <2>2 DEF TypeOK, Transfer, Holder
  <2> QED
    BY <2>2, <2>3 DEF Inv
<1>6. ASSUME NEW g \in Guard, NEW o \in Guard, MoveAssignReset(g, o) PROVE Inv'
  <2>1. /\ g \in Holder /\ GiveBack(g) /\ hold[g] \in Slot
        /\ assigning' = [assigning EXCEPT ![g] = o]
    BY <1>6 DEF MoveAssignReset, GiveBack, TypeOK, Holder
  <2>2. /\ CountsHolders'
        /\ reference_count' \in [Slot -> 0 .. RefRange - 1]
        /\ hold' \in [Holder -> Slot \cup {NoSlot}]
    BY <2>1, GiveBackKeepsCounts
  <2>3. TypeOK'
    BY <2>1, <2>2 DEF TypeOK, GiveBack, Holder
  <2> QED
    BY <2>2, <2>3 DEF Inv
<1>7. ASSUME NEW g \in Guard, NEW b \in Handle, ReleaseToHandle(g, b) PROVE Inv'
  <2>1. /\ g \in Holder /\ b \in Holder /\ b \notin Guard /\ hold[g] \in Slot
        /\ Transfer(g, b) /\ assigning' = assigning
    BY <1>7, HolderAssumption DEF ReleaseToHandle, Transfer, TypeOK, Holder
  <2>2. CountsHolders' /\ hold' \in [Holder -> Slot \cup {NoSlot}]
    BY <2>1, TransferKeepsCounts
  <2>3. TypeOK'
    BY <2>1, <2>2 DEF TypeOK, Transfer, Holder
  <2> QED
    BY <2>2, <2>3 DEF Inv
<1>8. ASSUME NEW b \in Handle, ReleaseSlot(b) PROVE Inv'
  <2>1. b \in Holder /\ GiveBack(b) /\ hold[b] \in Slot /\ assigning' = assigning
    BY <1>8 DEF ReleaseSlot, GiveBack, TypeOK, Holder
  <2>2. /\ CountsHolders'
        /\ reference_count' \in [Slot -> 0 .. RefRange - 1]
        /\ hold' \in [Holder -> Slot \cup {NoSlot}]
    BY <2>1, GiveBackKeepsCounts
  <2>3. TypeOK'
    BY <2>1, <2>2 DEF TypeOK, GiveBack, Holder
  <2> QED
    BY <2>2, <2>3 DEF Inv
<1>9. ASSUME NEW b \in Handle, NEW s \in Slot, AddConsumer(s, b) PROVE Inv'
  <2>1. /\ b \in Holder /\ b \notin Guard /\ hold[b] = NoSlot
        /\ assigning' = assigning /\ writer' = writer
        /\ hold' = [hold EXCEPT ![b] = s]
        /\ reference_count' = [reference_count EXCEPT ![s] = (@ + 1) % RefRange]
    BY <1>9, HolderAssumption DEF AddConsumer, Increment, Holder
  <2>2. CountsHolders' /\ reference_count' \in [Slot -> 0 .. RefRange - 1]
    BY Zenon, <2>1, OneMoreHolder
  <2>3. TypeOK'
    BY <2>1, <2>2 DEF TypeOK, Holder
  <2> QED
    BY <2>2, <2>3 DEF Inv
<1>10. CASE UNCHANGED vars
  BY <1>10 DEF Inv, vars, TypeOK, CountsHolders, Holders
<1> QED
  BY <1>1, <1>2, <1>3, <1>4, <1>5, <1>6, <1>7, <1>8, <1>9, <1>10 DEF Next

\* TypeOK holds in every state the manager can reach.
THEOREM SlotManagerTyped == Spec => []TypeOK
<1>1. Inv => TypeOK
  BY DEF Inv
<1> QED
  BY <1>1, InvInit, InvNext, PTL DEF Spec

\* The reference counts are exact in every reachable state: a slot's count is
\* the number of guards and bare handles that refer to it.
THEOREM CountsAreExact == Spec => []CountsHolders
<1>1. Inv => CountsHolders
  BY DEF Inv
<1> QED
  BY <1>1, InvInit, InvNext, PTL DEF Spec

-----------------------------------------------------------------------------
(* The refinement: a step of the manager is a step of the pool, seen        *)
(* through the sets of holders, or leaves those sets alone.                 *)

\* A reference that a holder without one obtains on slot s: the slot is handed
\* out if nobody has it, and joined otherwise.
LEMMA ObtainIsPoolStep ==
    ASSUME TypeOK, CountsHolders, NEW h \in Holder, NEW s \in Slot,
           hold[h] = NoSlot, hold' = [hold EXCEPT ![h] = s],
           IF Holders(s) = {} THEN writer' = [writer EXCEPT ![s] = h] ELSE writer' = writer
    PROVE  Pool!PoolNext
<1> DEFINE H == [t \in Slot |-> Holders(t)]
<1>1. Holders(s)' = Holders(s) \cup {h}
  BY SlotAssumption DEF Holders, TypeOK, Slot, NoSlot
<1>2. \A t \in Slot \ {s} : Holders(t)' = Holders(t)
  BY SlotAssumption DEF Holders, TypeOK, Slot, NoSlot
<1>3. H' = [H EXCEPT ![s] = @ \cup {h}]
  BY Zenon, <1>1, <1>2
<1>4. \A t \in Slot : h \notin H[t]
  BY SlotAssumption DEF Holders, Slot, NoSlot
<1>5. CASE H[s] = {}
  <2>1. Pool!Grant(s, h)
    BY Zenon, <1>3, <1>4, <1>5 DEF Pool!Grant, Pool!Idle
  <2> QED
    BY <2>1 DEF Pool!PoolNext
<1>6. CASE H[s] # {}
  <2>1. Pool!Join(s, h)
    BY <1>3, <1>4, <1>6 DEF Pool!Join, Pool!Idle
  <2> QED
    BY <2>1 DEF Pool!PoolNext
<1> QED
  BY <1>5, <1>6

\* A reference that is given back.
LEMMA GiveBackIsPoolStep ==
    ASSUME TypeOK, CountsHolders, NEW h \in Holder, GiveBack(h)
    PROVE  Pool!PoolNext
<1> DEFINE H == [t \in Slot |-> Holders(t)]
<1>1. PICK s \in Slot : hold[h] = s
  BY DEF GiveBack, TypeOK
<1>2. /\ Holders(s)' = Holders(s) \ {h}
      /\ h \in Holders(s)
      /\ \A t \in Slot : t # s => Holders(t)' = Holders(t)
  BY <1>1, GiveBackKeepsCounts
<1>3. H' = [H EXCEPT ![s] = @ \ {h}] /\ h \in H[s]
  BY Zenon, <1>2
<1>4. Pool!Leave(s, h)
  BY <1>3 DEF Pool!Leave, GiveBack
<1> QED
  BY <1>4 DEF Pool!PoolNext

\* A reference that changes hands.
LEMMA TransferIsPoolStep ==
    ASSUME TypeOK, CountsHolders, NEW a \in Holder, NEW b \in Holder, Transfer(a, b)
    PROVE  Pool!PoolNext
<1> DEFINE H == [t \in Slot |-> Holders(t)]
<1>1. PICK s \in Slot : hold[a] = s
  BY DEF Transfer, TypeOK
<1>2. /\ Holders(s)' = (Holders(s) \ {a}) \cup {b}
      /\ a \in Holders(s)
      /\ \A t \in Slot : t # s => Holders(t)' = Holders(t)
  BY <1>1, TransferKeepsCounts
<1>3. H' = [H EXCEPT ![s] = (@ \ {a}) \cup {b}] /\ a \in H[s]
  BY Zenon, <1>2
<1>4. \A t \in Slot : b \notin H[t]
  BY SlotAssumption DEF Transfer, Holders, Slot, NoSlot
<1>5. Pool!Pass(s, a, b)
  BY <1>3, <1>4 DEF Pool!Pass, Pool!Idle, Transfer
<1> QED
  BY <1>5 DEF Pool!PoolNext

\* Every step of the manager maps to a step or a stutter of the pool.
LEMMA StepIsPoolStep ==
    TypeOK /\ CountsHolders /\ [Next]_vars
        => [Pool!PoolNext]_<<[s \in Slot |-> Holders(s)], writer>>
<1> DEFINE H == [t \in Slot |-> Holders(t)]
<1> SUFFICES ASSUME TypeOK, CountsHolders, [Next]_vars
             PROVE  Pool!PoolNext \/ UNCHANGED <<H, writer>>
  OBVIOUS
<1>1. ASSUME NEW g \in Guard, AllocateSlot(g) PROVE Pool!PoolNext
  <2>1. g \in Holder /\ hold[g] = NoSlot
    BY <1>1 DEF AllocateSlot, Holder
  <2>2. PICK s \in Slot : /\ reference_count[s] = 0
                          /\ hold' = [hold EXCEPT ![g] = s]
                          /\ writer' = [writer EXCEPT ![s] = g]
    BY Zenon, <1>1 DEF AllocateSlot
  <2>3. Holders(s) = {}
    BY <2>2, ZeroMeansFree
  <2> QED
    BY Zenon, <2>1, <2>2, <2>3, ObtainIsPoolStep
<1>2. ASSUME NEW h \in Holder, GiveBack(h) PROVE Pool!PoolNext
  BY <1>2, GiveBackIsPoolStep
<1>3. ASSUME NEW a \in Holder, NEW b \in Holder, Transfer(a, b) PROVE Pool!PoolNext
  BY <1>3, TransferIsPoolStep
<1>4. ASSUME NEW g \in Guard, MoveAssignTake(g) PROVE Pool!PoolNext \/ UNCHANGED <<H, writer>>
  <2>1. assigning[g] \in Holder /\ g \in Holder
    BY <1>4 DEF MoveAssignTake, TypeOK, Holder
  <2>2. Transfer(assigning[g], g) \/ (hold' = hold /\ writer' = writer)
    BY <1>4 DEF MoveAssignTake
  <2>3. hold' = hold => UNCHANGED H
    BY DEF Holders
  <2> QED
    BY <1>3, <2>1, <2>2, <2>3
<1>5. ASSUME NEW g \in Guard, NEW new \in Guard, Share(g, new) PROVE Pool!PoolNext
  <2>1. /\ new \in Holder /\ hold[new] = NoSlot /\ hold[g] \in Slot
        /\ hold' = [hold EXCEPT ![new] = hold[g]] /\ writer' = writer
        /\ reference_count[hold[g]] # 0
    BY <1>5 DEF Share, TypeOK, Holder
  <2>2. Holders(hold[g]) # {}
    BY <2>1, ZeroMeansFree
  <2> QED
    BY Zenon, <2>1, <2>2, ObtainIsPoolStep
<1>6. ASSUME NEW b \in Handle, NEW s \in Slot, AddConsumer(s, b) PROVE Pool!PoolNext
  <2>1. /\ b \in Holder /\ hold[b] = NoSlot /\ hold' = [hold EXCEPT ![b] = s]
        /\ writer' = writer /\ reference_count[s] # 0
    BY <1>6 DEF AddConsumer, Holder
  <2>2. Holders(s) # {}
    BY <2>1, ZeroMeansFree
  <2> QED
    BY Zenon, <2>1, <2>2, ObtainIsPoolStep
<1>7. CASE UNCHANGED vars
  BY <1>7 DEF vars, Holders
<1>8. Guard \subseteq Holder /\ Handle \subseteq Holder
  BY DEF Holder
<1>9. CASE Next
  BY <1>1, <1>2, <1>3, <1>4, <1>5, <1>6, <1>8, <1>9
     DEF Next, Reset, ReleaseSlot, MoveAssignReset, MoveConstruct, ReleaseToHandle
<1> QED
  BY <1>7, <1>9

\* The slot manager implements the pool it promises: allocate_slot() hands out
\* only slots without a holder, and a slot becomes free exactly when its last
\* guard or bare handle gave it back.
THEOREM ManagerImplementsPool == Spec => ImplementsPool
<1>1. Init => Pool!PoolInit
  BY SlotAssumption DEF Init, Pool!PoolInit, Holders, Slot, NoSlot
<1>2. Inv /\ [Next]_vars => [Pool!PoolNext]_<<[s \in Slot |-> Holders(s)], writer>>
  BY StepIsPoolStep DEF Inv
<1> QED
  BY <1>1, <1>2, InvInit, InvNext, PTL DEF Spec, ImplementsPool, Pool!PoolSpec, Pool!poolVars
=============================================================================
