---------------------------- MODULE SlotManager ----------------------------
(***************************************************************************)
(* Shared_memory_slot_manager and Shared_memory_slot_guard                 *)
(* (gateway_ipc_binding/impl/shared_memory_slot_manager.cpp): a fixed      *)
(* array of slots with one atomic uint32 reference count each.             *)
(*                                                                         *)
(* A reference is held either by a guard object, which gives it back in    *)
(* its destructor, or by a bare handle whose holder owes a release_slot()  *)
(* call (guard.release(), or an explicit add_consumer()).  Each manager    *)
(* operation runs under the manager's mutex and is one step; a guard is    *)
(* used by one thread at a time, different guards by different threads.    *)
(***************************************************************************)
EXTENDS Naturals, FiniteSets

CONSTANTS SlotCount,   \* m_slot_count
          Guard,       \* the guard objects
          Handle,      \* bare references, outside any guard
          RefRange     \* 2^32 in the code: the counts are uint32

NoSlot == SlotCount
NoGuard == "no guard"
Slot == 0 .. SlotCount - 1
Holder == Guard \cup Handle

ASSUME SlotAssumption == SlotCount \in Nat \ {0}
ASSUME HolderAssumption ==
    /\ IsFiniteSet(Holder)
    /\ Guard \cap Handle = {}
    /\ NoGuard \notin Guard
\* Fewer references are ever outstanding than a uint32 counts.
ASSUME RangeAssumption == RefRange \in Nat /\ Cardinality(Holder) < RefRange

VARIABLES
    reference_count,   \* m_slots[s].reference_count
    hold,              \* the slot a guard or a bare handle refers to, or NoSlot
    assigning,         \* assigning[g] = o: g is in operator=(o&&), past its reset()
    writer             \* history: the guard allocate_slot() last made for a slot

vars == <<reference_count, hold, assigning, writer>>

\* The references to slot s that somebody holds.
Holders(s) == {h \in Holder : hold[h] = s}

\* Guards a move assignment is in the middle of.
Busy(g) == assigning[g] # NoGuard \/ \E h \in Guard : assigning[h] = g

Init ==
    /\ reference_count = [s \in Slot |-> 0]
    /\ hold = [h \in Holder |-> NoSlot]
    /\ assigning = [g \in Guard |-> NoGuard]
    /\ writer = [s \in Slot |-> NoGuard]

-----------------------------------------------------------------------------
\* The counter updates.
Increment(s) == reference_count' = [reference_count EXCEPT ![s] = (@ + 1) % RefRange]
Decrement(s) == reference_count' = [reference_count EXCEPT ![s] = (@ - 1) % RefRange]

\* Mutant: the scan takes a slot that one consumer still has.
AllocateShared(g) ==
    /\ hold[g] = NoSlot
    /\ ~Busy(g)
    /\ \E s \in Slot :
        /\ reference_count[s] < 2
        /\ reference_count' = [reference_count EXCEPT ![s] = 1]
        /\ hold' = [hold EXCEPT ![g] = s]
        /\ writer' = [writer EXCEPT ![s] = g]
    /\ UNCHANGED assigning

\* allocate_slot(): the first slot whose count is 0 gets count 1 and a guard.
\* With every count above 0 the call fails and changes nothing.
AllocateSlot(g) ==
    /\ hold[g] = NoSlot
    /\ ~Busy(g)
    /\ \E s \in Slot :
        /\ reference_count[s] = 0
        /\ \A t \in Slot : t < s => reference_count[t] # 0
        /\ reference_count' = [reference_count EXCEPT ![s] = 1]
        /\ hold' = [hold EXCEPT ![g] = s]
        /\ writer' = [writer EXCEPT ![s] = g]
    /\ UNCHANGED assigning

\* Mutant: the copy is made without add_consumer().
ShareUncounted(g, new) ==
    /\ hold[g] # NoSlot
    /\ hold[new] = NoSlot
    /\ ~Busy(g)
    /\ ~Busy(new)
    /\ hold' = [hold EXCEPT ![new] = hold[g]]
    /\ UNCHANGED <<reference_count, assigning, writer>>

\* guard.share(): add_consumer() on the guard's slot, and a second guard.
Share(g, new) ==
    /\ hold[g] # NoSlot
    /\ hold[new] = NoSlot
    /\ ~Busy(g)
    /\ ~Busy(new)
    /\ reference_count[hold[g]] # 0
    /\ Increment(hold[g])
    /\ hold' = [hold EXCEPT ![new] = hold[g]]
    /\ UNCHANGED <<assigning, writer>>

\* release_slot(hold[h]); the holder forgets the slot whatever the result.
GiveBack(h) ==
    /\ hold[h] # NoSlot
    /\ IF reference_count[hold[h]] = 0
       THEN UNCHANGED reference_count
       ELSE Decrement(hold[h])
    /\ hold' = [hold EXCEPT ![h] = NoSlot]
    /\ UNCHANGED writer

\* guard.reset() and the guard's destructor.
Reset(g) == ~Busy(g) /\ GiveBack(g) /\ UNCHANGED assigning

\* release_slot() through a bare handle.
ReleaseSlot(b) == GiveBack(b) /\ UNCHANGED assigning

\* add_consumer() through the public interface; the caller owes a release.
AddConsumer(s, b) ==
    /\ hold[b] = NoSlot
    /\ reference_count[s] # 0
    /\ Increment(s)
    /\ hold' = [hold EXCEPT ![b] = s]
    /\ UNCHANGED <<assigning, writer>>

\* The reference moves from one holder to another: no count changes.
Transfer(from, to) ==
    /\ hold[from] # NoSlot
    /\ hold[to] = NoSlot
    /\ hold' = [hold EXCEPT ![to] = hold[from], ![from] = NoSlot]
    /\ UNCHANGED <<reference_count, writer>>

\* guard.release(): the caller takes over the reference.
ReleaseToHandle(g, b) == ~Busy(g) /\ Transfer(g, b) /\ UNCHANGED assigning

\* Move construction of guard new from guard g.
MoveConstruct(g, new) ==
    /\ ~Busy(g)
    /\ ~Busy(new)
    /\ Transfer(g, new)
    /\ UNCHANGED assigning

\* Mutant: the assigned guard keeps its own slot.
MoveAssignKeep(g, other) ==
    /\ g # other
    /\ ~Busy(g)
    /\ ~Busy(other)
    /\ assigning' = [assigning EXCEPT ![g] = other]
    /\ UNCHANGED <<reference_count, hold, writer>>

\* g = std::move(other), first half: g gives its own slot back.  Assigning to
\* a guard without slot has nothing to reset and is MoveConstruct.
MoveAssignReset(g, other) ==
    /\ g # other
    /\ ~Busy(g)
    /\ ~Busy(other)
    /\ GiveBack(g)
    /\ assigning' = [assigning EXCEPT ![g] = other]

\* Second half: g takes over what other refers to, if anything.
MoveAssignTake(g) ==
    /\ assigning[g] # NoGuard
    /\ assigning' = [assigning EXCEPT ![g] = NoGuard]
    /\ IF hold[assigning[g]] = NoSlot
       THEN UNCHANGED <<reference_count, hold, writer>>
       ELSE Transfer(assigning[g], g)

Next ==
    \/ \E g \in Guard : AllocateSlot(g) \/ Reset(g) \/ MoveAssignTake(g)
    \/ \E g, o \in Guard : Share(g, o) \/ MoveConstruct(g, o) \/ MoveAssignReset(g, o)
    \/ \E g \in Guard, b \in Handle : ReleaseToHandle(g, b)
    \/ \E b \in Handle : ReleaseSlot(b) \/ \E s \in Slot : AddConsumer(s, b)

Spec == Init /\ [][Next]_vars

-----------------------------------------------------------------------------
\* The state is well typed: counts are below the counter's range and a guard
\* that is in the middle of a move assignment holds nothing.
TypeOK ==
    /\ reference_count \in [Slot -> 0 .. RefRange - 1]
    /\ hold \in [Holder -> Slot \cup {NoSlot}]
    /\ assigning \in [Guard -> Guard \cup {NoGuard}]
    /\ \A g \in Guard : assigning[g] # NoGuard => hold[g] = NoSlot
    /\ writer \in [Slot -> Guard \cup {NoGuard}]

\* The reference count of a slot is the number of guards and bare handles that
\* refer to it, whatever the order in which allocate_slot(), share(), reset(),
\* release(), the moves and the release_slot() calls of several threads
\* interleave: no reference is lost (a slot that can never be reused) and none
\* is counted twice (a slot reused under a consumer).
CountsHolders ==
    \A s \in Slot : reference_count[s] = Cardinality(Holders(s))

\* The slot manager keeps the promise of SlotPool, reading the holders of a
\* slot off the guards and the bare handles: allocate_slot() never hands out a
\* slot that somebody still holds.
Pool == INSTANCE SlotPool WITH holders <- [s \in Slot |-> Holders(s)], Nobody <- NoGuard
ImplementsPool == Pool!PoolSpec
=============================================================================
