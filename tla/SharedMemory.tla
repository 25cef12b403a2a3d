---------------------------- MODULE SharedMemory ----------------------------
(***************************************************************************)
(* The shared-memory pool of one service: the process that publishes over   *)
(* the binding creates the pool under a path and allocates its slots, the   *)
(* readers open it by the path they are told and build payloads from slots  *)
(* (impl/shared_memory_slot_manager.cpp, impl/shared_memory_managers.hpp). *)
(*                                                                         *)
(* GatewayBinding has the protocol; here a link is a mapping made by        *)
(* Connect_service, which each side forgets on its own, and what matters is *)
(* which memory a path leads to, who has it mapped, and what is in a slot   *)
(* while somebody reads it.  Shared-memory objects live on while they are   *)
(* mapped; their number in pools tells them apart.  A message accepted for  *)
(* a reader is delivered until the reader forgets the link, also when the   *)
(* writer has ended or another one runs in its place.                      *)
(***************************************************************************)
EXTENDS Naturals, Sequences, FiniteSets

CONSTANTS Reader,
          Config,         \* slot configurations [slot_count, slot_size]
          MaxPools,       \* bound on the pools created
          MaxEvents,      \* bound on the events written
          MaxLinks        \* bound on the links made

NoConfig == [slot_count |-> 0, slot_size |-> 0]

ASSUME ReaderAssumption == IsFiniteSet(Reader)
ASSUME BoundAssumption == {MaxPools, MaxEvents, MaxLinks} \subseteq Nat
ASSUME ConfigAssumption == \A k \in Config : k.slot_count \in Nat /\ k.slot_size \in Nat \ {0}

VARIABLES
    fs,        \* the pool the path leads to, 0 if there is no such entry
    pools,     \* the pools created: their sizes and the event in each slot
    config,    \* the writer's m_configuration for the service; NoConfig if
               \* nothing was registered or the process is down
    manager,   \* the pool of its slot manager, 0 before the first use
    count,     \* reference_count per slot
    draft,     \* slots allocated and written but not published yet
    alloc,     \* pending_consumers per slot; a slot with any has its payload
    links,     \* the links made so far: their reader and the pool announced
    served,    \* the links in the writer's m_id_mapping
    link,      \* per reader, the link in its m_id_mapping, 0 if none
    reader,    \* per reader: up, the pool it has mapped (view, 0 none), the
               \* sizes it opened it with, the payloads held
    updates, consumed   \* per link, messages on the way to and from the reader

vars == <<fs, pools, config, manager, count, draft, alloc,
          links, served, link, reader, updates, consumed>>
poolVars == <<fs, pools, manager, count>>

Down == [up |-> FALSE, view |-> 0, sizes |-> NoConfig, held |-> {}]
MaxSlots == CHOOSE n \in {k.slot_count : k \in Config} :
                \A k \in Config : k.slot_count <= n
Slot == 0 .. MaxSlots - 1
Link == 1 .. MaxLinks

Init ==
    /\ fs = 0 /\ pools = <<>> /\ config = NoConfig /\ manager = 0
    /\ count = [s \in Slot |-> 0]
    /\ draft = {} /\ alloc = [s \in Slot |-> 0]
    /\ links = <<>> /\ served = {} /\ link = [r \in Reader |-> 0]
    /\ reader = [r \in Reader |-> Down]
    /\ updates = [l \in Link |-> <<>>]
    /\ consumed = [l \in Link |-> <<>>]

-----------------------------------------------------------------------------
(* The writer.                                                              *)

\* register_configuration(): the last one counts, for a manager yet to be made.
RegisterConfiguration(k) ==
    /\ config # k
    /\ config' = k
    /\ UNCHANGED <<poolVars, draft, alloc, links, served, link, reader, updates, consumed>>

\* Mutant: an entry left behind under the path stays.
CreateSlotManagerKept ==
    /\ config.slot_count > 0 /\ config.slot_size > 0
    /\ Len(pools) < MaxPools
    /\ pools' = Append(pools, [config |-> config, memory |-> [s \in Slot |-> 0]])
    /\ fs' = IF fs = 0 THEN Len(pools') ELSE fs
    /\ manager' = Len(pools')
    /\ count' = [s \in Slot |-> 0]

\* create(), by way of the factory: an entry left behind under the path is
\* removed and a new pool made, with all slots free.
CreateSlotManager ==
    /\ config.slot_count > 0 /\ config.slot_size > 0
    /\ Len(pools) < MaxPools
    /\ pools' = Append(pools, [config |-> config, memory |-> [s \in Slot |-> 0]])
    /\ fs' = Len(pools')
    /\ manager' = fs'
    /\ count' = [s \in Slot |-> 0]

\* get_shared_memory_slot_manager(): made at the first use.
GetSlotManager == IF manager = 0 THEN CreateSlotManager ELSE UNCHANGED poolVars

\* The exchange of Connect_service and its reply: the reader is told path and
\* sizes of the pool, which exists from then on.  The writer may not have seen
\* yet that an earlier link of the reader is gone.
ConnectService(r) ==
    /\ link[r] = 0 /\ reader[r].up /\ config # NoConfig
    /\ Len(links) < MaxLinks
    /\ GetSlotManager
    /\ links' = Append(links, [reader |-> r, pool |-> manager'])
    /\ served' = served \cup {Len(links')}
    /\ link' = [link EXCEPT ![r] = Len(links')]
    /\ UNCHANGED <<config, draft, alloc, reader, updates, consumed>>

\* allocate_slot() takes the first slot with count 0.
FirstFree(s) ==
    /\ s < pools[manager].config.slot_count
    /\ count[s] = 0
    /\ \A t \in 0 .. s - 1 : count[t] # 0

\* Events written so far.
Written == Cardinality({n \in 1 .. MaxEvents :
                \E i \in 1 .. Len(pools), s \in Slot : n <= pools[i].memory[s]})

\* event_payload_allocate() and the application writing event n into the slot.
\* Without a free slot the application drops the event.
AllocateAndWrite ==
    /\ manager # 0
    /\ Written < MaxEvents
    /\ \E s \in Slot :
        /\ FirstFree(s)
        /\ count' = [count EXCEPT ![s] = 1]
        /\ pools' = [pools EXCEPT ![manager].memory[s] = Written + 1]
        /\ draft' = draft \cup {s}
    /\ UNCHANGED <<fs, config, manager, alloc, links, served, link, reader, updates, consumed>>

\* insert_allocation(): the payload is kept while consumers are pending;
\* without recipients it is destroyed and its guard releases the slot.
InsertAllocation(s, consumer_count) ==
    /\ alloc' = [alloc EXCEPT ![s] = @ + consumer_count]
    /\ count' = [count EXCEPT ![s] = IF consumer_count = 0 THEN @ - 1 ELSE @]

\* send_event_update(): Event_update on the links of the writer.  Those sent are
\* counted; what is sent to a reader that has left the link is lost.
Publish(s) ==
    /\ s \in draft
    /\ draft' = draft \ {s}
    /\ \E sent \in SUBSET served :
        LET msg == [slot |-> s, event |-> pools[manager].memory[s]]
            arriving == {l \in sent : link[links[l].reader] = l}
        IN /\ updates' = [l \in Link |-> IF l \in arriving THEN Append(updates[l], msg)
                                        ELSE updates[l]]
           /\ InsertAllocation(s, Cardinality(sent))
    /\ UNCHANGED <<fs, pools, config, manager, links, served, link, reader, consumed>>

\* Mutant: the first consumer that is done frees the slot.
PayloadConsumedFirst(s) ==
    IF alloc[s] = 0 THEN UNCHANGED <<alloc, count>>
    ELSE /\ alloc' = [alloc EXCEPT ![s] = 0]
         /\ count' = [count EXCEPT ![s] = @ - 1]

\* payload_consumed(): the last consumer's message destroys the payload.
PayloadConsumed(s) ==
    /\ alloc' = [alloc EXCEPT ![s] = IF @ = 0 THEN 0 ELSE @ - 1]
    /\ count' = [count EXCEPT ![s] = IF alloc[s] = 1 THEN @ - 1 ELSE @]

\* Payload_consumed arrives; a message of an earlier link finds no mapping.
ReceiveConsumed(l) ==
    /\ consumed[l] # <<>>
    /\ consumed' = [consumed EXCEPT ![l] = Tail(@)]
    /\ IF Head(consumed[l]).link = l THEN PayloadConsumed(Head(consumed[l]).slot)
       ELSE UNCHANGED <<alloc, count>>
    /\ UNCHANGED <<fs, pools, config, manager, draft, links, served, link, reader, updates>>

\* The writer is told that a client is gone: its mapping goes, and with it what
\* was on its way from there.  Pending consumers stay.
RemoveClient(l) ==
    /\ l \in served
    /\ served' = served \ {l}
    /\ consumed' = [consumed EXCEPT ![l] = <<>>]
    /\ UNCHANGED <<poolVars, config, draft, alloc, links, link, reader, updates>>

\* The process ends, with its payloads and its tables.  If it ends in order the
\* slot manager's destructor removes the entry under its path.
StopWriter(inOrder) ==
    /\ config # NoConfig
    /\ fs' = IF inOrder /\ manager # 0 THEN 0 ELSE fs
    /\ config' = NoConfig /\ manager' = 0
    /\ count' = [s \in Slot |-> 0] /\ alloc' = [s \in Slot |-> 0] /\ draft' = {}
    /\ served' = {} /\ consumed' = [l \in Link |-> <<>>]
    /\ UNCHANGED <<pools, links, link, reader, updates>>

-----------------------------------------------------------------------------
(* Readers.                                                                 *)

StartReader(r) ==
    /\ ~reader[r].up
    /\ reader' = [reader EXCEPT ![r].up = TRUE]
    /\ UNCHANGED <<poolVars, config, draft, alloc, links, served, link, updates, consumed>>

\* The reader forgets its link, and with it what was on its way to it.
Unlinked(r) ==
    /\ link' = [link EXCEPT ![r] = 0]
    /\ updates' = [l \in Link |-> IF l = link[r] THEN <<>> ELSE updates[l]]

\* The line is lost for the reader: views and payloads stay.
LoseLink(r) ==
    /\ link[r] # 0
    /\ Unlinked(r)
    /\ UNCHANGED <<poolVars, config, draft, alloc, links, served, reader, consumed>>

\* get_read_only_shared_memory_slot_manager(): opened by path once and kept for
\* good, with the sizes the link was told.
GetView(r) ==
    IF reader[r].view # 0 THEN reader[r]
    ELSE [reader[r] EXCEPT !.view = fs, !.sizes = pools[links[link[r]].pool].config]

\* handle_event_update_message(): get_payload() builds a payload from the slot
\* of the view.  If the path leads nowhere, or the slot is beyond the view's
\* number, an assertion ends the process.
ReceiveUpdate(r) ==
    /\ link[r] # 0 /\ updates[link[r]] # <<>>
    /\ LET msg == Head(updates[link[r]])
           payload == [slot |-> msg.slot, event |-> msg.event, link |-> link[r]]
           view == GetView(r)
       IN IF view.view # 0 /\ msg.slot < view.sizes.slot_count
          THEN /\ reader' = [reader EXCEPT ![r] = [view EXCEPT !.held = @ \cup {payload}]]
               /\ updates' = [updates EXCEPT ![link[r]] = Tail(@)]
               /\ UNCHANGED link
          ELSE /\ reader' = [reader EXCEPT ![r] = Down]
               /\ Unlinked(r)
    /\ UNCHANGED <<poolVars, config, draft, alloc, links, served, consumed>>

\* The application lets go of a payload: its destruction callback sends
\* Payload_consumed if there is a connection.
DropPayload(r) ==
    /\ \E p \in reader[r].held :
        /\ reader' = [reader EXCEPT ![r].held = @ \ {p}]
        /\ consumed' = IF link[r] \notin served THEN consumed
                       ELSE [consumed EXCEPT ![link[r]] =
                                 Append(@, [slot |-> p.slot, link |-> p.link])]
    /\ UNCHANGED <<poolVars, config, draft, alloc, links, served, link, updates>>

\* A reader ends. In order, the destructor of its view removes the entry under
\* the path, which is the writer's.
StopReader(r, inOrder) ==
    /\ reader[r].up
    /\ fs' = IF inOrder /\ reader[r].view # 0 THEN 0 ELSE fs
    /\ reader' = [reader EXCEPT ![r] = Down]
    /\ Unlinked(r)
    /\ UNCHANGED <<pools, manager, count, config, draft, alloc, links, served, consumed>>

-----------------------------------------------------------------------------
Next ==
    \/ \E k \in Config : RegisterConfiguration(k)
    \/ AllocateAndWrite
    \/ \E s \in Slot : Publish(s)
    \/ \E l \in Link : ReceiveConsumed(l) \/ RemoveClient(l)
    \/ \E o \in BOOLEAN : StopWriter(o)
    \/ \E r \in Reader :
        \/ ConnectService(r) \/ StartReader(r) \/ ReceiveUpdate(r)
        \/ DropPayload(r) \/ LoseLink(r) \/ \E o \in BOOLEAN : StopReader(r, o)

Spec == Init /\ [][Next]_vars

-----------------------------------------------------------------------------
\* No slot is written again while a payload made of it is held or its message
\* is on the way: the pool that was announced still has the event in the slot,
\* across lost links and restarts on either side, whatever a reader's late
\* Payload_consumed says.
PayloadIntact ==
    /\ \A r \in Reader : \A p \in reader[r].held :
          pools[links[p.link].pool].memory[p.slot] = p.event
    /\ \A l \in 1 .. Len(links) : \A i \in 1 .. Len(updates[l]) :
          pools[links[l].pool].memory[updates[l][i].slot] = updates[l][i].event

\* A reader that opens the path while a writer has a pool opens that pool,
\* never one an earlier writer left behind when it crashed.
OpensRunningPool ==
    [][\A r \in Reader :
          reader[r].view = 0 /\ reader'[r].view # 0 /\ manager # 0 =>
              reader'[r].view = manager]_vars

\* A linked reader reads what the running writer writes: its view is the
\* writer's pool with the sizes it was made with, and while it has none the path
\* leads there (assertion "Failed to create read-only shared memory slot
\* manager").
PoolFound ==
    \A r \in Reader : link[r] \in served =>
        IF reader[r].view = 0 THEN fs = manager
        ELSE reader[r].view = manager /\ reader[r].sizes = pools[manager].config
=============================================================================
