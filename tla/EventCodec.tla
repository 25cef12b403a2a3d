----------------------------- MODULE EventCodec -----------------------------
(***************************************************************************)
(* What the daemons derive from the configuration both of them load, and    *)
(* what they do to an event's bytes: the null serializer, the size of       *)
(* shared-memory slots, and the 16-byte SOME/IP header in front of the data *)
(* (gatewayd/main.cpp, serializer/null_serializer.cpp, and the event        *)
(* handlers of both daemons).                                              *)
(***************************************************************************)
EXTENDS Naturals, Sequences, FiniteSetsExt

CONSTANTS
    Local, Remote,   \* service types with local and with remote instances
    Events,          \* per service type, the sequence of its events: name,
                     \* event_id, ipc (does mw::com know it?), serializer
    PathFits         \* service types whose shared-memory paths fit

Service == Local \cup Remote

\* An event's serializer is a NullSerializerConfig or missing.
NoSerializer == [found |-> FALSE, max_message_size |-> 0]
NullSerializer(n) == [found |-> TRUE, max_message_size |-> n]

ASSUME TypesAssumption == Local \cap Remote = {} /\ PathFits \subseteq Service
ASSUME EventsAssumption ==
    \A s \in Service : \A i, j \in DOMAIN Events[s] :
        /\ Events[s][i].name = Events[s][j].name => i = j
        /\ Events[s][i].event_id = Events[s][j].event_id => i = j
ASSUME SerializerAssumption ==
    \A s \in Service :
        /\ Len(Events[s]) \in Nat /\ DOMAIN Events[s] = 1 .. Len(Events[s])
        /\ \A i \in DOMAIN Events[s] :
              LET n == Events[s][i].serializer.max_message_size
              IN  /\ n \in Nat
                  /\ Events[s][i].serializer \in {NoSerializer, NullSerializer(n)}
\* The skeleton of a remote service is made with all of its events.
ASSUME SkeletonAssumption ==
    \A s \in Remote : \A i \in DOMAIN Events[s] : Events[s][i].ipc

kSomeipFullHeaderSize == 16
kMaxMessageSize == 1500

\* score_com_serializer_get(): the first event of that name decides.
SerializerGet(s, name) ==
    LET named == {i \in DOMAIN Events[s] : Events[s][i].name = name}
    IN  IF named = {} THEN NoSerializer ELSE Events[s][Min(named)].serializer

SerializeOk(size, room) == size <= room

\* Mutant: the header is forgotten.
EventSlotSizeBare(s) ==
    LET sizes == {SerializerGet(s, Events[s][i].name).max_message_size : i \in DOMAIN Events[s]}
    IN  IF sizes = {} \/ 0 \in sizes THEN kMaxMessageSize ELSE Max(sizes)

\* event_slot_size(): the largest event and its header; one event of unknown
\* size makes it the transport's maximum.  (NoSerializer has size 0.)
EventSlotSize(s) ==
    LET sizes == {SerializerGet(s, Events[s][i].name).max_message_size : i \in DOMAIN Events[s]}
    IN  IF sizes = {} \/ 0 \in sizes
        THEN kMaxMessageSize
        ELSE Max(sizes) + kSomeipFullHeaderSize

\* The loop that fills shm_config (gatewayd) and server_shm_config (someipd):
\* the publishing side gets slots for events, the other side the smallest
\* pool there is.  Without paths there is no pool on either side.
SlotSize(d, s) ==
    IF s \notin PathFits THEN 0
    ELSE IF (d = "gatewayd") = (s \in Local) THEN EventSlotSize(s)
    ELSE 1

\* The SOCom id of an event is its position in the configuration from 0.
EventConfig(s, id) == Events[s][id + 1]
EventIds(s) == 0 .. Len(Events[s]) - 1

\* Mutant: events that are left out do not count.
EventContextsDense(s) ==
    LET known(id) == EventConfig(s, id).ipc /\ SerializerGet(s, EventConfig(s, id).name).found
        kept == {id \in EventIds(s) : known(id)}
    IN  {[id |-> Quantify(kept, LAMBDA k : k < id), event |-> EventConfig(s, id)] : id \in kept}

\* event_contexts_ of an instance in gatewayd: the events known to mw::com
\* that have a serializer, each with its SOCom id.
EventContexts(s) ==
    {[id |-> id, event |-> EventConfig(s, id)] :
        id \in {k \in EventIds(s) :
                    EventConfig(s, k).ipc /\ SerializerGet(s, EventConfig(s, k).name).found}}

\* A payload: the SOCom id it is published under and the method id in its
\* header.  name tells the event it is a sample of; no code reads it.
Message(id, event) == [id |-> id, method_id |-> event.event_id, name |-> event.name]

\* The event someipd notifies for a payload: the one at that position in the
\* configuration.  The header is not looked at.
Notified(s, m) == {EventConfig(s, id) : id \in EventIds(s) \cap {m.id}}

\* The event gatewayd sends a sample of: the one in the context of that id.
Sent(s, m) == {c.event : c \in {k \in EventContexts(s) : k.id = m.id}}

=============================================================================
