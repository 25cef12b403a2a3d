------------------------- MODULE GatewayTypeProofs --------------------------
(***************************************************************************)
(* Type correctness of GatewayBinding, for any number of clients, services,*)
(* events, slots and connections: messages and the pieces the handlers     *)
(* share, the transport and the handshake, the message handlers,           *)
(* applications and restarts, and the theorem.                             *)
(***************************************************************************)
EXTENDS GatewayProperties, FiniteSetTheorems, TLAPS

Outgoing == [ClientId -> Seq(Message)]

\* Changing one entry of a function of functions.
LEMMA EntryTyped ==
    ASSUME NEW A, NEW B, NEW S, NEW f \in [A -> [B -> S]], NEW a \in A, NEW b, NEW v,
           b \in B => v \in S
    PROVE  [f EXCEPT ![a][b] = v] \in [A -> [B -> S]]
BY Zenon

-----------------------------------------------------------------------------
(* Messages and channels.                                                   *)

\* Every message the binding builds is a message.
LEMMA MessagesTyped ==
    ASSUME NEW k \in Key, NEW b \in BOOLEAN, NEW r \in Nat, NEW h \in Nat,
           NEW e \in Event, NEW s \in Slot
    PROVE  /\ Connect \in Message /\ ConnectReply \in Message
           /\ RequestService(k, b) \in Message /\ OfferService(k, b) \in Message
           /\ ConnectService(k, r) \in Message /\ ConnectServiceReply(r, h) \in Message
           /\ SubscribeEvent(h, e, b, k) \in Message
           /\ EventUpdate(r, e, s, k) \in Message
           /\ PayloadConsumed(r, s, k) \in Message
BY Zenon DEF Message, Connect, ConnectReply, RequestService, OfferService, ConnectService,
       ConnectServiceReply, SubscribeEvent, EventUpdate, PayloadConsumed, Handle

\* The type field of a message tells which fields it has.
LEMMA FieldsTyped ==
    ASSUME NEW m \in Message
    PROVE  /\ m.type = "Request_service" => m.key \in Key /\ m.in_use \in BOOLEAN
           /\ m.type = "Offer_service" => m.key \in Key /\ m.offered \in BOOLEAN
           /\ m.type = "Connect_service" => m.key \in Key /\ m.required \in Nat
           /\ m.type = "Connect_service_reply" => m.required \in Nat /\ m.provided \in Nat
           /\ m.type = "Subscribe_event" =>
                /\ m.provided \in Nat /\ m.event \in Event
                /\ m.subscribe \in BOOLEAN /\ m.key \in Key
           /\ m.type = "Event_update" =>
                m.required \in Nat /\ m.event \in Event /\ m.slot \in Slot /\ m.key \in Key
           /\ m.type = "Payload_consumed" =>
                m.required \in Nat /\ m.slot \in Slot /\ m.key \in Key
BY DEF Message, Connect, ConnectReply, Handle

\* One message is a sequence of messages.
LEMMA SingletonTyped ==
    ASSUME NEW m \in Message
    PROVE  <<m>> \in Seq(Message)
OBVIOUS

\* So is none.
LEMMA EmptyTyped == <<>> \in Seq(Message)
OBVIOUS

\* The Client_id a process knows a connection by.
LEMMA ClientOfTyped ==
    ASSUME NEW p \in Proc, NEW l \in Conn
    PROVE  ClientOf(p, l) \in ClientId
BY BoundAssumption DEF ClientOf, ClientId, Conn

\* Sending keeps the channels typed.
LEMMA PostTyped ==
    ASSUME NEW ch \in Channels, NEW p \in Proc, NEW out \in Outgoing
    PROVE  Post(ch, p, out) \in Channels
<1> SUFFICES ASSUME NEW l \in Conn
             PROVE  Post(ch, p, out)[l] \in [srv : Seq(Message), cli : Seq(Message)]
    BY Zenon DEF Post, Channels
<1>1. out[ClientOf(p, l)] \in Seq(Message)
    BY ClientOfTyped DEF Outgoing
<1>2. ch[l] \in [srv : Seq(Message), cli : Seq(Message)]
    BY DEF Channels
<1>3. Far(p) \in {"srv", "cli"}
    BY DEF Far
<1>4. [ch[l] EXCEPT ![Far(p)] = @ \o out[ClientOf(p, l)]]
          \in [srv : Seq(Message), cli : Seq(Message)]
    <2>1. ch[l][Far(p)] \o out[ClientOf(p, l)] \in Seq(Message)
        BY <1>1, <1>2, <1>3
    <2> QED
        BY Zenon, <1>2, <1>3, <2>1
<1> QED
    BY Zenon, <1>2, <1>4 DEF Post

\* So does receiving, and what is received is a message.
LEMMA ReceiveTyped ==
    ASSUME chan \in Channels, NEW p \in Proc, NEW l \in Conn, NEW type,
           Deliverable(p, l, type)
    PROVE  /\ Popped(p, l) \in Channels
           /\ Head(chan[l][Near(p)]) \in Message
           /\ Head(chan[l][Near(p)]).type = type
<1>1. Near(p) \in {"srv", "cli"}
    BY Zenon DEF Near
<1>2. chan[l] \in [srv : Seq(Message), cli : Seq(Message)]
    BY Zenon DEF Channels
<1>3. chan[l][Near(p)] \in Seq(Message) /\ chan[l][Near(p)] # <<>>
    BY Zenon, <1>1, <1>2 DEF Deliverable
<1>4. /\ Tail(chan[l][Near(p)]) \in Seq(Message)
      /\ Head(chan[l][Near(p)]) \in Message
    BY <1>3
<1>5. [chan[l] EXCEPT ![Near(p)] = Tail(@)] \in [srv : Seq(Message), cli : Seq(Message)]
    BY Zenon, <1>1, <1>2, <1>4
<1>6. Popped(p, l) \in Channels
    BY Zenon, <1>5 DEF Popped, Channels
<1> QED
    BY Zenon, <1>4, <1>6 DEF Deliverable

\* The same messages to a set of peers.
LEMMA ToTyped ==
    ASSUME NEW C, NEW msgs \in Seq(Message)
    PROVE  To(C, msgs) \in Outgoing
BY DEF To, Outgoing

\* The Subscribe_event messages for every event of a service.
LEMMA SubscriptionsTyped ==
    ASSUME NEW h \in Nat, NEW k \in Key, NEW b \in BOOLEAN
    PROVE  Subscriptions(h, k, b) \in Seq(Message)
<1>1. \A i \in 1 .. NumEvents : SubscribeEvent(h, i - 1, b, k) \in Message
    <2> TAKE i \in 1 .. NumEvents
    <2>1. i - 1 \in Event
        BY BoundAssumption DEF Event
    <2> QED
        BY <2>1 DEF SubscribeEvent, Message, Handle
<1> QED
    BY <1>1, BoundAssumption DEF Subscriptions

\* The Request_service messages of the handshake, in any order of the keys.
LEMMA RequestsTyped ==
    ASSUME NEW K \in SUBSET Key, NEW order \in Orders(K)
    PROVE  Requests(order) \in Seq(Message)
<1>1. PICK n \in Nat : n = Cardinality(K)
    BY Zenon, ProviderAssumption, FS_Subset, FS_CardinalityType
<1>2. order \in [1 .. n -> K]
    BY Zenon, <1>1 DEF Orders
<1>3. \A i \in 1 .. n : RequestService(order[i], TRUE) \in Message
    BY Zenon, <1>2 DEF RequestService, Message
<1>4. Requests(order) = [i \in 1 .. n |-> RequestService(order[i], TRUE)]
    BY Zenon, <1>2 DEF Requests
<1>5. Requests(order) \in [1 .. n -> Message]
    BY Zenon, <1>3, <1>4
<1> QED
    BY <1>5

-----------------------------------------------------------------------------
(* Connection_metadata.                                                     *)

\* Connection_metadata::add_mapping keeps a vector finite and typed.
LEMMA AddedTyped ==
    ASSUME NEW vec \in SUBSET Ids, IsFiniteSet(vec), NEW k \in Key,
           NEW local \in Nat, NEW remote \in Nat
    PROVE  Added(vec, k, local, remote) \in SUBSET Ids
           /\ IsFiniteSet(Added(vec, k, local, remote))
<1>1. Cardinality(vec) + 1 \in Nat
    BY FS_CardinalityType
<1>2. Added(vec, k, local, remote) \in SUBSET Ids
    BY <1>1 DEF Added, Ids
<1> QED
    BY Zenon, <1>2, FS_AddElement DEF Added

\* So do the removals, which renumber the entries.
LEMMA EraseKeyTyped ==
    ASSUME NEW vec \in SUBSET Ids, IsFiniteSet(vec), NEW k
    PROVE  EraseKey(vec, k) \in SUBSET Ids /\ IsFiniteSet(EraseKey(vec, k))
<1> DEFINE left == {ids \in vec : ids.key # k}
           place(ids) == [ids EXCEPT !.at = Cardinality({other \in left : other.at \leq ids.at})]
<1>1. IsFiniteSet(left) /\ left \subseteq Ids
    BY Zenon, FS_Subset
<1>2. \A ids \in left : Cardinality({other \in left : other.at \leq ids.at}) \in Nat
    <2> TAKE ids \in left
    <2>1. {other \in left : other.at \leq ids.at} \subseteq left
        OBVIOUS
    <2>2. IsFiniteSet({other \in left : other.at \leq ids.at})
        BY Zenon, <1>1, <2>1, FS_Subset
    <2> QED
        BY <2>2, FS_CardinalityType
<1>3. \A ids \in left : place(ids) \in Ids
    BY Zenon, <1>1, <1>2 DEF Ids
<1>4. EraseKey(vec, k) = {place(ids) : ids \in left}
    BY Zenon DEF EraseKey
<1> HIDE DEF place, left
<1>5. IsFiniteSet({place(ids) : ids \in left})
    <2> DEFINE f == [ids \in left |-> place(ids)]
    <2>1. f \in Surjection(left, {place(ids) : ids \in left})
        BY Zenon DEF Surjection
    <2> QED
        BY Zenon, <2>1, <1>1, FS_Surjection
<1> QED
    BY Zenon, <1>3, <1>4, <1>5

-----------------------------------------------------------------------------
(* The pieces the handlers share.                                           *)

Engines == [Proc -> EngineStep]
States == [Proc -> [Key -> ServiceState]]
Mappings == [Proc -> [ClientId -> SUBSET Ids]]
AllFinite(map) == \A p \in Proc, c \in ClientId : IsFiniteSet(map[p][c])
Pendings == [Proc -> SUBSET [id : Nat, key : Key, client : ClientId]]

\* Looking up reply channels leaves the engine thread in a proper step.
LEMMA DereferenceTyped ==
    ASSUME engine \in Engines, NEW p \in Proc, NEW C, NEW next \in EngineStep,
           Dereference(p, C, next)
    PROVE  engine' \in Engines
BY Zenon DEF Dereference, Engines, EngineStep

\* The entries of the members of a binding.
LEMMA MembersTyped ==
    ASSUME TypeOK, NEW p \in Proc
    PROVE  /\ engine[p] \in EngineStep
           /\ \A k \in Key : state[p][k] \in ServiceState /\ server[p][k] \in ServerConnector
           /\ \A c \in ClientId : mapping[p][c] \in SUBSET Ids /\ IsFiniteSet(mapping[p][c])
<1>1. /\ engine \in [Proc -> EngineStep] /\ state \in [Proc -> [Key -> ServiceState]]
      /\ server \in [Proc -> [Key -> ServerConnector]]
      /\ mapping \in [Proc -> [ClientId -> SUBSET Ids]]
      /\ \A c \in ClientId : IsFiniteSet(mapping[p][c])
    BY Zenon DEF TypeOK
<1>2. engine[p] \in EngineStep
    BY Zenon, <1>1
<1>3. \A k \in Key : state[p][k] \in ServiceState /\ server[p][k] \in ServerConnector
    BY Zenon, <1>1
<1>4. \A c \in ClientId : mapping[p][c] \in SUBSET Ids
    BY Zenon, <1>1
<1> QED
    BY Zenon, <1>1, <1>2, <1>3, <1>4

LEMMA NoServerTyped == NoServer \in ServerConnector
<1>1. 0 \in ClientId /\ 0 \in Nat
    BY BoundAssumption DEF ClientId
<1> QED
    BY Zenon, <1>1 DEF NoServer, ServerConnector

\* There are finitely many Client_ids.
LEMMA ClientIdsFinite ==
    ASSUME NEW C \in SUBSET ClientId
    PROVE  IsFiniteSet(C) /\ Cardinality(C) \in Nat
<1>1. IsFiniteSet(ClientId)
    BY BoundAssumption, FS_Interval DEF ClientId
<1> QED
    BY Zenon, <1>1, FS_Subset, FS_CardinalityType

\* Connection_metadata::remove_service keeps the vectors typed.
LEMMA WithoutKeyTyped ==
    ASSUME mapping \in Mappings, AllFinite(mapping), NEW p \in Proc, NEW k
    PROVE  MappingWithoutKey(p, k) \in Mappings /\ AllFinite(MappingWithoutKey(p, k))
<1>1. \A c \in ClientId : EraseKey(mapping[p][c], k) \in SUBSET Ids
                           /\ IsFiniteSet(EraseKey(mapping[p][c], k))
    BY Zenon, EraseKeyTyped DEF Mappings, AllFinite
<1> QED
    BY Zenon, <1>1 DEF MappingWithoutKey, Mappings, AllFinite

\* service_state_change keeps the members typed.
LEMMA AnnounceTyped ==
    ASSUME mapping \in Mappings, AllFinite(mapping), state \in States,
           local_offers \in [Proc -> SUBSET Key],
           NEW p \in Proc, NEW k \in Key, NEW st \in ServiceState, NEW peers,
           NEW available \in BOOLEAN, NEW ch \in Channels,
           Announce(p, k, st, peers, available, ch)
    PROVE  /\ mapping' \in Mappings /\ AllFinite(mapping')
           /\ local_offers' \in [Proc -> SUBSET Key]
           /\ state' \in States
           /\ chan' \in Channels
<1>1. mapping' \in Mappings /\ AllFinite(mapping')
    BY Zenon, WithoutKeyTyped DEF Announce
<1>2. local_offers' \in [Proc -> SUBSET Key]
    BY Zenon DEF Announce
<1>3. [st EXCEPT !.exists = TRUE, !.requested = TRUE] \in ServiceState
    BY Zenon DEF ServiceState
<1>4. state' \in States
    BY <1>3 DEF Announce, States
<1>5. OfferService(k, available) \in Message
    BY DEF OfferService, Message
<1>6. To(peers, <<OfferService(k, available)>>) \in Outgoing
    BY <1>5, ToTyped
<1>7. chan' \in Channels
    BY Zenon, <1>6, PostTyped DEF Announce
<1> QED
    BY Zenon, <1>1, <1>2, <1>4, <1>7

\* The handle chosen for an offer is a number.
LEMMA RequiredIdTyped ==
    ASSUME next_id \in [Proc -> Nat], NEW p \in Proc, NEW st \in ServiceState,
           NEW c \in ClientId
    PROVE  RequiredId(p, st, c) \in Nat
<1>1. st.offers[c].required \in Nat
    BY Zenon DEF ServiceState, OfferState
<1>2. Fresh(st) \in SUBSET ClientId
    BY Zenon DEF Fresh
<1>3. Cardinality({d \in Fresh(st) : st.offers[d].required = 0 /\ d < c}) \in Nat
    BY Zenon, <1>2, ClientIdsFinite
<1> QED
    BY <1>1, <1>3 DEF RequiredId

\* maybe_send_connect_service_locked keeps the members typed.
LEMMA ConnectOffersTyped ==
    ASSUME engine \in Engines, state \in States, pending \in Pendings,
           next_id \in [Proc -> Nat],
           NEW p \in Proc, NEW k \in Key, NEW st \in ServiceState, NEW ch \in Channels,
           NEW out \in Outgoing, NEW next \in EngineStep,
           ConnectOffers(p, k, st, ch, out, next)
    PROVE  /\ engine' \in Engines /\ state' \in States /\ pending' \in Pendings
           /\ next_id' \in [Proc -> Nat] /\ chan' \in Channels
<1> DEFINE fresh == Fresh(st)
           id(c) == RequiredId(p, st, c)
           offers == [c \in ClientId |->
                        IF c \in fresh
                        THEN [offered |-> TRUE, sent |-> Sends(p, c), required |-> id(c)]
                        ELSE st.offers[c]]
<1>1. fresh \in SUBSET ClientId
    BY Zenon DEF Fresh
<1>2. \A c \in ClientId : id(c) \in Nat
    BY Zenon, RequiredIdTyped
<1>3. engine' \in Engines
    BY Zenon, DereferenceTyped DEF ConnectOffers
<1>4. state' \in States
    <2>1. offers \in [ClientId -> OfferState]
        BY <1>2 DEF ServiceState, OfferState, Sends
    <2>2. [st EXCEPT !.offers = offers] \in ServiceState
        BY Zenon, <2>1 DEF ServiceState
    <2>3. state' = [state EXCEPT ![p][k] = [st EXCEPT !.offers = offers]]
        BY Zenon DEF ConnectOffers
    <2> QED
        BY Zenon, <2>2, <2>3 DEF States
<1>5. pending' \in Pendings
    <2>1. {[id |-> id(c), key |-> k, client |-> c] : c \in fresh}
              \in SUBSET [id : Nat, key : Key, client : ClientId]
        BY <1>1, <1>2
    <2>2. pending' = [pending EXCEPT ![p] =
              @ \cup {[id |-> id(c), key |-> k, client |-> c] : c \in fresh}]
        BY Zenon DEF ConnectOffers
    <2> QED
        BY Zenon, <2>1, <2>2 DEF Pendings
<1>6. next_id' \in [Proc -> Nat]
    <2>1. Cardinality({c \in fresh : st.offers[c].required = 0}) \in Nat
        BY <1>1, ClientIdsFinite
    <2>2. next_id' = [next_id EXCEPT ![p] =
              @ + Cardinality({c \in fresh : st.offers[c].required = 0})]
        BY Zenon DEF ConnectOffers, Advanced
    <2> QED
        BY <2>1, <2>2
<1>7. chan' \in Channels
    <2> DEFINE sent == [c \in ClientId |->
              IF c \in fresh THEN Append(out[c], ConnectService(k, id(c))) ELSE out[c]]
    <2>1. \A c \in ClientId : ConnectService(k, id(c)) \in Message
        BY Zenon, <1>2 DEF ConnectService, Message, Handle
    <2>2. sent \in Outgoing
        BY <2>1 DEF Outgoing
    <2>3. chan' = Post(ch, p, sent)
        BY Zenon DEF ConnectOffers
    <2> QED
        BY Zenon, <2>2, <2>3, PostTyped
<1> QED
    BY Zenon, <1>3, <1>4, <1>5, <1>6, <1>7

\* remove_event_subscriptions keeps the subscriber sets typed.
LEMMA SubscriptionsWithoutTyped ==
    ASSUME NEW st \in ServiceState, NEW c
    PROVE  SubscriptionsWithout(st, c) \in [Event -> SUBSET Endpoint]
BY Zenon DEF SubscriptionsWithout, ServiceState

\* remove_client keeps the members typed.
LEMMA RemoveClientTyped ==
    ASSUME TypeOK, NEW p \in Proc, NEW c \in ClientId, RemoveClient(p, c)
    PROVE  /\ connections' \in [Proc -> SUBSET ClientId]
           /\ state' \in States /\ mapping' \in Mappings /\ AllFinite(mapping')
           /\ pending' \in Pendings
           /\ interested' \in [Proc -> [Key -> SUBSET ClientId]]
           /\ subscribed' \in [Proc -> [Key -> SUBSET Event]]
           /\ server' \in [Proc -> [Key -> ServerConnector]]
           /\ UNCHANGED <<local_offers, next_id, client, bridged, held>>
<1> DEFINE orphan(k) == /\ state[p][k].offers[c].offered
                        /\ \A d \in ClientId \ {c} : ~state[p][k].offers[d].offered
           after(k) == [state[p][k] EXCEPT
                  !.offers = OffersWithout(state[p][k], c),
                  !.ec = @ /\ ~orphan(k),
                  !.subscriptions = IF orphan(k) THEN NoSubscriptions
                                    ELSE SubscriptionsWithout(state[p][k], c)]
<1>1. state' \in States
    <2>1. ASSUME NEW k \in Key PROVE after(k) \in ServiceState
        <3>1. state[p][k] \in ServiceState
            BY Zenon, MembersTyped
        <3>2. SubscriptionsWithout(state[p][k], c) \in [Event -> SUBSET Endpoint]
            BY Zenon, <3>1, SubscriptionsWithoutTyped
        <3>3. /\ NoSubscriptions \in [Event -> SUBSET Endpoint]
              /\ OffersWithout(state[p][k], c) \in [ClientId -> OfferState]
            BY Zenon, <3>1 DEF NoSubscriptions, OffersWithout, NoOffer, OfferState, ServiceState
        <3>4. (state[p][k].ec /\ ~orphan(k)) \in BOOLEAN
            BY Zenon
        <3> HIDE DEF orphan
        <3> QED
            BY Zenon, <3>1, <3>2, <3>3, <3>4 DEF ServiceState
    <2>2. state' = [state EXCEPT ![p] = [k \in Key |-> after(k)]]
        BY Zenon DEF RemoveClient
    <2> HIDE DEF after
    <2>3. [k \in Key |-> after(k)] \in [Key -> ServiceState]
        BY Zenon, <2>1
    <2> QED
        BY Zenon, <2>2, <2>3 DEF States, TypeOK
<1>2. server' \in [Proc -> [Key -> ServerConnector]]
    <2>1. NoServer \in ServerConnector
        BY Zenon, NoServerTyped
    <2>2. server' = [server EXCEPT ![p] = [k \in Key |->
              IF orphan(k) /\ state[p][k].ec THEN NoServer ELSE server[p][k]]]
        BY Zenon DEF RemoveClient
    <2> HIDE DEF orphan
    <2> QED
        BY Zenon, <2>1, <2>2 DEF TypeOK
<1>3. subscribed' \in [Proc -> [Key -> SUBSET Event]]
    BY Zenon DEF RemoveClient, TypeOK
<1>4. /\ connections' \in [Proc -> SUBSET ClientId]
      /\ interested' \in [Proc -> [Key -> SUBSET ClientId]]
    <2>1. InterestedWithout(p, c) \in [Key -> SUBSET ClientId]
        <3>1. interested \in [Proc -> [Key -> SUBSET ClientId]]
            BY Zenon DEF TypeOK
        <3> QED
            BY <3>1 DEF InterestedWithout
    <2> QED
        BY Zenon, <2>1 DEF RemoveClient, TypeOK
<1>5. pending' \in Pendings
    BY Zenon DEF RemoveClient, TypeOK, Pendings
<1>6. mapping' \in Mappings /\ AllFinite(mapping')
    <2>1. mapping' = [mapping EXCEPT ![p][c] = {}]
        BY Zenon DEF RemoveClient
    <2>2. mapping' \in Mappings
        BY Zenon, <2>1 DEF TypeOK, Mappings
    <2> QED
        BY <2>1, <2>2, FS_EmptySet DEF TypeOK, Mappings, AllFinite
<1>7. UNCHANGED <<local_offers, next_id, client, bridged, held>>
    BY Zenon DEF RemoveClient
<1> QED
    BY Zenon, <1>1, <1>2, <1>3, <1>4, <1>5, <1>6, <1>7

-----------------------------------------------------------------------------
(* Type correctness, one lemma per action.                                  *)

\* Replacing one queue of a connection keeps the channels typed.
LEMMA QueueTyped ==
    ASSUME NEW ch \in Channels, NEW l, NEW q \in Seq(Message)
    PROVE  [ch EXCEPT ![l].srv = q] \in Channels /\ [ch EXCEPT ![l].cli = q] \in Channels
<1> DEFINE R == [srv : Seq(Message), cli : Seq(Message)]
<1>1. \A r \in R : [r EXCEPT !.srv = q] \in R /\ [r EXCEPT !.cli = q] \in R
    OBVIOUS
<1> QED
    BY Zenon, <1>1 DEF Channels

\* The bookkeeping of environment steps.
LEMMA SpendTyped ==
    ASSUME spent \in [EnvStep -> Nat], NEW x \in EnvStep, Spend(x)
    PROVE  spent' \in [EnvStep -> Nat]
BY DEF Spend

\* A new connection keeps the state typed.
LEMMA TransportConnectTyped ==
    ASSUME TypeOK, NEW g \in Clients, TransportConnect(g)
    PROVE  TypeOK'
<1>1. PICK l \in Conn :
        /\ owner' = [owner EXCEPT ![l] = g]
        /\ cur' = [cur EXCEPT ![g] = l]
        /\ live' = live \cup {l}
        /\ chan' = [chan EXCEPT ![l].srv = <<Connect>>]
        /\ connections' = [connections EXCEPT ![Server] = @ \cup {l}]
    BY Zenon DEF TransportConnect
<1>2. l \in ClientId /\ Server \in Proc /\ g \in Proc
    BY BoundAssumption DEF Conn, ClientId, Proc
<1>3. Connect \in Message
    BY Zenon DEF Message
<1>4. chan' \in Channels
    <2>1. <<Connect>> \in Seq(Message)
        BY <1>3
    <2> QED
        BY Zenon, <1>1, <2>1, QueueTyped DEF TypeOK
<1>5. UNCHANGED <<state, mapping, pending, local_offers, interested, next_id,
                  allocations, engine, socomVars, failed, spent>>
    BY Zenon DEF TransportConnect
<1> QED
    BY Zenon, <1>1, <1>2, <1>4, <1>5 DEF TypeOK, socomVars

\* So does a lost line.
LEMMA LoseLinkTyped ==
    ASSUME TypeOK, NEW l \in Conn, LoseLink(l)
    PROVE  TypeOK'
<1>1. spent' \in [EnvStep -> Nat]
    <2>1. Spend("lose") /\ "lose" \in EnvStep
        BY Zenon DEF LoseLink, EnvStep
    <2>2. spent \in [EnvStep -> Nat]
        BY Zenon DEF TypeOK
    <2> QED
        BY Zenon, <2>1, <2>2, SpendTyped
<1> QED
    BY Zenon, <1>1 DEF LoseLink, TypeOK, bindingVars, socomVars

\* The client's on_state_change, connection lost.
LEMMA ClientDownTyped ==
    ASSUME TypeOK, NEW g \in Clients, ClientDown(g)
    PROVE  TypeOK'
<1>1. g \in Proc /\ 0 \in ClientId
    BY BoundAssumption DEF Proc, ClientId
<1>2. cur' \in [Clients -> ClientId]
    BY Zenon, <1>1 DEF ClientDown, TypeOK
<1>3. chan' \in Channels
    <2>1. <<>> \in Seq(Message)
        BY Zenon, EmptyTyped
    <2>2. chan' = [chan EXCEPT ![cur[g]].cli = <<>>]
        BY DEF ClientDown
    <2> QED
        BY Zenon, <2>1, <2>2, QueueTyped DEF TypeOK
<1>4. RemoveClient(g, 0)
    BY DEF ClientDown
<1>5. UNCHANGED <<live, owner, allocations, engine, failed, spent>>
    BY DEF ClientDown
<1> QED
    BY Zenon, <1>1, <1>2, <1>3, <1>4, <1>5, RemoveClientTyped
       DEF TypeOK, States, Mappings, AllFinite, Pendings

\* The server's disconnect callback.
LEMMA ServerDisconnectTyped ==
    ASSUME TypeOK, NEW l \in Conn, ServerDisconnect(l)
    PROVE  TypeOK'
<1>1. Server \in Proc /\ l \in ClientId
    BY BoundAssumption DEF Proc, ClientId, Conn
<1>2. chan' \in Channels
    <2>1. <<>> \in Seq(Message)
        BY Zenon, EmptyTyped
    <2>2. chan' = [chan EXCEPT ![l].srv = <<>>]
        BY DEF ServerDisconnect
    <2> QED
        BY Zenon, <2>1, <2>2, QueueTyped DEF TypeOK
<1>3. RemoveClient(Server, l)
    BY DEF ServerDisconnect
<1>4. UNCHANGED <<transportVars, allocations, engine, failed, spent>>
    BY DEF ServerDisconnect
<1> QED
    BY Zenon, <1>1, <1>2, <1>3, <1>4, RemoveClientTyped
       DEF TypeOK, States, Mappings, AllFinite, Pendings, transportVars

\* handle_connect_message, reply.
LEMMA RecvConnectTyped ==
    ASSUME TypeOK, NEW l \in Conn, RecvConnect(l)
    PROVE  TypeOK'
<1>1. Server \in Proc /\ l \in ClientId
    BY BoundAssumption DEF Proc, ClientId, Conn
<1>2. Popped(Server, l) \in Channels
    BY Zenon, <1>1, ReceiveTyped DEF RecvConnect, TypeOK
<1>3. <<ConnectReply>> \in Seq(Message)
    BY DEF Message
<1>4. chan' \in Channels
    BY Zenon, <1>1, <1>2, <1>3, ToTyped, PostTyped DEF RecvConnect
<1>5. engine' \in Engines
    BY Zenon, <1>1 DEF RecvConnect, TypeOK, Engines, EngineStep
<1>6. UNCHANGED <<transportVars, bindingVars, allocations, socomVars, failed, spent>>
    BY Zenon DEF RecvConnect
<1> QED
    BY Zenon, <1>4, <1>5, <1>6 DEF TypeOK, Engines, transportVars, bindingVars, socomVars

\* handle_connect_message, repeated requests.
LEMMA ResendToClientTyped ==
    ASSUME TypeOK, ResendToClient
    PROVE  TypeOK'
<1>1. Server \in Proc
    BY Zenon DEF Proc
<1>2. PICK order \in Orders({k \in Key : state[Server][k].requested}) :
        chan' = Post(chan, Server, To({engine[Server].client}, Requests(order)))
    BY Zenon DEF ResendToClient
<1>3. Requests(order) \in Seq(Message)
    BY RequestsTyped
<1>4. chan' \in Channels
    BY SMTT(30), <1>1, <1>2, <1>3, ToTyped, PostTyped DEF TypeOK
<1>5. engine' \in Engines
    BY Zenon, <1>1 DEF ResendToClient, TypeOK, Engines, EngineStep
<1>6. UNCHANGED <<transportVars, bindingVars, allocations, socomVars, failed, spent>>
    BY Zenon DEF ResendToClient
<1> QED
    BY Zenon, <1>4, <1>5, <1>6 DEF TypeOK, Engines, transportVars, bindingVars, socomVars

\* handle_connect_reply_message, registration.
LEMMA RecvConnectReplyTyped ==
    ASSUME TypeOK, NEW g \in Clients, NEW l \in Conn, RecvConnectReply(g, l)
    PROVE  TypeOK'
<1>1. g \in Proc /\ 0 \in ClientId
    BY BoundAssumption DEF Proc, ClientId
<1>2. chan' \in Channels
    BY Zenon, <1>1, ReceiveTyped DEF RecvConnectReply, TypeOK
<1>3. engine' \in Engines
    BY Zenon, <1>1 DEF RecvConnectReply, TypeOK, Engines, EngineStep
<1>4. connections' \in [Proc -> SUBSET ClientId]
    BY Zenon, <1>1 DEF RecvConnectReply, TypeOK
<1>5. UNCHANGED <<transportVars, state, mapping, pending, local_offers, interested,
                  next_id, allocations, socomVars, failed, spent>>
    BY Zenon DEF RecvConnectReply
<1> QED
    BY Zenon, <1>2, <1>3, <1>4, <1>5 DEF TypeOK, Engines, transportVars, socomVars

\* handle_connect_reply_message, repeated requests.
LEMMA ResendToServerTyped ==
    ASSUME TypeOK, NEW g \in Clients, ResendToServer(g)
    PROVE  TypeOK'
<1>1. g \in Proc
    BY Zenon DEF Proc
<1>2. PICK order \in Orders({k \in Key : state[g][k].requested /\ ~state[g][k].cc}) :
        chan' = Post(chan, g, To(connections[g], Requests(order)))
    BY Zenon DEF ResendToServer
<1>3. Requests(order) \in Seq(Message)
    BY Zenon, RequestsTyped
<1>4. chan' \in Channels
    BY Zenon, <1>1, <1>2, <1>3, ToTyped, PostTyped DEF TypeOK
<1>5. engine' \in Engines
    BY Zenon, <1>1 DEF ResendToServer, TypeOK, Engines, EngineStep
<1>6. UNCHANGED <<transportVars, bindingVars, allocations, socomVars, failed, spent>>
    BY Zenon DEF ResendToServer
<1> QED
    BY Zenon, <1>4, <1>5, <1>6 DEF TypeOK, Engines, transportVars, bindingVars, socomVars

-----------------------------------------------------------------------------
(* The message handlers.                                                    *)

\* handle_request_service_message, in_use = false.
LEMMA RecvUnrequestTyped ==
    ASSUME TypeOK, NEW p \in Proc, NEW l \in Conn, RecvUnrequest(p, l)
    PROVE  TypeOK'
<1> DEFINE c == ClientOf(p, l)
           m == Head(chan[l][Near(p)])
<1>1. c \in ClientId
    BY Zenon, ClientOfTyped
<1>2. chan' \in Channels
    BY Zenon, ReceiveTyped DEF RecvUnrequest, TypeOK
<1>3. state' \in States
    <2>1. \A k \in Key : [state[p][k] EXCEPT !.subscriptions =
                             SubscriptionsWithout(state[p][k], c)] \in ServiceState
        <3> TAKE k \in Key
        <3>1. state[p][k] \in ServiceState
            BY Zenon, MembersTyped
        <3>2. SubscriptionsWithout(state[p][k], c) \in [Event -> SUBSET Endpoint]
            BY Zenon, <3>1, SubscriptionsWithoutTyped
        <3> QED
            BY Zenon, <3>1, <3>2 DEF ServiceState
    <2> QED
        BY Zenon, <2>1 DEF RecvUnrequest, TypeOK, States
<1>4. subscribed' \in [Proc -> [Key -> SUBSET Event]]
    BY Zenon DEF RecvUnrequest, TypeOK
<1>5. mapping' \in Mappings /\ AllFinite(mapping')
    <2>1. EraseKey(mapping[p][c], m.key) \in SUBSET Ids
          /\ IsFiniteSet(EraseKey(mapping[p][c], m.key))
        <3>1. mapping[p][c] \in SUBSET Ids /\ IsFiniteSet(mapping[p][c])
            BY Zenon, <1>1, MembersTyped
        <3> HIDE DEF c, m
        <3> QED
            BY Zenon, <3>1, EraseKeyTyped
    <2>2. mapping' = [mapping EXCEPT ![p][c] = EraseKey(@, m.key)]
        BY Zenon DEF RecvUnrequest
    <2> QED
        BY Zenon, <1>1, <2>1, <2>2 DEF TypeOK, Mappings, AllFinite
<1>6. pending' \in Pendings
    BY Zenon DEF RecvUnrequest, TypeOK, Pendings
<1>7. interested' \in [Proc -> [Key -> SUBSET ClientId]]
    <2>1. interested' = [interested EXCEPT ![p][m.key] = @ \ {c}]
        BY Zenon DEF RecvUnrequest
    <2>2. m.key \in Key
        <3>1. Deliverable(p, l, "Request_service")
            BY Zenon DEF RecvUnrequest
        <3> QED
            BY Zenon, <3>1, ReceiveTyped, FieldsTyped DEF TypeOK
    <2> HIDE DEF c, m
    <2> QED
        BY <2>1, <2>2 DEF TypeOK
<1>8. UNCHANGED <<transportVars, connections, local_offers, next_id, allocations, engine,
                  server, client, bridged, held, failed, spent>>
    BY Zenon DEF RecvUnrequest
<1> QED
    BY Zenon, <1>2, <1>3, <1>4, <1>5, <1>6, <1>7, <1>8
       DEF TypeOK, States, Mappings, AllFinite, Pendings, transportVars

\* handle_request_service_message for a known service.
LEMMA RecvRequestKnownTyped ==
    ASSUME TypeOK, NEW p \in Proc, NEW l \in Conn, RecvRequestKnown(p, l)
    PROVE  TypeOK'
<1> DEFINE c == ClientOf(p, l)
           k == Head(chan[l][Near(p)]).key
           offer == IF k \in local_offers[p] THEN <<OfferService(k, TRUE)>> ELSE <<>>
<1>1. c \in ClientId
    BY Zenon, ClientOfTyped
<1>2. k \in Key /\ Popped(p, l) \in Channels
    BY Zenon, ReceiveTyped, FieldsTyped DEF RecvRequestKnown, TypeOK
<1>3. offer \in Seq(Message)
    <2>1. OfferService(k, TRUE) \in Message
        BY Zenon, <1>2 DEF OfferService, Message
    <2> HIDE DEF k
    <2>2. <<OfferService(k, TRUE)>> \in Seq(Message) /\ <<>> \in Seq(Message)
        BY Zenon, <2>1, SingletonTyped, EmptyTyped
    <2> QED
        BY Zenon, <2>2
<1>4. chan' \in Channels
    <2>1. To({c}, offer) \in Outgoing
        BY Zenon, <1>3, ToTyped
    <2> QED
        BY Zenon, <1>2, <2>1, PostTyped DEF RecvRequestKnown
<1>5. interested' \in [Proc -> [Key -> SUBSET ClientId]]
    <2>1. interested' = [interested EXCEPT ![p][k] = @ \cup {c}]
        BY Zenon DEF RecvRequestKnown
    <2> HIDE DEF c, k
    <2> QED
        BY SMTT(30), <1>1, <1>2, <2>1 DEF TypeOK
<1>6. UNCHANGED <<transportVars, connections, state, mapping, pending, local_offers,
                  next_id, allocations, engine, socomVars, failed, spent>>
    BY Zenon DEF RecvRequestKnown
<1> QED
    BY Zenon, <1>4, <1>5, <1>6 DEF TypeOK, transportVars, socomVars

\* handle_request_service_message with a new client connector.
LEMMA RecvRequestNewTyped ==
    ASSUME TypeOK, NEW p \in Proc, NEW l \in Conn, RecvRequestNew(p, l)
    PROVE  TypeOK'
<1> DEFINE c == ClientOf(p, l)
           k == Head(chan[l][Near(p)]).key
           peers == interested[p][k] \cup {c}
           tracked == [state[p][k] EXCEPT !.exists = TRUE, !.cc = client[p][k] = "none"]
           found == tracked.cc /\ server[p][k].kind # "none"
<1>1. c \in ClientId
    BY Zenon, ClientOfTyped
<1>2. k \in Key /\ Popped(p, l) \in Channels
    <2>1. Deliverable(p, l, "Request_service")
        BY Zenon DEF RecvRequestNew
    <2> QED
        BY Zenon, <2>1, ReceiveTyped, FieldsTyped DEF TypeOK
<1>3. tracked \in ServiceState
    <2> HIDE DEF k
    <2>1. state[p][k] \in ServiceState
        BY Zenon, <1>2, MembersTyped
    <2>2. (client[p][k] = "none") \in BOOLEAN
        BY Zenon
    <2> QED
        BY Zenon, <2>1, <2>2 DEF ServiceState
<1>4. interested' \in [Proc -> [Key -> SUBSET ClientId]]
    <2>1. interested' = [interested EXCEPT ![p][k] = peers]
        BY Zenon DEF RecvRequestNew
    <2> HIDE DEF c, k
    <2> QED
        BY SMTT(30), <1>1, <1>2, <2>1 DEF TypeOK
<1>5. client' \in [Proc -> [Key -> {"none", "app", "binding"}]]
    <2>1. client' = [client EXCEPT ![p][k] = IF @ = "none" THEN "binding" ELSE @]
        BY Zenon DEF RecvRequestNew
    <2> HIDE DEF k
    <2> QED
        BY Zenon, <1>2, <2>1 DEF TypeOK
<1>6. UNCHANGED <<transportVars, connections, pending, next_id, allocations,
                  server, bridged, subscribed, held, spent>>
    BY Zenon DEF RecvRequestNew
<1>7. CASE found
    <2>1. Announce(p, k, tracked, peers, TRUE, Popped(p, l)) /\ Dereference(p, peers, Idle)
        BY Zenon, <1>7 DEF RecvRequestNew
    <2>2. Idle \in EngineStep
        BY Zenon DEF EngineStep
    <2> HIDE DEF k, tracked, peers
    <2>3. engine' \in Engines
        BY Zenon, <2>1, <2>2, DereferenceTyped DEF TypeOK, Engines
    <2>4. /\ mapping' \in Mappings /\ AllFinite(mapping')
          /\ local_offers' \in [Proc -> SUBSET Key]
          /\ state' \in States /\ chan' \in Channels
        BY Zenon, <1>2, <1>3, <2>1, AnnounceTyped DEF TypeOK, Mappings, AllFinite, States
    <2> QED
        BY Zenon, <1>4, <1>5, <1>6, <2>3, <2>4
           DEF TypeOK, States, Mappings, AllFinite, Engines, transportVars
<1>8. CASE ~found
    <2>1. /\ state' = [state EXCEPT ![p][k] = tracked] /\ chan' = Popped(p, l)
          /\ UNCHANGED <<mapping, local_offers, engine, failed>>
        BY Zenon, <1>8 DEF RecvRequestNew
    <2> HIDE DEF k, tracked
    <2>2. state' \in States
        BY Zenon, <1>3, <2>1 DEF TypeOK, States
    <2> QED
        BY Zenon, <1>2, <1>4, <1>5, <1>6, <2>1, <2>2 DEF TypeOK, States, transportVars
<1> QED
    BY Zenon, <1>7, <1>8

\* handle_offer_service_message, offered.
LEMMA RecvOfferTyped ==
    ASSUME TypeOK, NEW p \in Proc, NEW l \in Conn, RecvOffer(p, l)
    PROVE  TypeOK'
<1> DEFINE c == ClientOf(p, l)
           k == Head(chan[l][Near(p)]).key
           st == [state[p][k] EXCEPT !.exists = TRUE, !.offers[c].offered = TRUE]
<1>1. c \in ClientId
    BY Zenon, ClientOfTyped
<1>2. k \in Key /\ Popped(p, l) \in Channels
    <2>1. Deliverable(p, l, "Offer_service")
        BY Zenon DEF RecvOffer
    <2> QED
        BY Zenon, <2>1, ReceiveTyped, FieldsTyped DEF TypeOK
<1>3. ConnectOffers(p, k, st, Popped(p, l), To({}, <<>>), Idle)
    BY Zenon DEF RecvOffer
<1>4. UNCHANGED <<transportVars, connections, mapping, local_offers, interested,
                  allocations, socomVars, spent>>
    BY Zenon DEF RecvOffer
<1> HIDE DEF c, k
<1>5. st \in ServiceState
    <2>1. state[p][k] \in ServiceState
        BY Zenon, <1>2, MembersTyped
    <2>2. \A o \in OfferState : [o EXCEPT !.offered = TRUE] \in OfferState
        BY Zenon DEF OfferState
    <2> QED
        BY Zenon, <1>1, <2>1, <2>2 DEF ServiceState
<1>6. Idle \in EngineStep /\ To({}, <<>>) \in Outgoing
    <2>1. <<>> \in Seq(Message)
        BY Zenon, EmptyTyped
    <2> QED
        BY Zenon, <2>1, ToTyped DEF EngineStep
<1> HIDE DEF st
<1>7. /\ engine' \in Engines /\ state' \in States /\ pending' \in Pendings
      /\ next_id' \in [Proc -> Nat] /\ chan' \in Channels
    BY Zenon, <1>2, <1>3, <1>5, <1>6, ConnectOffersTyped DEF TypeOK, Engines, States, Pendings
<1> QED
    BY Zenon, <1>4, <1>7 DEF TypeOK, Engines, States, Pendings, transportVars, socomVars

\* handle_offer_service_message, no longer offered.
LEMMA RecvUnofferTyped ==
    ASSUME TypeOK, NEW p \in Proc, NEW l \in Conn, RecvUnoffer(p, l)
    PROVE  TypeOK'
<1> DEFINE c == ClientOf(p, l)
           k == Head(chan[l][Near(p)]).key
           after == [state[p][k] EXCEPT !.exists = TRUE, !.ec = FALSE, !.offers[c] = NoOffer,
                                        !.subscriptions = NoSubscriptions]
<1>1. c \in ClientId
    BY Zenon, ClientOfTyped
<1>2. k \in Key /\ chan' \in Channels
    <2>1. Deliverable(p, l, "Offer_service") /\ chan' = Popped(p, l)
        BY Zenon DEF RecvUnoffer
    <2> QED
        BY Zenon, <2>1, ReceiveTyped, FieldsTyped DEF TypeOK
<1>3. /\ state' = [state EXCEPT ![p][k] =
              [@ EXCEPT !.exists = TRUE, !.ec = FALSE, !.offers[c] = NoOffer,
                        !.subscriptions = NoSubscriptions]]
      /\ server' = [server EXCEPT ![p][k] = IF state[p][k].ec THEN NoServer ELSE @]
      /\ mapping' = MappingWithoutKey(p, k)
      /\ pending' = [pending EXCEPT ![p] = {q \in @ : ~(q.key = k /\ q.client = c)}]
    BY Zenon DEF RecvUnoffer
<1>4. UNCHANGED <<transportVars, connections, local_offers, interested, next_id,
                  allocations, engine, client, bridged, subscribed, held, failed, spent>>
    BY Zenon DEF RecvUnoffer
<1> HIDE DEF c, k
<1>5. after \in ServiceState
    <2>1. state[p][k] \in ServiceState
        BY Zenon, <1>2, MembersTyped
    <2>2. NoOffer \in OfferState /\ NoSubscriptions \in [Event -> SUBSET Endpoint]
        BY Zenon DEF NoOffer, OfferState, NoSubscriptions
    <2> QED
        BY Zenon, <2>1, <2>2 DEF ServiceState
<1>6. state' \in States
    <2>1. state' = [state EXCEPT ![p][k] = after]
        BY Zenon, <1>2, <1>3 DEF TypeOK
    <2> HIDE DEF after
    <2> QED
        BY Zenon, <1>5, <2>1 DEF TypeOK, States
<1>7. server' \in [Proc -> [Key -> ServerConnector]]
    <2>1. NoServer \in ServerConnector
        BY Zenon, NoServerTyped
    <2> QED
        BY Zenon, <1>2, <1>3, <2>1 DEF TypeOK
<1>8. mapping' \in Mappings /\ AllFinite(mapping')
    BY Zenon, <1>3, WithoutKeyTyped DEF TypeOK, Mappings, AllFinite
<1>9. pending' \in Pendings
    BY Zenon, <1>3 DEF TypeOK, Pendings
<1> QED
    BY Zenon, <1>2, <1>4, <1>6, <1>7, <1>8, <1>9
       DEF TypeOK, States, Mappings, AllFinite, Pendings, transportVars

\* Adding to one client's vector keeps all vectors typed and finite.
LEMMA MappingAddedTyped ==
    ASSUME mapping \in Mappings, AllFinite(mapping), NEW p \in Proc, NEW c \in ClientId,
           NEW k \in Key, NEW local \in Nat, NEW remote \in Nat,
           mapping' = [mapping EXCEPT ![p][c] = Added(@, k, local, remote)]
    PROVE  mapping' \in Mappings /\ AllFinite(mapping')
<1>1. mapping[p][c] \in SUBSET Ids /\ IsFiniteSet(mapping[p][c])
    BY Zenon DEF Mappings, AllFinite
<1>2. Added(mapping[p][c], k, local, remote) \in SUBSET Ids
      /\ IsFiniteSet(Added(mapping[p][c], k, local, remote))
    BY Zenon, <1>1, AddedTyped
<1> QED
    BY Zenon, <1>2 DEF Mappings, AllFinite

\* handle_connect_service_message.
LEMMA RecvConnectServiceTyped ==
    ASSUME TypeOK, NEW p \in Proc, NEW l \in Conn, RecvConnectService(p, l)
    PROVE  TypeOK'
<1> DEFINE c == ClientOf(p, l)
           m == Head(chan[l][Near(p)])
<1>1. c \in ClientId
    BY Zenon, ClientOfTyped
<1>2. m.key \in Key /\ m.required \in Nat /\ Popped(p, l) \in Channels
    <2>1. Deliverable(p, l, "Connect_service")
        BY Zenon DEF RecvConnectService
    <2> QED
        BY Zenon, <2>1, ReceiveTyped, FieldsTyped DEF TypeOK
<1>3. /\ next_id' = [next_id EXCEPT ![p] = @ + 1]
      /\ mapping' = [mapping EXCEPT ![p][c] = Added(@, m.key, next_id[p], m.required)]
      /\ chan' = Post(Popped(p, l), p, To({d \in {c} : state[p][m.key].exists},
                                         <<ConnectServiceReply(m.required, next_id[p])>>))
      /\ engine' = [engine EXCEPT ![p] = IF state[p][m.key].exists THEN @ ELSE Dead]
    BY Zenon DEF RecvConnectService, Advanced
<1>4. UNCHANGED <<transportVars, connections, state, pending, local_offers, interested,
                  allocations, socomVars, spent>>
    BY Zenon DEF RecvConnectService
<1> HIDE DEF c, m
<1>5. next_id[p] \in Nat /\ next_id' \in [Proc -> Nat]
    <2>1. next_id \in [Proc -> Nat]
        BY Zenon DEF TypeOK
    <2> QED
        BY <1>3, <2>1
<1>6. mapping' \in Mappings /\ AllFinite(mapping')
    BY Zenon, <1>1, <1>2, <1>3, <1>5, MappingAddedTyped DEF TypeOK, Mappings, AllFinite
<1>7. chan' \in Channels
    <2>1. ConnectServiceReply(m.required, next_id[p]) \in Message
        BY Zenon, <1>2, <1>5 DEF ConnectServiceReply, Message, Handle
    <2>2. <<ConnectServiceReply(m.required, next_id[p])>> \in Seq(Message)
        BY <2>1
    <2> QED
        BY Zenon, <1>2, <1>3, <2>2, ToTyped, PostTyped
<1>8. engine' \in Engines
    BY Zenon, <1>3 DEF TypeOK, Engines, EngineStep
<1> QED
    BY Zenon, <1>4, <1>5, <1>6, <1>7, <1>8
       DEF TypeOK, Engines, Mappings, AllFinite, transportVars, socomVars

\* handle_connect_service_reply_message, first critical section.
LEMMA RecvConnectServiceReplyTyped ==
    ASSUME TypeOK, NEW p \in Proc, NEW l \in Conn, RecvConnectServiceReply(p, l)
    PROVE  TypeOK'
<1> DEFINE c == ClientOf(p, l)
           m == Head(chan[l][Near(p)])
           asked == {q \in pending[p] : q.id = m.required /\ q.client = c}
           found == \E q \in asked : state[p][q.key].exists
<1>1. c \in ClientId
    BY Zenon, ClientOfTyped
<1>2. m.required \in Nat /\ m.provided \in Nat /\ chan' \in Channels
    <2>1. Deliverable(p, l, "Connect_service_reply") /\ chan' = Popped(p, l)
        BY Zenon DEF RecvConnectServiceReply
    <2> QED
        BY Zenon, <2>1, ReceiveTyped, FieldsTyped DEF TypeOK
<1>3. pending' = [pending EXCEPT ![p] = @ \ asked]
    BY Zenon DEF RecvConnectServiceReply
<1>4. UNCHANGED <<transportVars, connections, state, local_offers, interested, next_id,
                  allocations, socomVars, spent>>
    BY Zenon DEF RecvConnectServiceReply
<1>5. IF found
      THEN \E q \in asked :
             /\ mapping' = [mapping EXCEPT ![p][c] = Added(@, q.key, m.provided, m.required)]
             /\ engine' = [engine EXCEPT ![p] =
                    [step |-> "make", key |-> q.key, client |-> c,
                     provided |-> m.provided, dangling |-> FALSE]]
      ELSE UNCHANGED <<mapping, engine>>
    BY Zenon DEF RecvConnectServiceReply
<1> HIDE DEF c, m
<1>6. pending' \in Pendings
    BY Zenon, <1>3 DEF TypeOK, Pendings
<1>7. CASE found
    <2>1. PICK q \in asked :
             /\ mapping' = [mapping EXCEPT ![p][c] = Added(@, q.key, m.provided, m.required)]
             /\ engine' = [engine EXCEPT ![p] =
                    [step |-> "make", key |-> q.key, client |-> c,
                     provided |-> m.provided, dangling |-> FALSE]]
        BY Zenon, <1>5, <1>7
    <2>2. q.key \in Key
        BY DEF TypeOK
    <2>3. mapping' \in Mappings /\ AllFinite(mapping')
        BY Zenon, <1>1, <1>2, <2>1, <2>2, MappingAddedTyped DEF TypeOK, Mappings, AllFinite
    <2>4. engine' \in Engines
        BY Zenon, <1>1, <1>2, <2>1, <2>2 DEF TypeOK, Engines, EngineStep
    <2> QED
        BY Zenon, <1>2, <1>4, <1>6, <2>3, <2>4
           DEF TypeOK, Engines, Mappings, AllFinite, Pendings, transportVars, socomVars
<1>8. CASE ~found
    <2> HIDE DEF found
    <2> QED
        BY Zenon, <1>2, <1>4, <1>5, <1>6, <1>8 DEF TypeOK, Pendings, transportVars, socomVars
<1> QED
    BY Zenon, <1>7, <1>8

\* Between its critical sections the handler knows key, client and handle.
LEMMA MakingTyped ==
    ASSUME NEW e \in EngineStep, e.step \in {"make", "add"}
    PROVE  e \in [step : {"make", "add"}, key : Key, client : ClientId, provided : Nat,
                  dangling : BOOLEAN]
<1>1. e # Idle /\ e # Dead
    BY DEF Idle, Dead
<1>2. e \notin [step : {"resend"}, client : ClientId]
    BY Zenon
<1> QED
    BY Zenon, <1>1, <1>2 DEF EngineStep

\* handle_connect_service_reply_message, between the critical sections.
LEMMA MakeConnectorTyped ==
    ASSUME TypeOK, NEW p \in Proc, MakeConnector(p)
    PROVE  TypeOK'
<1> DEFINE e == engine[p]
           waiting == client[p][e.key] = "app" /\ e.client \in connections[p]
<1>1. e \in [step : {"make", "add"}, key : Key, client : ClientId, provided : Nat,
             dangling : BOOLEAN]
    <2>1. e \in EngineStep
        BY Zenon DEF TypeOK
    <2>2. e.step = "make"
        BY Zenon DEF MakeConnector
    <2> QED
        BY Zenon, <2>1, <2>2, MakingTyped
<1>2. UNCHANGED <<transportVars, bindingVars, allocations, client, bridged, subscribed,
                  held, spent>>
    BY Zenon DEF MakeConnector
<1>3. \/ /\ server' = [server EXCEPT ![p][e.key] =
                [kind |-> "binding", client |-> e.client, provided |-> e.provided]]
         /\ chan' = Post(chan, p, To({c \in {e.client} : waiting},
                                    Subscriptions(e.provided, e.key, TRUE)))
         /\ \E after \in {[e EXCEPT !.step = "add"]} \cup {d \in {Dead} : e.dangling} :
                engine' = [engine EXCEPT ![p] = after]
      \/ /\ engine' = [engine EXCEPT ![p] = Idle]
         /\ UNCHANGED <<server, chan>>
    BY Zenon DEF MakeConnector
<1>4. CASE /\ server' = [server EXCEPT ![p][e.key] =
                  [kind |-> "binding", client |-> e.client, provided |-> e.provided]]
           /\ chan' = Post(chan, p, To({c \in {e.client} : waiting},
                                      Subscriptions(e.provided, e.key, TRUE)))
           /\ \E after \in {[e EXCEPT !.step = "add"]} \cup {d \in {Dead} : e.dangling} :
                  engine' = [engine EXCEPT ![p] = after]
    <2>1. PICK after \in {[e EXCEPT !.step = "add"]} \cup {d \in {Dead} : e.dangling} :
              engine' = [engine EXCEPT ![p] = after]
        BY Zenon, <1>4
    <2> HIDE DEF e
    <2>2. after \in EngineStep
        BY <1>1 DEF EngineStep
    <2>3. engine' \in Engines
        BY SMTT(30), <2>1, <2>2 DEF TypeOK, Engines
    <2>4. chan' \in Channels
        <3>1. Subscriptions(e.provided, e.key, TRUE) \in Seq(Message)
            BY Zenon, <1>1, SubscriptionsTyped
        <3> HIDE DEF waiting
        <3> QED
            BY Zenon, <1>4, <3>1, ToTyped, PostTyped DEF TypeOK
    <2>5. server' \in [Proc -> [Key -> ServerConnector]]
        <3>1. [kind |-> "binding", client |-> e.client, provided |-> e.provided]
                  \in ServerConnector
            BY Zenon, <1>1 DEF ServerConnector
        <3> QED
            BY SMTT(30), <1>1, <1>4, <3>1 DEF TypeOK
    <2> QED
        BY Zenon, <1>2, <2>3, <2>4, <2>5 DEF TypeOK, Engines, transportVars, bindingVars
<1>5. CASE engine' = [engine EXCEPT ![p] = Idle] /\ UNCHANGED <<server, chan>>
    <2>1. engine' \in Engines
        BY Zenon, <1>5 DEF TypeOK, Engines, EngineStep
    <2> QED
        BY Zenon, <1>2, <1>5, <2>1 DEF TypeOK, Engines, transportVars, bindingVars
<1> QED
    BY Zenon, <1>3, <1>4, <1>5

\* handle_connect_service_reply_message, second critical section.
LEMMA AddConnectorTyped ==
    ASSUME TypeOK, NEW p \in Proc, AddConnector(p)
    PROVE  TypeOK'
<1> DEFINE k == engine[p].key
<1>1. k \in Key
    <2>1. engine[p] \in EngineStep
        BY Zenon DEF TypeOK
    <2>2. engine[p].step = "add"
        BY Zenon DEF AddConnector
    <2> QED
        BY Zenon, <2>1, <2>2, MakingTyped
<1>2. engine' \in Engines
    BY Zenon DEF AddConnector, TypeOK, Engines, EngineStep
<1>3. UNCHANGED <<transportVars, chan, connections, mapping, pending, local_offers,
                  interested, next_id, allocations, client, bridged, subscribed, held,
                  failed, spent>>
    BY Zenon DEF AddConnector
<1>4. IF state[p][k].exists
      THEN state' = [state EXCEPT ![p][k].ec = TRUE] /\ UNCHANGED server
      ELSE server' = [server EXCEPT ![p][k] = NoServer] /\ UNCHANGED state
    BY Zenon DEF AddConnector
<1> HIDE DEF k
<1>5. state' \in States
    <2> DEFINE after == [state[p][k] EXCEPT !.ec = TRUE]
    <2>1. state[p][k] \in ServiceState
        BY Zenon, <1>1, MembersTyped
    <2>2. after \in ServiceState
        BY Zenon, <2>1 DEF ServiceState
    <2>3. state' = [state EXCEPT ![p][k] = after] \/ state' = state
        BY Zenon, <1>4
    <2> HIDE DEF after
    <2>4. [state EXCEPT ![p][k] = after] \in States
        <3>1. state \in [Proc -> [Key -> ServiceState]]
            BY Zenon DEF TypeOK
        <3> QED
            BY Zenon, <2>2, <3>1, EntryTyped DEF States
    <2> QED
        BY Zenon, <2>3, <2>4 DEF TypeOK, States
<1>6. server' \in [Proc -> [Key -> ServerConnector]]
    <2>1. NoServer \in ServerConnector
        BY Zenon, NoServerTyped
    <2>2. server' = [server EXCEPT ![p][k] = NoServer] \/ server' = server
        BY Zenon, <1>4
    <2>3. [server EXCEPT ![p][k] = NoServer] \in [Proc -> [Key -> ServerConnector]]
        <3>1. server \in [Proc -> [Key -> ServerConnector]]
            BY Zenon DEF TypeOK
        <3> QED
            BY Zenon, <2>1, <3>1, EntryTyped
    <2> QED
        BY Zenon, <2>2, <2>3 DEF TypeOK
<1> QED
    BY Zenon, <1>2, <1>3, <1>5, <1>6 DEF TypeOK, Engines, States, transportVars

\* handle_subscribe_event_message.
LEMMA RecvSubscribeTyped ==
    ASSUME TypeOK, NEW p \in Proc, NEW l \in Conn, RecvSubscribe(p, l)
    PROVE  TypeOK'
<1> DEFINE c == ClientOf(p, l)
           m == Head(chan[l][Near(p)])
           known == LocalAt(mapping[p][c], m.provided) # {}
           k == First(LocalAt(mapping[p][c], m.provided)).key
           before == state[p][k].subscriptions[m.event]
           endpoint == [client |-> c, provided |-> m.provided]
           after == IF m.subscribe THEN before \cup {endpoint} ELSE before \ {endpoint}
           connected == state[p][k].cc /\ server[p][k].kind # "none"
           events == CASE before = {} /\ after # {} /\ connected ->
                              subscribed[p][k] \cup {m.event}
                       [] before # {} /\ after = {} -> subscribed[p][k] \ {m.event}
                       [] OTHER -> subscribed[p][k]
<1>1. c \in ClientId
    BY Zenon, ClientOfTyped
<1>2. m.provided \in Nat /\ m.event \in Event /\ chan' \in Channels
    <2>1. Deliverable(p, l, "Subscribe_event") /\ chan' = Popped(p, l)
        BY Zenon DEF RecvSubscribe
    <2> QED
        BY Zenon, <2>1, ReceiveTyped, FieldsTyped DEF TypeOK
<1>3. UNCHANGED <<transportVars, connections, mapping, pending, local_offers, interested,
                  next_id, allocations, engine, server, client, bridged, held, failed, spent>>
    BY Zenon DEF RecvSubscribe
<1>4. \/ /\ state' = [state EXCEPT ![p][k].subscriptions[m.event] = after]
         /\ subscribed' = [subscribed EXCEPT ![p][k] =
                CASE before = {} /\ after # {} /\ connected -> @ \cup {m.event}
                  [] before # {} /\ after = {} -> @ \ {m.event}
                  [] OTHER -> @]
      \/ UNCHANGED <<state, subscribed>>
    BY Zenon DEF RecvSubscribe
<1> HIDE DEF c, m, k
<1>5. state' \in States
    <2>1. endpoint \in Endpoint
        BY Zenon, <1>1, <1>2 DEF Endpoint
    <2>2. k \in Key => after \in SUBSET Endpoint
        <3>1. k \in Key => state[p][k] \in ServiceState
            <4>1. state \in [Proc -> [Key -> ServiceState]]
                BY Zenon DEF TypeOK
            <4> QED
                BY <4>1
        <3>2. k \in Key => before \in SUBSET Endpoint
            BY Zenon, <1>2, <3>1 DEF ServiceState
        <3> HIDE DEF before, endpoint
        <3> QED
            BY Zenon, <2>1, <3>2
    <2> HIDE DEF after
    <2>3. ASSUME NEW S \in SUBSET Endpoint, NEW st \in ServiceState
          PROVE  [st EXCEPT !.subscriptions[m.event] = S] \in ServiceState
        BY Zenon, <1>2 DEF ServiceState
    <2> DEFINE st == [state[p][k] EXCEPT !.subscriptions[m.event] = after]
    <2>4. ASSUME k \in Key PROVE st \in ServiceState
        <3>1. state[p][k] \in ServiceState
            BY Zenon, <2>4, MembersTyped
        <3> QED
            BY Zenon, <2>2, <2>3, <2>4, <3>1
    <2>5. state' = [state EXCEPT ![p][k] = st] \/ state' = state
        BY Zenon, <1>4
    <2> HIDE DEF st
    <2>6. [state EXCEPT ![p][k] = st] \in States
        <3>1. state \in [Proc -> [Key -> ServiceState]]
            BY Zenon DEF TypeOK
        <3> QED
            BY Zenon, <2>4, <3>1, EntryTyped DEF States
    <2> QED
        BY Zenon, <2>5, <2>6 DEF TypeOK, States
<1>6. subscribed' \in [Proc -> [Key -> SUBSET Event]]
    <2> HIDE DEF before, after, connected
    <2>1. k \in Key => events \in SUBSET Event
        BY <1>2 DEF TypeOK
    <2>2. subscribed' = [subscribed EXCEPT ![p][k] = events] \/ subscribed' = subscribed
        BY Zenon, <1>4
    <2> HIDE DEF events
    <2>3. [subscribed EXCEPT ![p][k] = events] \in [Proc -> [Key -> SUBSET Event]]
        <3>1. subscribed \in [Proc -> [Key -> SUBSET Event]]
            BY Zenon DEF TypeOK
        <3> QED
            BY Zenon, <2>1, <3>1, EntryTyped
    <2> QED
        BY Zenon, <2>2, <2>3 DEF TypeOK
<1> QED
    BY Zenon, <1>2, <1>3, <1>5, <1>6 DEF TypeOK, States, transportVars

\* handle_event_update_message.
LEMMA RecvEventUpdateTyped ==
    ASSUME TypeOK, NEW p \in Proc, NEW l \in Conn, RecvEventUpdate(p, l)
    PROVE  TypeOK'
<1> DEFINE c == ClientOf(p, l)
           m == Head(chan[l][Near(p)])
           known == RemoteAt(mapping[p][c], m.required) # {}
           k == First(RemoteAt(mapping[p][c], m.required)).key
           payload == [client |-> c, required |-> m.required, slot |-> m.slot, key |-> m.key]
           taken == client[p][k] = "app"
           reply == {d \in {c} : known /\ state[p][k].ec /\ ~taken /\ c \in connections[p]}
<1>1. c \in ClientId
    BY Zenon, ClientOfTyped
<1>2. m.required \in Nat /\ m.slot \in Slot /\ m.key \in Key /\ Popped(p, l) \in Channels
    <2>1. Deliverable(p, l, "Event_update")
        BY Zenon DEF RecvEventUpdate
    <2> QED
        BY Zenon, <2>1, ReceiveTyped, FieldsTyped DEF TypeOK
<1>3. /\ held' = [held EXCEPT ![p] =
                IF known /\ state[p][k].ec /\ taken THEN @ \cup {payload} ELSE @]
      /\ chan' = Post(Popped(p, l), p, To(reply, <<PayloadConsumed(m.required, m.slot, m.key)>>))
    BY Zenon DEF RecvEventUpdate
<1>4. UNCHANGED <<transportVars, bindingVars, allocations, engine, server, client, bridged,
                  subscribed, spent>>
    BY Zenon DEF RecvEventUpdate
<1> HIDE DEF c, m, k, known, taken, reply
<1>5. held' \in [Proc -> SUBSET [client : ClientId, required : Nat, slot : Slot, key : Key]]
    <2>1. payload \in [client : ClientId, required : Nat, slot : Slot, key : Key]
        BY Zenon, <1>1, <1>2
    <2> HIDE DEF payload
    <2> QED
        BY Zenon, <1>3, <2>1 DEF TypeOK
<1>6. chan' \in Channels
    <2>1. PayloadConsumed(m.required, m.slot, m.key) \in Message
        BY Zenon, <1>2 DEF PayloadConsumed, Message, Handle
    <2>2. <<PayloadConsumed(m.required, m.slot, m.key)>> \in Seq(Message)
        BY <2>1
    <2> QED
        BY Zenon, <1>2, <1>3, <2>2, ToTyped, PostTyped
<1> QED
    BY Zenon, <1>4, <1>5, <1>6 DEF TypeOK, transportVars, bindingVars

\* handle_payload_consumed_message.
LEMMA RecvPayloadConsumedTyped ==
    ASSUME TypeOK, NEW p \in Proc, NEW l \in Conn, RecvPayloadConsumed(p, l)
    PROVE  TypeOK'
<1> DEFINE m == Head(chan[l][Near(p)])
           k == First(RemoteAt(mapping[p][ClientOf(p, l)], m.required)).key
<1>1. m.slot \in Slot /\ chan' \in Channels
    <2>1. Deliverable(p, l, "Payload_consumed") /\ chan' = Popped(p, l)
        BY Zenon DEF RecvPayloadConsumed
    <2> QED
        BY Zenon, <2>1, ReceiveTyped, FieldsTyped DEF TypeOK
<1>2. \/ allocations[p][k][m.slot] > 0
         /\ allocations' = [allocations EXCEPT ![p][k][m.slot] = @ - 1]
      \/ UNCHANGED allocations
    BY Zenon DEF RecvPayloadConsumed
<1>3. UNCHANGED <<transportVars, bindingVars, engine, socomVars, failed, spent>>
    BY Zenon DEF RecvPayloadConsumed
<1> HIDE DEF m, k
<1>4. allocations' \in [Proc -> [Key -> [Slot -> Nat]]]
    <2>1. CASE UNCHANGED allocations
        BY Zenon, <2>1 DEF TypeOK
    <2>2. CASE allocations[p][k][m.slot] > 0
               /\ allocations' = [allocations EXCEPT ![p][k][m.slot] = @ - 1]
        <3> DEFINE left == [allocations[p][k] EXCEPT ![m.slot] = @ - 1]
        <3>1. k \in Key => left \in [Slot -> Nat]
            <4>1. allocations \in [Proc -> [Key -> [Slot -> Nat]]]
                BY Zenon DEF TypeOK
            <4> QED
                BY <1>1, <2>2, <4>1
        <3>2. allocations' = [allocations EXCEPT ![p][k] = left]
            BY Zenon, <2>2
        <3> HIDE DEF left
        <3> QED
            BY Zenon, <3>1, <3>2, EntryTyped DEF TypeOK
    <2> QED
        BY Zenon, <1>2, <2>1, <2>2
<1> QED
    BY Zenon, <1>1, <1>3, <1>4 DEF TypeOK, transportVars, bindingVars, socomVars

-----------------------------------------------------------------------------
(* Applications and restarts.                                               *)

\* An application enables its server connector.
LEMMA AppOfferTyped ==
    ASSUME TypeOK, NEW p \in Proc, NEW k \in Key, AppOffer(p, k)
    PROVE  TypeOK'
<1>1. spent' \in [EnvStep -> Nat]
    <2>1. Spend("offer") /\ "offer" \in EnvStep
        BY Zenon DEF AppOffer, EnvStep
    <2>2. spent \in [EnvStep -> Nat]
        BY Zenon DEF TypeOK
    <2> QED
        BY Zenon, <2>1, <2>2, SpendTyped
<1>2. server' \in [Proc -> [Key -> ServerConnector]]
    <2>1. AppServer \in ServerConnector
        BY BoundAssumption DEF AppServer, NoServer, ServerConnector, ClientId
    <2> QED
        BY Zenon, <2>1 DEF AppOffer, TypeOK
<1>3. UNCHANGED <<transportVars, connections, pending, interested, next_id, allocations,
                  client, bridged, subscribed, held>>
    BY Zenon DEF AppOffer
<1>4. CASE client[p][k] = "binding"
    <2>1. /\ Announce(p, k, state[p][k], interested[p][k], TRUE, chan)
          /\ Dereference(p, interested[p][k], engine[p])
        BY Zenon, <1>4 DEF AppOffer
    <2>2. state[p][k] \in ServiceState /\ engine[p] \in EngineStep
        BY Zenon, MembersTyped
    <2>3. engine' \in Engines
        BY Zenon, <2>1, <2>2, DereferenceTyped DEF TypeOK, Engines
    <2>4. /\ mapping' \in Mappings /\ AllFinite(mapping')
          /\ local_offers' \in [Proc -> SUBSET Key]
          /\ state' \in States /\ chan' \in Channels
        BY Zenon, <2>1, <2>2, AnnounceTyped DEF TypeOK, Mappings, AllFinite, States
    <2> QED
        BY Zenon, <1>1, <1>2, <1>3, <2>3, <2>4
           DEF TypeOK, States, Mappings, AllFinite, Engines, transportVars
<1>5. CASE client[p][k] # "binding"
    <2>1. UNCHANGED <<mapping, local_offers, state, chan, engine, failed>>
        BY Zenon, <1>5 DEF AppOffer
    <2> QED
        BY Zenon, <1>1, <1>2, <1>3, <2>1 DEF TypeOK, transportVars
<1> QED
    BY Zenon, <1>4, <1>5

\* An application disables its server connector.
LEMMA AppStopTyped ==
    ASSUME TypeOK, NEW p \in Proc, NEW k \in Key, AppStop(p, k)
    PROVE  TypeOK'
<1>1. spent' \in [EnvStep -> Nat]
    <2>1. Spend("stop") /\ "stop" \in EnvStep
        BY Zenon DEF AppStop, EnvStep
    <2>2. spent \in [EnvStep -> Nat]
        BY Zenon DEF TypeOK
    <2> QED
        BY Zenon, <2>1, <2>2, SpendTyped
<1>2. server' \in [Proc -> [Key -> ServerConnector]]
    <2>1. NoServer \in ServerConnector
        BY Zenon, NoServerTyped
    <2> QED
        BY Zenon, <2>1 DEF AppStop, TypeOK
<1>3. subscribed' \in [Proc -> [Key -> SUBSET Event]]
    BY Zenon DEF AppStop, TypeOK
<1>4. UNCHANGED <<transportVars, connections, pending, interested, next_id, allocations,
                  client, bridged, held>>
    BY Zenon DEF AppStop
<1>5. CASE client[p][k] = "binding"
    <2>1. /\ Announce(p, k, state[p][k], interested[p][k], FALSE, chan)
          /\ Dereference(p, interested[p][k], engine[p])
        BY Zenon, <1>5 DEF AppStop
    <2>2. state[p][k] \in ServiceState /\ engine[p] \in EngineStep
        BY Zenon, MembersTyped
    <2>3. engine' \in Engines
        BY Zenon, <2>1, <2>2, DereferenceTyped DEF TypeOK, Engines
    <2>4. /\ mapping' \in Mappings /\ AllFinite(mapping')
          /\ local_offers' \in [Proc -> SUBSET Key]
          /\ state' \in States /\ chan' \in Channels
        BY Zenon, <2>1, <2>2, AnnounceTyped DEF TypeOK, Mappings, AllFinite, States
    <2> QED
        BY Zenon, <1>1, <1>2, <1>3, <1>4, <2>3, <2>4
           DEF TypeOK, States, Mappings, AllFinite, Engines, transportVars
<1>6. CASE client[p][k] # "binding"
    <2>1. UNCHANGED <<mapping, local_offers, state, chan, engine, failed>>
        BY Zenon, <1>6 DEF AppStop
    <2> QED
        BY Zenon, <1>1, <1>2, <1>3, <1>4, <2>1 DEF TypeOK, transportVars
<1> QED
    BY Zenon, <1>5, <1>6

\* An application requests a service that is not there.
LEMMA AppRequestTyped ==
    ASSUME TypeOK, NEW p \in Proc, NEW k \in Key, AppRequest(p, k)
    PROVE  TypeOK'
<1> DEFINE st == [state[p][k] EXCEPT !.exists = TRUE, !.requested = TRUE]
           out == To(connections[p], <<RequestService(k, TRUE)>>)
<1>1. spent' \in [EnvStep -> Nat]
    <2>1. Spend("request") /\ "request" \in EnvStep
        BY Zenon DEF AppRequest, EnvStep
    <2>2. spent \in [EnvStep -> Nat]
        BY Zenon DEF TypeOK
    <2> QED
        BY Zenon, <2>1, <2>2, SpendTyped
<1>2. /\ client' \in [Proc -> [Key -> {"none", "app", "binding"}]]
      /\ bridged' \in [Proc -> [Key -> BOOLEAN]]
    BY Zenon DEF AppRequest, TypeOK
<1>3. UNCHANGED <<transportVars, connections, mapping, local_offers, interested, allocations,
                  server, subscribed, held>>
    BY Zenon DEF AppRequest
<1>4. ConnectOffers(p, k, st, chan, out, engine[p])
    BY Zenon DEF AppRequest
<1>5. st \in ServiceState
    <2>1. state[p][k] \in ServiceState
        BY Zenon, MembersTyped
    <2> QED
        BY Zenon, <2>1 DEF ServiceState
<1>6. out \in Outgoing
    <2>1. RequestService(k, TRUE) \in Message
        BY Zenon DEF RequestService, Message
    <2>2. <<RequestService(k, TRUE)>> \in Seq(Message)
        BY Zenon, <2>1, SingletonTyped
    <2> QED
        BY Zenon, <2>2, ToTyped
<1> HIDE DEF st, out
<1>7. engine[p] \in EngineStep
    BY Zenon DEF TypeOK
<1>8. /\ engine' \in Engines /\ state' \in States /\ pending' \in Pendings
      /\ next_id' \in [Proc -> Nat] /\ chan' \in Channels
    BY Zenon, <1>4, <1>5, <1>6, <1>7, ConnectOffersTyped DEF TypeOK, Engines, States, Pendings
<1> QED
    BY Zenon, <1>1, <1>2, <1>3, <1>8 DEF TypeOK, Engines, States, Pendings, transportVars

\* An application requests a service that is there.
LEMMA AppRequestPresentTyped ==
    ASSUME TypeOK, NEW p \in Proc, NEW k \in Key, AppRequestPresent(p, k)
    PROVE  TypeOK'
<1> DEFINE s == server[p][k]
<1>1. spent' \in [EnvStep -> Nat]
    <2>1. Spend("request") /\ "request" \in EnvStep
        BY Zenon DEF AppRequestPresent, EnvStep
    <2>2. spent \in [EnvStep -> Nat]
        BY Zenon DEF TypeOK
    <2> QED
        BY Zenon, <2>1, <2>2, SpendTyped
<1>2. client' \in [Proc -> [Key -> {"none", "app", "binding"}]]
    BY Zenon DEF AppRequestPresent, TypeOK
<1>3. UNCHANGED <<transportVars, bindingVars, allocations, engine, server, bridged,
                  subscribed, held, failed>>
    BY Zenon DEF AppRequestPresent
<1>4. chan' = Post(chan, p, To({s.client} \cap connections[p],
                              Subscriptions(s.provided, k, TRUE)))
    BY Zenon DEF AppRequestPresent
<1>5. s.provided \in Nat
    <2>1. server \in [Proc -> [Key -> ServerConnector]]
        BY Zenon DEF TypeOK
    <2>2. s \in ServerConnector
        BY <2>1
    <2> QED
        BY <2>2 DEF ServerConnector
<1>6. chan' \in Channels
    BY Zenon, <1>4, <1>5, SubscriptionsTyped, ToTyped, PostTyped DEF TypeOK
<1> QED
    BY Zenon, <1>1, <1>2, <1>3, <1>6 DEF TypeOK, transportVars, bindingVars

\* An application's request is refused.
LEMMA AppRequestRefusedTyped ==
    ASSUME TypeOK, NEW p \in Proc, NEW k \in Key, AppRequestRefused(p, k)
    PROVE  TypeOK'
<1>1. spent' \in [EnvStep -> Nat]
    <2>1. Spend("request") /\ "request" \in EnvStep
        BY Zenon DEF AppRequestRefused, EnvStep
    <2>2. spent \in [EnvStep -> Nat]
        BY Zenon DEF TypeOK
    <2> QED
        BY Zenon, <2>1, <2>2, SpendTyped
<1> QED
    BY Zenon, <1>1 DEF AppRequestRefused, TypeOK, transportVars, bindingVars, socomVars

\* An application destroys its client connector.
LEMMA AppWithdrawTyped ==
    ASSUME TypeOK, NEW p \in Proc, NEW k \in Key, AppWithdraw(p, k)
    PROVE  TypeOK'
<1> DEFINE s == server[p][k]
           b == bridged[p][k]
           unsubscribe == To({c \in {s.client} \cap connections[p] : s.kind = "binding"},
                             Subscriptions(s.provided, k, FALSE))
           unrequest == To({c \in connections[p] : b}, <<RequestService(k, FALSE)>>)
           freed == b /\ engine[p].step = "make" /\ engine[p].key = k
<1>1. spent' \in [EnvStep -> Nat]
    <2>1. Spend("withdraw") /\ "withdraw" \in EnvStep
        BY Zenon DEF AppWithdraw, EnvStep
    <2>2. spent \in [EnvStep -> Nat]
        BY Zenon DEF TypeOK
    <2> QED
        BY Zenon, <2>1, <2>2, SpendTyped
<1>2. /\ client' \in [Proc -> [Key -> {"none", "app", "binding"}]]
      /\ bridged' \in [Proc -> [Key -> BOOLEAN]]
    BY Zenon DEF AppWithdraw, TypeOK
<1>3. UNCHANGED <<transportVars, connections, local_offers, interested, next_id,
                  allocations, subscribed, held, failed>>
    BY Zenon DEF AppWithdraw
<1>4. chan' \in Channels
    <2>1. s.provided \in Nat
        BY Zenon, MembersTyped DEF ServerConnector
    <2>2. unsubscribe \in Outgoing
        BY Zenon, <2>1, SubscriptionsTyped, ToTyped
    <2>3. RequestService(k, FALSE) \in Message
        BY Zenon DEF RequestService, Message
    <2>4. <<RequestService(k, FALSE)>> \in Seq(Message)
        BY Zenon, <2>3, SingletonTyped
    <2>5. unrequest \in Outgoing
        BY Zenon, <2>4, ToTyped
    <2>6. chan' = Post(chan, p, [c \in ClientId |-> unsubscribe[c] \o unrequest[c]])
        BY Zenon DEF AppWithdraw
    <2> HIDE DEF unsubscribe, unrequest
    <2>7. [c \in ClientId |-> unsubscribe[c] \o unrequest[c]] \in Outgoing
        BY <2>2, <2>5 DEF Outgoing
    <2> QED
        BY SMTT(30), <2>6, <2>7, PostTyped DEF TypeOK
<1>5. state' \in States
    <2>1. NoState \in ServiceState
        BY Zenon DEF NoState, NoOffer, NoSubscriptions, ServiceState, OfferState
    <2>2. state \in [Proc -> [Key -> ServiceState]]
        BY Zenon DEF TypeOK
    <2>3. state' = [state EXCEPT ![p][k] = NoState] \/ state' = state
        BY Zenon DEF AppWithdraw
    <2>4. [state EXCEPT ![p][k] = NoState] \in States
        BY Zenon, <2>1, <2>2, EntryTyped DEF States
    <2> QED
        BY Zenon, <2>2, <2>3, <2>4 DEF States
<1>6. server' \in [Proc -> [Key -> ServerConnector]]
    <2>1. NoServer \in ServerConnector
        BY Zenon, NoServerTyped
    <2>2. server \in [Proc -> [Key -> ServerConnector]]
        BY Zenon DEF TypeOK
    <2>3. server' = [server EXCEPT ![p][k] = NoServer] \/ server' = server
        BY Zenon DEF AppWithdraw
    <2>4. [server EXCEPT ![p][k] = NoServer] \in [Proc -> [Key -> ServerConnector]]
        BY Zenon, <2>1, <2>2, EntryTyped
    <2> QED
        BY Zenon, <2>2, <2>3, <2>4
<1>7. mapping' \in Mappings /\ AllFinite(mapping')
    <2>1. mapping' = MappingWithoutKey(p, k) \/ mapping' = mapping
        BY Zenon DEF AppWithdraw
    <2>2. mapping \in Mappings /\ AllFinite(mapping)
        BY Zenon DEF TypeOK, Mappings, AllFinite
    <2>3. MappingWithoutKey(p, k) \in Mappings /\ AllFinite(MappingWithoutKey(p, k))
        BY Zenon, <2>2, WithoutKeyTyped
    <2> QED
        BY Zenon, <2>1, <2>2, <2>3
<1>8. pending' \in Pendings
    BY Zenon DEF AppWithdraw, TypeOK, Pendings
<1>9. engine' \in Engines
    <2>1. engine \in [Proc -> EngineStep]
        BY Zenon DEF TypeOK
    <2>2. engine' = IF freed THEN [engine EXCEPT ![p].dangling = TRUE] ELSE engine
        BY Zenon DEF AppWithdraw
    <2>3. ASSUME freed PROVE [engine[p] EXCEPT !.dangling = TRUE] \in EngineStep
        <3>1. engine[p] \in [step : {"make", "add"}, key : Key, client : ClientId,
                             provided : Nat, dangling : BOOLEAN]
            BY Zenon, <2>1, <2>3, MakingTyped
        <3> QED
            BY Zenon, <3>1 DEF EngineStep
    <2> HIDE DEF freed
    <2> QED
        BY Zenon, <2>1, <2>2, <2>3 DEF Engines
<1> QED
    BY Zenon, <1>1, <1>2, <1>3, <1>4, <1>5, <1>6, <1>7, <1>8, <1>9
       DEF TypeOK, States, Mappings, AllFinite, Pendings, Engines, transportVars

\* An application publishes an event: send_event_update.
LEMMA PublishTyped ==
    ASSUME TypeOK, NEW p \in Proc, NEW k \in Key, NEW e \in Event, NEW s \in Slot,
           Publish(p, k, e, s)
    PROVE  TypeOK'
<1> DEFINE peers == {c \in ClientId : KeyAt(mapping[p][c], k) # {}}
           reached == peers \cap connections[p]
           count == Delivered(p, reached)
<1>1. spent' \in [EnvStep -> Nat]
    <2>1. Spend("publish") /\ "publish" \in EnvStep
        BY Zenon DEF Publish, EnvStep
    <2>2. spent \in [EnvStep -> Nat]
        BY Zenon DEF TypeOK
    <2> QED
        BY Zenon, <2>1, <2>2, SpendTyped
<1>2. UNCHANGED <<transportVars, bindingVars, engine, socomVars>>
    BY Zenon DEF Publish
<1>3. allocations' \in [Proc -> [Key -> [Slot -> Nat]]]
    <2>1. count \in Nat
        BY Zenon, ClientIdsFinite DEF Delivered
    <2>2. allocations' = [allocations EXCEPT ![p][k][s] = count]
        BY Zenon DEF Publish
    <2> HIDE DEF count
    <2> QED
        BY Zenon, <2>1, <2>2 DEF TypeOK
<1>4. PICK newest \in [reached -> UNION {mapping[p][c] : c \in reached}] :
        chan' = Post(chan, p, [c \in ClientId |->
            IF c \in reached THEN <<EventUpdate(newest[c].remote, e, s, k)>> ELSE <<>>])
    BY Zenon DEF Publish
<1>5. \A c \in reached : newest[c].remote \in Nat
    <2> TAKE c \in reached
    <2>1. newest[c] \in UNION {mapping[p][d] : d \in reached}
        BY Zenon, <1>4
    <2>2. mapping \in Mappings
        BY Zenon DEF TypeOK, Mappings
    <2>3. newest[c] \in Ids
        BY <2>1, <2>2 DEF Mappings
    <2> QED
        BY Zenon, <2>3 DEF Ids
<1>6. \A c \in reached : EventUpdate(newest[c].remote, e, s, k) \in Message
    BY Zenon, <1>5 DEF EventUpdate, Message, Handle
<1> HIDE DEF reached
<1>7. \A c \in reached : <<EventUpdate(newest[c].remote, e, s, k)>> \in Seq(Message)
    BY Zenon, <1>6, SingletonTyped
<1>8. [c \in ClientId |-> IF c \in reached THEN <<EventUpdate(newest[c].remote, e, s, k)>>
                                            ELSE <<>>] \in Outgoing
    <2>1. <<>> \in Seq(Message)
        BY Zenon, EmptyTyped
    <2> QED
        BY Zenon, <1>7, <2>1 DEF Outgoing
<1>9. chan' \in Channels
    BY Zenon, <1>4, <1>8, PostTyped DEF TypeOK
<1> QED
    BY Zenon, <1>1, <1>2, <1>3, <1>9 DEF TypeOK, transportVars, bindingVars, socomVars

\* An application drops a payload: Payload_consumed is sent.
LEMMA DropPayloadTyped ==
    ASSUME TypeOK, NEW p \in Proc, NEW h \in held[p], DropPayload(p, h)
    PROVE  TypeOK'
<1>1. h.required \in Nat /\ h.slot \in Slot /\ h.key \in Key
    <2>1. h \in [client : ClientId, required : Nat, slot : Slot, key : Key]
        BY Zenon DEF TypeOK
    <2> QED
        BY Zenon, <2>1
<1>2. PayloadConsumed(h.required, h.slot, h.key) \in Message
    BY Zenon, <1>1 DEF PayloadConsumed, Message, Handle
<1>3. <<PayloadConsumed(h.required, h.slot, h.key)>> \in Seq(Message)
    BY Zenon, <1>2, SingletonTyped
<1>4. chan' \in Channels
    BY Zenon, <1>3, ToTyped, PostTyped DEF DropPayload, TypeOK
<1>5. held' \in [Proc -> SUBSET [client : ClientId, required : Nat, slot : Slot, key : Key]]
    BY Zenon DEF DropPayload, TypeOK
<1>6. UNCHANGED <<transportVars, bindingVars, allocations, engine, server, client, bridged,
                  subscribed, failed, spent>>
    BY Zenon DEF DropPayload
<1> QED
    BY Zenon, <1>4, <1>5, <1>6 DEF TypeOK, transportVars, bindingVars

\* The initial values are typed.
LEMMA ConstantsTyped ==
    /\ NoState \in ServiceState /\ NoServer \in ServerConnector
    /\ NoAllocations \in [Key -> [Slot -> Nat]] /\ Idle \in EngineStep
    /\ NoQueues \in [srv : Seq(Message), cli : Seq(Message)]
<1>1. NoState \in ServiceState
    BY Zenon DEF NoState, NoOffer, NoSubscriptions, ServiceState, OfferState
<1>2. NoServer \in ServerConnector
    BY Zenon, NoServerTyped
<1>3. NoAllocations \in [Key -> [Slot -> Nat]] /\ Idle \in EngineStep
    BY Zenon DEF NoAllocations, EngineStep
<1>4. NoQueues \in [srv : Seq(Message), cli : Seq(Message)]
    BY DEF NoQueues
<1> QED
    BY Zenon, <1>1, <1>2, <1>3, <1>4

\* A process ends and starts again.
LEMMA RestartTyped ==
    ASSUME TypeOK, NEW p \in Proc, Restart(p)
    PROVE  TypeOK'
<1>1. spent' \in [EnvStep -> Nat]
    <2>1. Spend("restart") /\ "restart" \in EnvStep
        BY Zenon DEF Restart, EnvStep
    <2>2. spent \in [EnvStep -> Nat]
        BY Zenon DEF TypeOK
    <2> QED
        BY Zenon, <2>1, <2>2, SpendTyped
<1>2. live' \subseteq Conn /\ cur' \in [Clients -> ClientId] /\ owner' = owner
    <2>1. 0 \in ClientId
        BY BoundAssumption DEF ClientId
    <2> QED
        BY Zenon, <2>1 DEF Restart, TypeOK
<1>3. chan' \in Channels
    <2> DEFINE R == [srv : Seq(Message), cli : Seq(Message)]
    <2>1. \A r \in R : [r EXCEPT ![Near(p)] = <<>>] \in R
        <3>1. Near(p) \in {"srv", "cli"} /\ <<>> \in Seq(Message)
            BY DEF Near
        <3> QED
            BY Zenon, <3>1
    <2> QED
        BY Zenon, <2>1 DEF Restart, TypeOK, Channels
<1>4. /\ connections' \in [Proc -> SUBSET ClientId]
      /\ pending' \in Pendings /\ local_offers' \in [Proc -> SUBSET Key]
      /\ interested' \in [Proc -> [Key -> SUBSET ClientId]]
      /\ next_id' \in [Proc -> Nat]
    BY Zenon DEF Restart, TypeOK, Pendings
<1>5. mapping' \in Mappings /\ AllFinite(mapping')
    <2>1. mapping' = [mapping EXCEPT ![p] = [c \in ClientId |-> {}]]
        BY Zenon DEF Restart
    <2>2. mapping' \in Mappings
        BY Zenon, <2>1 DEF TypeOK, Mappings
    <2> QED
        BY Zenon, <2>1, <2>2, FS_EmptySet DEF TypeOK, Mappings, AllFinite
<1>6. /\ state' \in States /\ allocations' \in [Proc -> [Key -> [Slot -> Nat]]]
      /\ engine' \in Engines /\ server' \in [Proc -> [Key -> ServerConnector]]
    BY Zenon, ConstantsTyped DEF Restart, TypeOK, States, Engines
<1>7. /\ client' \in [Proc -> [Key -> {"none", "app", "binding"}]]
      /\ bridged' \in [Proc -> [Key -> BOOLEAN]]
      /\ subscribed' \in [Proc -> [Key -> SUBSET Event]]
      /\ held' \in [Proc -> SUBSET [client : ClientId, required : Nat, slot : Slot, key : Key]]
    BY Zenon DEF Restart, TypeOK
<1> QED
    BY Zenon, <1>1, <1>2, <1>3, <1>4, <1>5, <1>6, <1>7
       DEF TypeOK, States, Mappings, AllFinite, Pendings, Engines

\* The initial state is typed.
LEMMA InitTyped == Init => TypeOK
<1> SUFFICES ASSUME Init PROVE TypeOK
    BY Zenon
<1>1. Server \in Proc /\ 0 \in ClientId
    BY BoundAssumption DEF Proc, ClientId
<1>2. chan \in Channels
    BY Zenon, ConstantsTyped DEF Init, Channels
<1>3. \A p \in Proc, c \in ClientId : IsFiniteSet(mapping[p][c])
    BY Zenon, FS_EmptySet DEF Init
<1> QED
    BY Zenon, <1>1, <1>2, <1>3, ConstantsTyped DEF Init, TypeOK

\* Every step of the system, and a step that changes nothing, keeps the state
\* well typed: one case per handler, callback and application call.
LEMMA StepTyped ==
    ASSUME TypeOK, [Next]_vars
    PROVE  TypeOK'
<1>1. ASSUME NEW p \in Proc, Engine(p) PROVE TypeOK'
    BY Zenon, <1>1, RecvUnrequestTyped, RecvRequestKnownTyped, RecvRequestNewTyped,
       RecvOfferTyped, RecvUnofferTyped, RecvConnectServiceTyped,
       RecvConnectServiceReplyTyped, RecvSubscribeTyped, RecvEventUpdateTyped,
       RecvPayloadConsumedTyped, MakeConnectorTyped, AddConnectorTyped DEF Engine
<1>2. ASSUME NEW p \in Proc, Application(p) PROVE TypeOK'
    BY Zenon, <1>2, AppOfferTyped, AppStopTyped, AppRequestTyped, AppRequestPresentTyped,
       AppRequestRefusedTyped, AppWithdrawTyped, PublishTyped DEF Application
<1>3. ASSUME NEW p \in Proc, Drop(p) PROVE TypeOK'
    BY Zenon, <1>3, DropPayloadTyped DEF Drop
<1>4. ASSUME ServerEngine PROVE TypeOK'
    BY Zenon, <1>4, RecvConnectTyped, ServerDisconnectTyped, ResendToClientTyped DEF ServerEngine
<1>5. ASSUME NEW g \in Clients, ClientEngine(g) PROVE TypeOK'
    BY Zenon, <1>5, RecvConnectReplyTyped, ResendToServerTyped, ClientDownTyped,
       TransportConnectTyped DEF ClientEngine
<1>6. CASE UNCHANGED vars
    BY Zenon, <1>6 DEF TypeOK, vars, transportVars, bindingVars, socomVars
<1>7. CASE Next
    BY Zenon, <1>1, <1>2, <1>3, <1>4, <1>5, <1>7, RestartTyped, LoseLinkTyped DEF Next
<1> QED
    BY Zenon, <1>6, <1>7

\* Every reachable state of the binding is well typed, for any number of
\* processes, services, events, slots and connections: handles stay numbers, the
\* vectors of Connection_metadata stay finite, and every message in a queue is
\* one the handlers of Gateway_ipc_binding_base expect.
THEOREM TypeCorrect == Spec => []TypeOK
<1>1. Init => TypeOK
    BY Zenon, InitTyped
<1>2. TypeOK /\ [Next]_vars => TypeOK'
    BY Zenon, StepTyped
<1> QED
    BY <1>1, <1>2, PTL DEF Spec

=============================================================================
