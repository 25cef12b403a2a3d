----------------------- MODULE GatewayReferenceProofs -----------------------
(***************************************************************************)
(* Nothing the server's binding records about a peer outlives the          *)
(* connection to it.  The references are taken apart by the member they    *)
(* are kept in; a step of a client process leaves the server's members     *)
(* alone, and of the server's own steps only those that take a message add *)
(* a reference, to the connection the message came on.                     *)
(***************************************************************************)
EXTENDS GatewayTypeProofs

\* The references of each member are within C.
MappedIn(vectors, C) == \A c \in ClientId : vectors[c] # {} => c \in C
PendingIn(connects, C) == \A q \in connects : q.client \in C
InterestedIn(peers, C) == \A k \in Key : peers[k] \subseteq C
OffersIn(st, C) == \A c \in ClientId : st.offers[c].offered => c \in C
SubscribersIn(st, C) == \A e \in Event : \A s \in st.subscriptions[e] : s.client \in C
StatesIn(states, C) == \A k \in Key : OffersIn(states[k], C) /\ SubscribersIn(states[k], C)

\* The same for the server's members.
AllIn(C) ==
    /\ MappedIn(mapping[Server], C)
    /\ PendingIn(pending[Server], C)
    /\ InterestedIn(interested[Server], C)
    /\ StatesIn(state[Server], C)

\* A step that leaves the members of the server's binding alone.
SameAtServer ==
    /\ connections'[Server] = connections[Server]
    /\ mapping'[Server] = mapping[Server]
    /\ pending'[Server] = pending[Server]
    /\ interested'[Server] = interested[Server]
    /\ state'[Server] = state[Server]

\* ServerReferencesLive is the conjunction of its parts, one per member of the
\* binding that remove_client_state_locked cleans up.
LEMMA PartsOfReferences ==
    ASSUME TypeOK
    PROVE  ServerReferencesLive <=> AllIn(connections[Server])
<1>1. Server \in Proc
    BY Zenon DEF Proc
<1>2. \A q \in pending[Server] : q.client \in ClientId
    <2>1. pending[Server] \subseteq [id : Nat, key : Key, client : ClientId]
        BY Zenon, <1>1 DEF TypeOK
    <2> QED
        BY <2>1
<1>3. \A k \in Key : interested[Server][k] \subseteq ClientId
    <2>1. interested \in [Proc -> [Key -> SUBSET ClientId]]
        BY Zenon DEF TypeOK
    <2> QED
        BY Zenon, <1>1, <2>1
<1>4. \A k \in Key, e \in Event : \A s \in state[Server][k].subscriptions[e] :
          s.client \in ClientId
    <2>1. \A k \in Key : state[Server][k] \in ServiceState
        <3>1. state \in [Proc -> [Key -> ServiceState]]
            BY Zenon DEF TypeOK
        <3> QED
            BY <1>1, <3>1
    <2>2. \A k \in Key, e \in Event : state[Server][k].subscriptions[e] \subseteq Endpoint
        BY Zenon, <2>1 DEF ServiceState
    <2> QED
        BY <2>2 DEF Endpoint
<1>5. ServerReferencesLive => AllIn(connections[Server])
    BY Zenon, <1>2, <1>3, <1>4 DEF ServerReferencesLive, Referenced, AllIn, MappedIn, PendingIn,
       InterestedIn, StatesIn, OffersIn, SubscribersIn
<1>6. AllIn(connections[Server]) => ServerReferencesLive
    BY ZenonT(40) DEF ServerReferencesLive, Referenced, AllIn, MappedIn, PendingIn,
       InterestedIn, StatesIn, OffersIn, SubscribersIn
<1> QED
    BY Zenon, <1>5, <1>6

\* A step that leaves the server's members alone keeps the references live.
LEMMA SameKeepsReferences ==
    ASSUME AllIn(connections[Server]), SameAtServer
    PROVE  AllIn(connections[Server])'
BY Zenon DEF AllIn, SameAtServer
-----------------------------------------------------------------------------
(* Steps of the client processes, and steps that only send or publish.      *)

\* The domains of the five members.
LEMMA MembersAreFunctions ==
    ASSUME TypeOK
    PROVE  /\ Server \in Proc
           /\ connections = [q \in Proc |-> connections[q]]
           /\ mapping = [q \in Proc |-> mapping[q]]
           /\ pending = [q \in Proc |-> pending[q]]
           /\ interested = [q \in Proc |-> interested[q]]
           /\ state = [q \in Proc |-> state[q]]
BY Zenon DEF TypeOK, Proc

\* A handler running in a client process, or an application call there, leaves
\* the server's members alone.
LEMMA ClientHandlerElsewhere ==
    ASSUME TypeOK, NEW p \in Proc, p # Server, NEW l \in Conn,
           \/ RecvUnrequest(p, l) \/ RecvRequestKnown(p, l) \/ RecvRequestNew(p, l)
           \/ RecvOffer(p, l) \/ RecvUnoffer(p, l)
           \/ RecvConnectService(p, l) \/ RecvConnectServiceReply(p, l)
           \/ RecvSubscribe(p, l) \/ RecvEventUpdate(p, l) \/ RecvPayloadConsumed(p, l)
    PROVE  SameAtServer
<1>1. CASE RecvUnrequest(p, l)
    BY Zenon, <1>1, MembersAreFunctions DEF RecvUnrequest, SameAtServer
<1>2. CASE RecvRequestKnown(p, l)
    BY Zenon, <1>2, MembersAreFunctions DEF RecvRequestKnown, SameAtServer
<1>3. CASE RecvRequestNew(p, l)
    BY Zenon, <1>3, MembersAreFunctions DEF RecvRequestNew, Announce, MappingWithoutKey, SameAtServer
<1>4. CASE RecvOffer(p, l)
    BY Zenon, <1>4, MembersAreFunctions DEF RecvOffer, ConnectOffers, SameAtServer
<1>5. CASE RecvUnoffer(p, l)
    BY Zenon, <1>5, MembersAreFunctions DEF RecvUnoffer, MappingWithoutKey, SameAtServer
<1>6. CASE RecvConnectService(p, l)
    BY Zenon, <1>6, MembersAreFunctions DEF RecvConnectService, SameAtServer
<1>7. CASE RecvConnectServiceReply(p, l)
    BY Zenon, <1>7, MembersAreFunctions DEF RecvConnectServiceReply, SameAtServer
<1>8. CASE RecvSubscribe(p, l)
    BY Zenon, <1>8, MembersAreFunctions DEF RecvSubscribe, SameAtServer
<1>9. CASE RecvEventUpdate(p, l) \/ RecvPayloadConsumed(p, l)
    BY Zenon, <1>9 DEF RecvEventUpdate, RecvPayloadConsumed, bindingVars, SameAtServer
<1> QED
    BY Zenon, <1>1, <1>2, <1>3, <1>4, <1>5, <1>6, <1>7, <1>8, <1>9

\* The same for application calls and restarts, and for the second critical
\* section of handle_connect_service_reply_message.
LEMMA ClientApplicationElsewhere ==
    ASSUME TypeOK, NEW p \in Proc, p # Server,
           \/ \E k \in Key : \/ AppOffer(p, k) \/ AppStop(p, k)
                             \/ AppRequest(p, k) \/ AppWithdraw(p, k)
           \/ AddConnector(p) \/ Restart(p)
    PROVE  SameAtServer
<1>1. ASSUME NEW k \in Key, AppOffer(p, k) PROVE SameAtServer
    BY Zenon, <1>1, MembersAreFunctions DEF AppOffer, Announce, MappingWithoutKey, SameAtServer
<1>2. ASSUME NEW k \in Key, AppStop(p, k) PROVE SameAtServer
    BY ZenonT(40), <1>2, MembersAreFunctions DEF AppStop, Announce, MappingWithoutKey, SameAtServer
<1>3. ASSUME NEW k \in Key, AppRequest(p, k) PROVE SameAtServer
    BY Zenon, <1>3, MembersAreFunctions DEF AppRequest, ConnectOffers, SameAtServer
<1>4. ASSUME NEW k \in Key, AppWithdraw(p, k) PROVE SameAtServer
    BY Zenon, <1>4, MembersAreFunctions DEF AppWithdraw, MappingWithoutKey, SameAtServer
<1>5. CASE AddConnector(p)
    BY Zenon, <1>5, MembersAreFunctions DEF AddConnector, SameAtServer
<1>6. CASE Restart(p)
    BY Zenon, <1>6, MembersAreFunctions DEF Restart, SameAtServer
<1> QED
    BY Zenon, <1>1, <1>2, <1>3, <1>4, <1>5, <1>6

\* The client end of the handshake and of a lost connection.
LEMMA ClientTransportElsewhere ==
    ASSUME TypeOK, NEW g \in Clients, NEW l \in Conn, RecvConnectReply(g, l)
    PROVE  SameAtServer
<1>1. g \in Proc /\ g # Server
    BY Zenon, ProcessAssumption DEF Proc
<1> QED
    BY Zenon, <1>1, MembersAreFunctions DEF RecvConnectReply, SameAtServer

\* The client end of a lost connection leaves the server's members alone.
LEMMA ClientDownElsewhere ==
    ASSUME TypeOK, NEW g \in Clients, ClientDown(g)
    PROVE  SameAtServer
<1>1. g \in Proc /\ g # Server
    BY Zenon, ProcessAssumption DEF Proc
<1> QED
    BY Zenon, <1>1, MembersAreFunctions DEF ClientDown, RemoveClient, SameAtServer

\* Sending, publishing, dropping a payload, making a connector and losing a
\* line touch no member of any binding.
LEMMA NoMemberTouched ==
    ASSUME NEW p, NEW l, NEW k, NEW e, NEW s, NEW h,
           \/ RecvConnect(l) \/ ResendToClient \/ LoseLink(l)
           \/ RecvEventUpdate(p, l) \/ RecvPayloadConsumed(p, l) \/ MakeConnector(p)
           \/ AppRequestPresent(p, k) \/ AppRequestRefused(p, k)
           \/ Publish(p, k, e, s) \/ DropPayload(p, h)
    PROVE  SameAtServer
<1>1. CASE RecvConnect(l) \/ ResendToClient \/ LoseLink(l)
    BY Zenon, <1>1 DEF RecvConnect, ResendToClient, LoseLink, bindingVars, SameAtServer
<1>2. CASE RecvEventUpdate(p, l) \/ RecvPayloadConsumed(p, l) \/ MakeConnector(p)
    BY Zenon, <1>2 DEF RecvEventUpdate, RecvPayloadConsumed, MakeConnector, bindingVars,
       SameAtServer
<1>3. CASE AppRequestPresent(p, k) \/ AppRequestRefused(p, k)
    BY Zenon, <1>3 DEF AppRequestPresent, AppRequestRefused, bindingVars, SameAtServer
<1>4. CASE Publish(p, k, e, s) \/ DropPayload(p, h)
    BY Zenon, <1>4 DEF Publish, DropPayload, bindingVars, SameAtServer
<1> QED
    BY Zenon, <1>1, <1>2, <1>3, <1>4
-----------------------------------------------------------------------------
(* Steps of the server.                                                     *)

\* A message is taken from a registered connection.
LEMMA SenderConnected ==
    ASSUME NEW l, NEW type, Deliverable(Server, l, type)
    PROVE  ClientOf(Server, l) = l /\ l \in connections[Server]
BY Zenon DEF Deliverable, ClientOf

\* A key removed from an empty vector leaves an empty vector.
LEMMA EraseKeyEmpty ==
    ASSUME NEW k
    PROVE  EraseKey({}, k) = {}
BY Zenon DEF EraseKey

\* Connection_metadata::remove_service adds no reference.
LEMMA WithoutKeyLive ==
    ASSUME TypeOK, NEW k, NEW C, MappedIn(mapping[Server], C)
    PROVE  MappedIn(MappingWithoutKey(Server, k)[Server], C)
BY Zenon, MembersAreFunctions, EraseKeyEmpty DEF MappedIn, MappingWithoutKey

\* A service's state is replaced by one whose references are live.
LEMMA StateReplaced ==
    ASSUME TypeOK, NEW k \in Key, NEW st, NEW C, StatesIn(state[Server], C),
           OffersIn(st, C), SubscribersIn(st, C),
           state' = [state EXCEPT ![Server][k] = st]
    PROVE  StatesIn(state'[Server], C)
<1>1. state \in [Proc -> [Key -> ServiceState]] /\ Server \in Proc
    BY Zenon DEF TypeOK, Proc
<1>2. \A j \in Key : state'[Server][j] = IF j = k THEN st ELSE state[Server][j]
    BY Zenon, <1>1
<1> QED
    BY Zenon, <1>2 DEF StatesIn

\* The entries after one of them is replaced.
LEMMA EntryAt ==
    ASSUME NEW A, NEW B, NEW S, NEW f \in [A -> [B -> S]], NEW a \in A, NEW b, NEW v
    PROVE  \A y \in B : [f EXCEPT ![a][b] = v][a][y] = IF y = b THEN v ELSE f[a][y]
BY Zenon

\* A vector of connections is replaced by one whose reference is live.
LEMMA VectorReplaced ==
    ASSUME TypeOK, NEW c, NEW v, NEW C, MappedIn(mapping[Server], C), v # {} => c \in C,
           mapping' = [mapping EXCEPT ![Server][c] = v]
    PROVE  MappedIn(mapping'[Server], C)
<1>1. mapping \in [Proc -> [ClientId -> SUBSET Ids]] /\ Server \in Proc
    BY Zenon DEF TypeOK, Proc
<1>2. \A d \in ClientId : mapping'[Server][d] = IF d = c THEN v ELSE mapping[Server][d]
    BY Zenon, <1>1, EntryAt
<1> QED
    BY Zenon, <1>2 DEF MappedIn

\* So are the peers interested in a service.
LEMMA PeersReplaced ==
    ASSUME TypeOK, NEW k, NEW v, NEW C, InterestedIn(interested[Server], C), v \subseteq C,
           interested' = [interested EXCEPT ![Server][k] = v]
    PROVE  InterestedIn(interested'[Server], C)
<1>1. interested \in [Proc -> [Key -> SUBSET ClientId]] /\ Server \in Proc
    BY Zenon DEF TypeOK, Proc
<1>2. \A j \in Key : interested'[Server][j] = IF j = k THEN v ELSE interested[Server][j]
    BY Zenon, <1>1, EntryAt
<1> QED
    BY Zenon, <1>2 DEF InterestedIn

\* What the server knows of a service is a Service_state.
LEMMA ServerState ==
    ASSUME TypeOK, NEW k \in Key
    PROVE  state[Server][k] \in ServiceState
<1>1. state \in [Proc -> [Key -> ServiceState]] /\ Server \in Proc
    BY Zenon DEF TypeOK, Proc
<1> QED
    BY Zenon, <1>1

\* service_state_change adds no reference.
LEMMA AnnounceLive ==
    ASSUME TypeOK, NEW k \in Key, NEW st \in ServiceState, NEW peers, NEW b, NEW ch, NEW C,
           Announce(Server, k, st, peers, b, ch),
           MappedIn(mapping[Server], C), StatesIn(state[Server], C),
           OffersIn(st, C), SubscribersIn(st, C)
    PROVE  MappedIn(mapping'[Server], C) /\ StatesIn(state'[Server], C)
<1> DEFINE new == [st EXCEPT !.exists = TRUE, !.requested = TRUE]
<1>1. new.offers = st.offers /\ new.subscriptions = st.subscriptions
    BY DEF ServiceState
<1>2. OffersIn(new, C) /\ SubscribersIn(new, C)
    BY Zenon, <1>1 DEF OffersIn, SubscribersIn
<1>3. state' = [state EXCEPT ![Server][k] = new]
    BY Zenon DEF Announce
<1> HIDE DEF new
<1>4. StatesIn(state'[Server], C)
    BY Zenon, <1>2, <1>3, StateReplaced
<1>5. MappedIn(mapping'[Server], C)
    BY Zenon, WithoutKeyLive DEF Announce
<1> QED
    BY Zenon, <1>4, <1>5

\* maybe_send_connect_service_locked records a pending connect only for a peer
\* whose offer is recorded.
LEMMA ConnectOffersLive ==
    ASSUME TypeOK, NEW k \in Key, NEW st \in ServiceState, NEW ch, NEW out, NEW next, NEW C,
           ConnectOffers(Server, k, st, ch, out, next),
           PendingIn(pending[Server], C), StatesIn(state[Server], C),
           OffersIn(st, C), SubscribersIn(st, C)
    PROVE  PendingIn(pending'[Server], C) /\ StatesIn(state'[Server], C)
<1> DEFINE offers == [c \in ClientId |->
               IF c \in Fresh(st)
               THEN [offered |-> TRUE, sent |-> Sends(Server, c),
                     required |-> RequiredId(Server, st, c)]
               ELSE st.offers[c]]
           new == [st EXCEPT !.offers = offers]
<1>1. \A c \in Fresh(st) : c \in ClientId /\ c \in C
    BY Zenon DEF Fresh, OffersIn
<1>2. new.offers = offers /\ new.subscriptions = st.subscriptions
    BY DEF ServiceState
<1>3. \A c \in ClientId : offers[c].offered => c \in C
    <2> TAKE c \in ClientId
    <2>1. CASE c \in Fresh(st)
        BY Zenon, <1>1, <2>1
    <2>2. CASE c \notin Fresh(st)
        BY Zenon, <2>2 DEF OffersIn
    <2> QED
        BY Zenon, <2>1, <2>2
<1>4. OffersIn(new, C) /\ SubscribersIn(new, C)
    BY Zenon, <1>2, <1>3 DEF OffersIn, SubscribersIn
<1>5. state' = [state EXCEPT ![Server][k] = new]
    BY Zenon DEF ConnectOffers
<1>6. pending'[Server] = pending[Server] \cup
          {[id |-> RequiredId(Server, st, c), key |-> k, client |-> c] : c \in Fresh(st)}
    BY Zenon, MembersAreFunctions DEF ConnectOffers
<1>7. \A q \in {[id |-> RequiredId(Server, st, c), key |-> k, client |-> c] : c \in Fresh(st)} :
          q.client \in Fresh(st)
    OBVIOUS
<1>8. PendingIn(pending'[Server], C)
    BY Zenon, <1>1, <1>6, <1>7 DEF PendingIn
<1> HIDE DEF new
<1> QED
    BY Zenon, <1>4, <1>5, <1>8, StateReplaced

\* handle_request_service_message forgets what a peer no longer asks for.
LEMMA RecvUnrequestLive ==
    ASSUME TypeOK, AllIn(connections[Server]), NEW l \in Conn, RecvUnrequest(Server, l)
    PROVE  AllIn(connections[Server])'
<1> DEFINE C == connections[Server]
<1>1. connections' = connections
    BY Zenon DEF RecvUnrequest
<1>2. MappedIn(mapping'[Server], C)
    <2> DEFINE c == ClientOf(Server, l)
               v == EraseKey(mapping[Server][c], Head(chan[l][Near(Server)]).key)
    <2>1. mapping' = [mapping EXCEPT ![Server][c] = v]
        BY Zenon DEF RecvUnrequest
    <2>2. c \in C
        BY Zenon, SenderConnected DEF RecvUnrequest
    <2> HIDE DEF v, c
    <2> QED
        BY Zenon, <2>1, <2>2, VectorReplaced DEF AllIn
<1>3. PendingIn(pending'[Server], C)
    BY Zenon, MembersAreFunctions DEF RecvUnrequest, AllIn, PendingIn
<1>4. InterestedIn(interested'[Server], C)
    <2> DEFINE c == ClientOf(Server, l)
               k == Head(chan[l][Near(Server)]).key
    <2>1. interested' = [interested EXCEPT ![Server][k] = interested[Server][k] \ {c}]
        BY Zenon DEF RecvUnrequest
    <2>2. k \in Key
        BY Zenon, ReceiveTyped, FieldsTyped, MembersAreFunctions DEF RecvUnrequest, TypeOK
    <2>3. interested[Server][k] \ {c} \subseteq C
        BY Zenon, <2>2 DEF AllIn, InterestedIn
    <2> HIDE DEF k, c
    <2> QED
        BY Zenon, <2>1, <2>3, PeersReplaced DEF AllIn
<1>5. StatesIn(state'[Server], C)
    <2> SUFFICES ASSUME NEW k \in Key
                 PROVE  OffersIn(state'[Server][k], C) /\ SubscribersIn(state'[Server][k], C)
        BY Zenon DEF StatesIn
    <2> DEFINE old == state[Server][k]
               new == [old EXCEPT !.subscriptions =
                          SubscriptionsWithout(old, ClientOf(Server, l))]
    <2>1. state'[Server][k] = new
        BY Zenon, MembersAreFunctions DEF RecvUnrequest
    <2>2. new.offers = old.offers
          /\ new.subscriptions = SubscriptionsWithout(old, ClientOf(Server, l))
        BY ServerState DEF ServiceState
    <2>3. OffersIn(old, C) /\ SubscribersIn(old, C)
        BY Zenon DEF AllIn, StatesIn
    <2> HIDE DEF new, old
    <2> QED
        BY Zenon, <2>1, <2>2, <2>3 DEF OffersIn, SubscribersIn, SubscriptionsWithout
<1> QED
    BY Zenon, <1>1, <1>2, <1>3, <1>4, <1>5 DEF AllIn

\* The service a message names.
LEMMA RequestNamed ==
    ASSUME TypeOK, NEW l \in Conn,
           Deliverable(Server, l, "Request_service") \/ Deliverable(Server, l, "Offer_service")
    PROVE  Head(chan[l][Near(Server)]).key \in Key
BY Zenon, ReceiveTyped, FieldsTyped, MembersAreFunctions DEF TypeOK

\* handle_request_service_message for a known service records its sender, which
\* is connected.
LEMMA RecvRequestKnownLive ==
    ASSUME TypeOK, AllIn(connections[Server]), NEW l \in Conn, RecvRequestKnown(Server, l)
    PROVE  AllIn(connections[Server])'
<1> DEFINE k == Head(chan[l][Near(Server)]).key
<1>1. /\ interested' = [interested EXCEPT ![Server][k] = interested[Server][k] \cup {l}]
      /\ UNCHANGED <<connections, mapping, pending, state>>
    BY Zenon, SenderConnected DEF RecvRequestKnown
<1>2. k \in Key /\ l \in connections[Server]
    BY Zenon, RequestNamed, SenderConnected DEF RecvRequestKnown
<1>3. interested[Server][k] \cup {l} \subseteq connections[Server]
    <2>1. interested[Server][k] \subseteq connections[Server]
        BY Zenon, <1>2 DEF AllIn, InterestedIn
    <2> HIDE DEF k
    <2> QED
        BY <1>2, <2>1
<1> HIDE DEF k
<1>4. InterestedIn(interested'[Server], connections[Server])
    BY Zenon, <1>1, <1>3, PeersReplaced DEF AllIn
<1> QED
    BY Zenon, <1>1, <1>4 DEF AllIn

\* The same for a service the binding makes a client connector for.
LEMMA RecvRequestNewLive ==
    ASSUME TypeOK, AllIn(connections[Server]), NEW l \in Conn, RecvRequestNew(Server, l)
    PROVE  AllIn(connections[Server])'
<1> DEFINE C == connections[Server]
           k == Head(chan[l][Near(Server)]).key
           peers == interested[Server][k] \cup {l}
           old == state[Server][k]
           new == [old EXCEPT !.exists = TRUE, !.cc = client[Server][k] = "none"]
<1>1. /\ interested' = [interested EXCEPT ![Server][k] = peers]
      /\ UNCHANGED <<connections, pending>>
      /\ \/ Announce(Server, k, new, peers, TRUE, Popped(Server, l))
         \/ state' = [state EXCEPT ![Server][k] = new] /\ mapping' = mapping
    BY Zenon, SenderConnected DEF RecvRequestNew
<1>2. k \in Key /\ l \in C
    BY Zenon, RequestNamed, SenderConnected DEF RecvRequestNew
<1>3. peers \subseteq C
    <2>1. interested[Server][k] \subseteq connections[Server]
        BY Zenon, <1>2 DEF AllIn, InterestedIn
    <2> HIDE DEF k
    <2> QED
        BY Zenon, <1>2, <2>1
<1>4. old \in ServiceState
    BY Zenon, <1>2, ServerState
<1>5. OffersIn(old, C) /\ SubscribersIn(old, C)
    BY Zenon, <1>2 DEF AllIn, StatesIn
<1> HIDE DEF old
<1>6. new \in ServiceState /\ new.offers = old.offers /\ new.subscriptions = old.subscriptions
    BY Zenon, <1>4 DEF ServiceState
<1>7. OffersIn(new, C) /\ SubscribersIn(new, C)
    BY Zenon, <1>5, <1>6 DEF OffersIn, SubscribersIn
<1> HIDE DEF k, peers, new
<1>8. InterestedIn(interested'[Server], C)
    BY Zenon, <1>1, <1>3, PeersReplaced DEF AllIn
<1>9. MappedIn(mapping'[Server], C) /\ StatesIn(state'[Server], C)
    <2>1. CASE Announce(Server, k, new, peers, TRUE, Popped(Server, l))
        BY Zenon, <1>2, <1>6, <1>7, <2>1, AnnounceLive DEF AllIn
    <2>2. CASE state' = [state EXCEPT ![Server][k] = new] /\ mapping' = mapping
        BY Zenon, <1>2, <1>7, <2>2, StateReplaced DEF AllIn
    <2> QED
        BY Zenon, <1>1, <2>1, <2>2
<1> QED
    BY Zenon, <1>1, <1>8, <1>9 DEF AllIn

\* handle_offer_service_message records the offer of its sender, which is
\* connected.
LEMMA RecvOfferLive ==
    ASSUME TypeOK, AllIn(connections[Server]), NEW l \in Conn, RecvOffer(Server, l)
    PROVE  AllIn(connections[Server])'
<1> DEFINE C == connections[Server]
           k == Head(chan[l][Near(Server)]).key
           old == state[Server][k]
           new == [old EXCEPT !.exists = TRUE, !.offers[l].offered = TRUE]
<1>1. /\ ConnectOffers(Server, k, new, Popped(Server, l), To({}, <<>>), Idle)
      /\ UNCHANGED <<connections, mapping, interested>>
    BY Zenon, SenderConnected DEF RecvOffer
<1>2. k \in Key /\ l \in C
    BY Zenon, RequestNamed, SenderConnected DEF RecvOffer
<1>3. old \in ServiceState
    BY Zenon, <1>2, ServerState
<1>4. OffersIn(old, C) /\ SubscribersIn(old, C)
    BY Zenon, <1>2 DEF AllIn, StatesIn
<1>5. l \in ClientId
    BY BoundAssumption DEF Conn, ClientId
<1> HIDE DEF old
<1>6. /\ new \in ServiceState /\ new.subscriptions = old.subscriptions
      /\ new.offers = [old.offers EXCEPT ![l].offered = TRUE]
      /\ old.offers \in [ClientId -> OfferState]
  <2>1. old.offers \in [ClientId -> OfferState]
    BY Zenon, <1>3 DEF ServiceState
  <2>2. /\ new = [old EXCEPT !.exists = TRUE, !.offers = [old.offers EXCEPT ![l].offered = TRUE]]
        /\ new.subscriptions = old.subscriptions
        /\ new.offers = [old.offers EXCEPT ![l].offered = TRUE]
    BY <1>3 DEF ServiceState
  <2>3. [old.offers EXCEPT ![l].offered = TRUE] \in [ClientId -> OfferState]
    BY Zenon, <1>5, <2>1 DEF OfferState
  <2>4. new \in ServiceState
    BY Zenon, <1>3, <2>2, <2>3 DEF ServiceState
  <2> QED
    BY Zenon, <2>1, <2>2, <2>4
<1> HIDE DEF new
<1>7. OffersIn(new, C) /\ SubscribersIn(new, C)
    BY Zenon, <1>2, <1>4, <1>6 DEF OffersIn, SubscribersIn
<1> HIDE DEF k
<1>8. PendingIn(pending'[Server], C) /\ StatesIn(state'[Server], C)
    BY Zenon, <1>1, <1>2, <1>6, <1>7, ConnectOffersLive DEF AllIn
<1> QED
    BY Zenon, <1>1, <1>8 DEF AllIn

\* handle_offer_service_message for a withdrawn offer only forgets.
LEMMA RecvUnofferLive ==
    ASSUME TypeOK, AllIn(connections[Server]), NEW l \in Conn, RecvUnoffer(Server, l)
    PROVE  AllIn(connections[Server])'
<1> DEFINE C == connections[Server]
           k == Head(chan[l][Near(Server)]).key
           old == state[Server][k]
           new == [old EXCEPT !.exists = TRUE, !.ec = FALSE, !.offers[l] = NoOffer,
                              !.subscriptions = NoSubscriptions]
<1>1. /\ state' = [state EXCEPT ![Server][k] = new]
      /\ mapping' = MappingWithoutKey(Server, k)
      /\ pending' = [pending EXCEPT ![Server] = {q \in @ : ~(q.key = k /\ q.client = l)}]
      /\ UNCHANGED <<connections, interested>>
    BY Zenon, SenderConnected DEF RecvUnoffer
<1>2. k \in Key
    BY Zenon, RequestNamed DEF RecvUnoffer
<1>3. old \in ServiceState
    BY Zenon, <1>2, ServerState
<1>4. OffersIn(old, C)
    BY Zenon, <1>2 DEF AllIn, StatesIn
<1> HIDE DEF old
<1>5. /\ new.offers = [old.offers EXCEPT ![l] = NoOffer]
      /\ new.subscriptions = NoSubscriptions
      /\ old.offers \in [ClientId -> OfferState]
    BY <1>3 DEF ServiceState
<1> HIDE DEF new
<1>6. OffersIn(new, C) /\ SubscribersIn(new, C)
    <2>1. NoOffer.offered = FALSE
        BY DEF NoOffer
    <2>2. \A c \in ClientId : new.offers[c] = IF c = l THEN NoOffer ELSE old.offers[c]
        BY Zenon, <1>5
    <2>3. OffersIn(new, C)
        BY Zenon, <1>4, <2>1, <2>2 DEF OffersIn
    <2> QED
        BY Zenon, <1>5, <2>3 DEF SubscribersIn, NoSubscriptions
<1> HIDE DEF k
<1>7. StatesIn(state'[Server], C) /\ MappedIn(mapping'[Server], C)
    BY Zenon, <1>1, <1>2, <1>6, StateReplaced, WithoutKeyLive DEF AllIn
<1>8. PendingIn(pending'[Server], C)
    BY Zenon, <1>1, MembersAreFunctions DEF AllIn, PendingIn
<1> QED
    BY Zenon, <1>1, <1>7, <1>8 DEF AllIn

\* Both handlers that add a mapping add it for their sender, which is connected.
LEMMA RecvConnectServiceLive ==
    ASSUME TypeOK, AllIn(connections[Server]), NEW l \in Conn,
           RecvConnectService(Server, l) \/ RecvConnectServiceReply(Server, l)
    PROVE  AllIn(connections[Server])'
<1> DEFINE C == connections[Server]
<1>1. l \in C
    BY Zenon, SenderConnected DEF RecvConnectService, RecvConnectServiceReply
<1>2. UNCHANGED <<connections, state, interested>>
    BY Zenon DEF RecvConnectService, RecvConnectServiceReply
<1>3. mapping' = mapping \/ \E v : mapping' = [mapping EXCEPT ![Server][l] = v]
    BY Zenon, SenderConnected DEF RecvConnectService, RecvConnectServiceReply
<1>4. MappedIn(mapping'[Server], C)
    BY Zenon, <1>1, <1>3, VectorReplaced DEF AllIn
<1>5. PendingIn(pending'[Server], C)
    <2>1. pending'[Server] \subseteq pending[Server]
        BY Zenon, MembersAreFunctions DEF RecvConnectService, RecvConnectServiceReply
    <2> QED
        BY Zenon, <2>1 DEF AllIn, PendingIn
<1> QED
    BY Zenon, <1>2, <1>4, <1>5 DEF AllIn

\* handle_subscribe_event_message records its sender, which is connected.
LEMMA RecvSubscribeLive ==
    ASSUME TypeOK, AllIn(connections[Server]), NEW l \in Conn, RecvSubscribe(Server, l)
    PROVE  AllIn(connections[Server])'
<1> DEFINE C == connections[Server]
           m == Head(chan[l][Near(Server)])
           k == First(LocalAt(mapping[Server][l], m.provided)).key
           before == state[Server][k].subscriptions[m.event]
           endpoint == [client |-> l, provided |-> m.provided]
           after == IF m.subscribe THEN before \cup {endpoint} ELSE before \ {endpoint}
<1>1. /\ UNCHANGED <<connections, mapping, pending, interested>>
      /\ state' = state \/ state' = [state EXCEPT ![Server][k].subscriptions[m.event] = after]
    BY Zenon, SenderConnected DEF RecvSubscribe
<1>2. l \in C
    BY Zenon, SenderConnected DEF RecvSubscribe
<1>3. endpoint.client = l
    BY Zenon
<1>4. \A s \in after : s \in before \/ s = endpoint
    BY Zenon
<1> HIDE DEF after, endpoint, k, m
<1>5. ASSUME NEW j \in Key, state' = [state EXCEPT ![Server][k].subscriptions[m.event] = after]
      PROVE  OffersIn(state'[Server][j], C) /\ SubscribersIn(state'[Server][j], C)
    <2> DEFINE old == state[Server][j]
               new == [old EXCEPT !.subscriptions[m.event] = after]
    <2>1. state \in [Proc -> [Key -> ServiceState]] /\ Server \in Proc
        BY Zenon DEF TypeOK, Proc
    <2>2. state'[Server][j] = IF j = k THEN new ELSE old
        BY Zenon, <1>5, <2>1
    <2>3. OffersIn(old, C) /\ SubscribersIn(old, C)
        BY Zenon DEF AllIn, StatesIn
    <2>4. /\ new.offers = old.offers /\ old.subscriptions \in [Event -> SUBSET Endpoint]
          /\ new.subscriptions = [old.subscriptions EXCEPT ![m.event] = after]
        BY ServerState DEF ServiceState
    <2>5. j = k => before = old.subscriptions[m.event]
        BY Zenon
    <2> HIDE DEF old, new, before
    <2>6. OffersIn(new, C)
        BY Zenon, <2>3, <2>4 DEF OffersIn
    <2>7. j = k => SubscribersIn(new, C)
        BY Zenon, <1>2, <1>3, <1>4, <2>3, <2>4, <2>5 DEF SubscribersIn
    <2> QED
        BY Zenon, <2>2, <2>3, <2>6, <2>7
<1>6. StatesIn(state'[Server], C)
    BY Zenon, <1>1, <1>5 DEF AllIn, StatesIn
<1> QED
    BY Zenon, <1>1, <1>6 DEF AllIn

\* add_server_connector changes no reference.
LEMMA AddConnectorLive ==
    ASSUME TypeOK, AllIn(connections[Server]), AddConnector(Server)
    PROVE  AllIn(connections[Server])'
<1> DEFINE C == connections[Server]
           k == engine[Server].key
<1>1. /\ UNCHANGED <<connections, mapping, pending, interested>>
      /\ state' = state \/ state' = [state EXCEPT ![Server][k].ec = TRUE]
    BY Zenon DEF AddConnector
<1> HIDE DEF k
<1>2. ASSUME NEW j \in Key, state' = [state EXCEPT ![Server][k].ec = TRUE]
      PROVE  OffersIn(state'[Server][j], C) /\ SubscribersIn(state'[Server][j], C)
    <2> DEFINE old == state[Server][j]
               new == [old EXCEPT !.ec = TRUE]
    <2>1. state \in [Proc -> [Key -> ServiceState]] /\ Server \in Proc
        BY Zenon DEF TypeOK, Proc
    <2>2. state'[Server][j] = IF j = k THEN new ELSE old
        BY Zenon, <1>2, <2>1
    <2>3. OffersIn(old, C) /\ SubscribersIn(old, C)
        BY Zenon DEF AllIn, StatesIn
    <2>4. new.offers = old.offers /\ new.subscriptions = old.subscriptions
        BY ServerState DEF ServiceState
    <2> HIDE DEF old, new
    <2> QED
        BY Zenon, <2>2, <2>3, <2>4 DEF OffersIn, SubscribersIn
<1>3. StatesIn(state'[Server], C)
    BY Zenon, <1>1, <1>2 DEF AllIn, StatesIn
<1> QED
    BY Zenon, <1>1, <1>3 DEF AllIn

\* Offering and stopping a local service tells the interested peers and adds no
\* reference.
LEMMA AppOfferLive ==
    ASSUME TypeOK, AllIn(connections[Server]), NEW k \in Key,
           AppOffer(Server, k) \/ AppStop(Server, k)
    PROVE  AllIn(connections[Server])'
<1> DEFINE C == connections[Server]
<1>1. /\ UNCHANGED <<connections, pending, interested>>
      /\ \/ UNCHANGED <<mapping, state>>
         \/ \E b : Announce(Server, k, state[Server][k], interested[Server][k], b, chan)
    BY Zenon DEF AppOffer, AppStop
<1>2. state[Server][k] \in ServiceState
    BY Zenon, ServerState
<1>3. OffersIn(state[Server][k], C) /\ SubscribersIn(state[Server][k], C)
    BY Zenon DEF AllIn, StatesIn
<1>4. MappedIn(mapping'[Server], C) /\ StatesIn(state'[Server], C)
    BY Zenon, <1>1, <1>2, <1>3, AnnounceLive DEF AllIn
<1> QED
    BY Zenon, <1>1, <1>4 DEF AllIn

\* send_request_service connects offers that are recorded already.
LEMMA AppRequestLive ==
    ASSUME TypeOK, AllIn(connections[Server]), NEW k \in Key, AppRequest(Server, k)
    PROVE  AllIn(connections[Server])'
<1> DEFINE C == connections[Server]
           old == state[Server][k]
           new == [old EXCEPT !.exists = TRUE, !.requested = TRUE]
<1>1. /\ UNCHANGED <<connections, mapping, interested>>
      /\ ConnectOffers(Server, k, new, chan, To(connections[Server], <<RequestService(k, TRUE)>>),
                       engine[Server])
    BY Zenon DEF AppRequest
<1>2. OffersIn(old, C) /\ SubscribersIn(old, C)
    BY Zenon DEF AllIn, StatesIn
<1>3. new \in ServiceState /\ new.offers = old.offers /\ new.subscriptions = old.subscriptions
    BY Zenon, ServerState DEF ServiceState
<1> HIDE DEF old, new
<1>4. OffersIn(new, C) /\ SubscribersIn(new, C)
    BY Zenon, <1>2, <1>3 DEF OffersIn, SubscribersIn
<1>5. PendingIn(pending'[Server], C) /\ StatesIn(state'[Server], C)
    BY Zenon, <1>1, <1>3, <1>4, ConnectOffersLive DEF AllIn
<1> QED
    BY Zenon, <1>1, <1>5 DEF AllIn

\* A withdrawn request leaves an empty Service_state.
LEMMA AppWithdrawLive ==
    ASSUME TypeOK, AllIn(connections[Server]), NEW k \in Key, AppWithdraw(Server, k)
    PROVE  AllIn(connections[Server])'
<1> DEFINE C == connections[Server]
<1>1. /\ UNCHANGED <<connections, interested>>
      /\ state' = state \/ state' = [state EXCEPT ![Server][k] = NoState]
      /\ mapping' = mapping \/ mapping' = MappingWithoutKey(Server, k)
      /\ pending' = [pending EXCEPT ![Server] = {q \in @ : bridged[Server][k] => q.key # k}]
    BY Zenon DEF AppWithdraw
<1>2. OffersIn(NoState, C) /\ SubscribersIn(NoState, C)
    BY DEF OffersIn, SubscribersIn, NoState, NoOffer, NoSubscriptions
<1>3. StatesIn(state'[Server], C)
    BY Zenon, <1>1, <1>2, StateReplaced DEF AllIn
<1>4. MappedIn(mapping'[Server], C)
    BY Zenon, <1>1, WithoutKeyLive DEF AllIn
<1>5. PendingIn(pending'[Server], C)
    BY Zenon, <1>1, MembersAreFunctions DEF AllIn, PendingIn
<1> QED
    BY Zenon, <1>1, <1>3, <1>4, <1>5 DEF AllIn

\* After a restart there is nothing to refer with.
LEMMA RestartLive ==
    ASSUME TypeOK, Restart(Server)
    PROVE  AllIn(connections[Server])'
<1>1. /\ mapping'[Server] = [c \in ClientId |-> {}] /\ pending'[Server] = {}
      /\ interested'[Server] = [k \in Key |-> {}] /\ state'[Server] = [k \in Key |-> NoState]
    BY Zenon, MembersAreFunctions DEF Restart
<1>2. \A C : OffersIn(NoState, C) /\ SubscribersIn(NoState, C)
    BY Zenon DEF OffersIn, SubscribersIn, NoState, NoOffer, NoSubscriptions
<1> QED
    BY ZenonT(40), <1>1, <1>2 DEF AllIn, MappedIn, PendingIn, InterestedIn, StatesIn

\* A new connection only adds to m_connections.
LEMMA TransportConnectLive ==
    ASSUME TypeOK, AllIn(connections[Server]), NEW g \in Clients, TransportConnect(g)
    PROVE  AllIn(connections[Server])'
<1>1. UNCHANGED <<mapping, pending, interested, state>>
    BY Zenon DEF TransportConnect
<1>2. connections[Server] \subseteq connections'[Server]
    <2>1. PICK l : connections' = [connections EXCEPT ![Server] = @ \cup {l}]
        BY Zenon DEF TransportConnect
    <2> QED
        BY Zenon, <2>1, MembersAreFunctions
<1> QED
    BY Zenon, <1>1, <1>2 DEF AllIn, MappedIn, PendingIn, InterestedIn, StatesIn, OffersIn,
       SubscribersIn

\* remove_client_state_locked forgets every reference to the client it removes.
LEMMA ServerDisconnectLive ==
    ASSUME TypeOK, AllIn(connections[Server]), NEW l \in Conn, ServerDisconnect(l)
    PROVE  AllIn(connections[Server])'
<1> DEFINE C == connections[Server]
           D == connections'[Server]
<1>1. RemoveClient(Server, l)
    BY Zenon DEF ServerDisconnect
<1>2. D = C \ {l}
    BY Zenon, <1>1, MembersAreFunctions DEF RemoveClient
<1> HIDE DEF D
<1>3. MappedIn(mapping'[Server], D)
    <2>1. mapping \in [Proc -> [ClientId -> SUBSET Ids]] /\ Server \in Proc
        BY Zenon DEF TypeOK, Proc
    <2>2. mapping' = [mapping EXCEPT ![Server][l] = {}]
        BY Zenon, <1>1 DEF RemoveClient
    <2>3. \A c \in ClientId : mapping'[Server][c] = IF c = l THEN {} ELSE mapping[Server][c]
        BY Zenon, <2>1, <2>2, EntryAt
    <2> QED
        BY Zenon, <1>2, <2>3 DEF AllIn, MappedIn
<1>4. PendingIn(pending'[Server], D)
    BY Zenon, <1>1, <1>2, MembersAreFunctions DEF RemoveClient, AllIn, PendingIn
<1>5. InterestedIn(interested'[Server], D)
    <2>1. \A k \in Key : interested'[Server][k] = interested[Server][k] \ {l}
        BY Zenon, <1>1, MembersAreFunctions DEF RemoveClient, InterestedWithout
    <2> QED
        BY Zenon, <1>2, <2>1 DEF AllIn, InterestedIn
<1>6. ASSUME NEW k \in Key
      PROVE  OffersIn(state'[Server][k], D) /\ SubscribersIn(state'[Server][k], D)
    <2> DEFINE old == state[Server][k]
               orphan == /\ old.offers[l].offered
                         /\ \A d \in ClientId \ {l} : ~old.offers[d].offered
               subs == IF orphan THEN NoSubscriptions ELSE SubscriptionsWithout(old, l)
               new == [old EXCEPT !.offers = OffersWithout(old, l), !.ec = @ /\ ~orphan,
                                  !.subscriptions = subs]
    <2>1. state'[Server][k] = new
        BY Zenon, <1>1, MembersAreFunctions DEF RemoveClient
    <2>2. OffersIn(old, C) /\ SubscribersIn(old, C)
        BY Zenon DEF AllIn, StatesIn
    <2>3. \A e \in Event : \A s \in subs[e] : s \in old.subscriptions[e] /\ s.client # l
        BY Zenon DEF NoSubscriptions, SubscriptionsWithout
    <2> HIDE DEF subs, orphan
    <2>4. /\ new.offers = [old.offers EXCEPT ![l] = NoOffer] /\ new.subscriptions = subs
          /\ old.offers \in [ClientId -> OfferState]
        BY Zenon, ServerState DEF ServiceState, OffersWithout
    <2> HIDE DEF old, new
    <2>5. NoOffer.offered = FALSE
        BY DEF NoOffer
    <2>6. \A c \in ClientId : new.offers[c] = IF c = l THEN NoOffer ELSE old.offers[c]
        BY Zenon, <2>4
    <2>7. OffersIn(new, D)
        BY Zenon, <1>2, <2>2, <2>5, <2>6 DEF OffersIn
    <2>8. SubscribersIn(new, D)
        BY Zenon, <1>2, <2>2, <2>3, <2>4 DEF SubscribersIn
    <2> QED
        BY Zenon, <2>1, <2>7, <2>8
<1>7. StatesIn(state'[Server], D)
    BY Zenon, <1>6 DEF StatesIn
<1> QED
    BY Zenon, <1>3, <1>4, <1>5, <1>7 DEF AllIn, D

-----------------------------------------------------------------------------
\* Every step keeps the server's references live: a step of a client process
\* does not reach them, and each step of the server is one of the lemmas above.
LEMMA StepLive ==
    ASSUME TypeOK, AllIn(connections[Server]), [Next]_vars
    PROVE  AllIn(connections[Server])'
<1> DEFINE Goal == AllIn(connections[Server])'
<1>1. SameAtServer => Goal
    BY Zenon, SameKeepsReferences
<1> HIDE DEF Goal
<1>2. ASSUME NEW p \in Proc, p # Server, Engine(p) \/ Application(p) \/ Drop(p) \/ Restart(p)
      PROVE  SameAtServer
    BY Zenon, <1>2, ClientHandlerElsewhere, ClientApplicationElsewhere, NoMemberTouched
       DEF Engine, Application, Drop
<1>3. ASSUME Engine(Server) PROVE Goal
    BY Zenon, <1>1, <1>3, RecvUnrequestLive, RecvRequestKnownLive, RecvRequestNewLive,
       RecvOfferLive, RecvUnofferLive, RecvConnectServiceLive, RecvSubscribeLive,
       AddConnectorLive, NoMemberTouched DEF Engine, Goal
<1>4. ASSUME Application(Server) PROVE Goal
    BY Zenon, <1>1, <1>4, AppOfferLive, AppRequestLive, AppWithdrawLive, NoMemberTouched
       DEF Application, Goal
<1>5. ASSUME ServerEngine PROVE Goal
    BY Zenon, <1>1, <1>5, ServerDisconnectLive, NoMemberTouched DEF ServerEngine, Goal
<1>6. ASSUME NEW g \in Clients, ClientEngine(g) PROVE Goal
    <2>1. CASE TransportConnect(g)
        BY Zenon, <2>1, TransportConnectLive DEF Goal
    <2>2. ASSUME NEW l \in Conn, RecvConnectReply(g, l) PROVE Goal
        BY Zenon, <1>1, <2>2, ClientTransportElsewhere
    <2>3. CASE ResendToServer(g)
        BY Zenon, <1>1, <2>3 DEF ResendToServer, bindingVars, SameAtServer
    <2>4. CASE ClientDown(g)
        BY Zenon, <1>1, <2>4, ClientDownElsewhere
    <2> QED
        BY Zenon, <1>6, <2>1, <2>2, <2>3, <2>4 DEF ClientEngine
<1>7. ASSUME UNCHANGED vars PROVE Goal
    BY Zenon, <1>1, <1>7 DEF vars, bindingVars, SameAtServer
<1>8. ASSUME Drop(Server) \/ \E l \in Conn : LoseLink(l) PROVE Goal
    BY Zenon, <1>1, <1>8, NoMemberTouched DEF Drop
<1>9. ASSUME Next PROVE Goal
    BY Zenon, <1>1, <1>2, <1>3, <1>4, <1>5, <1>6, <1>8, <1>9, RestartLive DEF Next, Goal
<1> QED
    BY Zenon, <1>7, <1>9 DEF Goal

\* Initially there is nothing to refer with.
LEMMA InitLive == Init => ServerReferencesLive
<1> SUFFICES ASSUME Init PROVE ServerReferencesLive
    BY Zenon
<1>1. Server \in Proc
    BY Zenon DEF Proc
<1>2. /\ mapping[Server] = [c \in ClientId |-> {}] /\ pending[Server] = {}
      /\ interested[Server] = [k \in Key |-> {}] /\ state[Server] = [k \in Key |-> NoState]
    BY Zenon, <1>1 DEF Init
<1>3. \A C : OffersIn(NoState, C) /\ SubscribersIn(NoState, C)
    BY Zenon DEF OffersIn, SubscribersIn, NoState, NoOffer, NoSubscriptions
<1>4. AllIn(connections[Server])
    BY ZenonT(40), <1>2, <1>3 DEF AllIn, MappedIn, PendingIn, InterestedIn, StatesIn
<1> QED
    BY Zenon, <1>4, InitTyped, PartsOfReferences

\* Nothing the server's binding records about a peer outlives the connection to
\* it, for any number of clients, services and connections and through any
\* sequence of requests, offers, losses and restarts: when service_state_change,
\* send_event_update or maybe_send_connect_service_locked look up the reply
\* channel of a peer recorded for a service, it is there.
THEOREM ServerReferencesStayLive == Spec => []ServerReferencesLive
<1>1. Init => TypeOK /\ ServerReferencesLive
    BY Zenon, InitTyped, InitLive
<1>2. TypeOK /\ TypeOK' /\ ServerReferencesLive /\ [Next]_vars => ServerReferencesLive'
    <2> SUFFICES ASSUME TypeOK, TypeOK', ServerReferencesLive, [Next]_vars
                 PROVE  ServerReferencesLive'
        BY Zenon
    <2>1. AllIn(connections[Server])'
        BY Zenon, PartsOfReferences, StepLive
    <2>2. (ServerReferencesLive <=> AllIn(connections[Server]))'
        BY PartsOfReferences, PTL
    <2> QED
        BY Zenon, <2>1, <2>2
<1> QED
    BY <1>1, <1>2, TypeCorrect, PTL DEF Spec

=============================================================================
