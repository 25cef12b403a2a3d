--------------------------- MODULE GatewayBinding ---------------------------
(***************************************************************************)
(* The gateway IPC binding: Gateway_ipc_binding_base in a server process   *)
(* (someipd) and in client processes (gatewayd), the control channel       *)
(* between them, and the SOCom runtime of each process as far as the       *)
(* binding uses it.                                                        *)
(*                                                                         *)
(* Threads.  Each process has an engine thread that delivers messages and  *)
(* transport events one at a time, and application threads that offer and  *)
(* request services, publish events and drop payloads.  A handler that     *)
(* holds m_mutex throughout is one step.  The two that do not are split    *)
(* where they unlock: the resend after Connect / Connect_reply, and the    *)
(* handler of Connect_service_reply, which creates the SOCom connector     *)
(* between two critical sections; application threads run in between.      *)
(*                                                                         *)
(* Assertions.  The model follows a build with assertions compiled out and *)
(* records in failed the assertions that did not hold; a build with        *)
(* assertions stops at the first of them.                                  *)
(*                                                                         *)
(* Environment.  Provider says in which process the application that       *)
(* offers a service lives; the applications that request it live in the    *)
(* other processes, one per process.  Budget bounds how often each kind of *)
(* environment step happens.                                               *)
(***************************************************************************)
EXTENDS Naturals, Sequences, FiniteSets

CONSTANTS Server, Clients,   \* the processes
          Key, Provider,     \* services, and the process that offers each
          NumEvents,         \* events per service
          NumSlots,          \* slots of a provider's shared memory
          MaxConn,           \* transport connections ever made
          Budget,            \* bound per kind of environment step
          EarlyRequests      \* may the server's applications request services
                             \* while a client's handshake is under way?

Proc == Clients \cup {Server}
Conn == 1 .. MaxConn
ClientId == 0 .. MaxConn     \* 0: the only Client_id a client process uses
Event == 0 .. NumEvents - 1
Slot == 0 .. NumSlots - 1
EnvStep == {"offer", "stop", "request", "withdraw", "lose", "restart", "publish"}

ASSUME ProcessAssumption == Server \notin Clients
ASSUME ProviderAssumption == IsFiniteSet(Key) /\ Provider \in [Key -> Proc]
ASSUME BoundAssumption ==
    /\ {NumEvents, NumSlots, MaxConn} \subseteq Nat
    /\ Budget \in [EnvStep -> Nat]
    /\ EarlyRequests \in BOOLEAN

-----------------------------------------------------------------------------
(* Messages.  key is carried by the last three only to say which service    *)
(* the sender meant; no handler reads it.                                   *)

Connect == [type |-> "Connect"]
ConnectReply == [type |-> "Connect_reply"]
RequestService(k, b) == [type |-> "Request_service", key |-> k, in_use |-> b]
OfferService(k, b) == [type |-> "Offer_service", key |-> k, offered |-> b]
ConnectService(k, r) == [type |-> "Connect_service", key |-> k, required |-> r]
ConnectServiceReply(r, h) ==
    [type |-> "Connect_service_reply", required |-> r, provided |-> h]
SubscribeEvent(h, e, b, k) ==
    [type |-> "Subscribe_event", provided |-> h, event |-> e, subscribe |-> b, key |-> k]
EventUpdate(r, e, s, k) ==
    [type |-> "Event_update", required |-> r, event |-> e, slot |-> s, key |-> k]
PayloadConsumed(r, s, k) ==
    [type |-> "Payload_consumed", required |-> r, slot |-> s, key |-> k]

Handle == Nat
Message ==
    {Connect, ConnectReply}
      \cup [type : {"Request_service"}, key : Key, in_use : BOOLEAN]
      \cup [type : {"Offer_service"}, key : Key, offered : BOOLEAN]
      \cup [type : {"Connect_service"}, key : Key, required : Handle]
      \cup [type : {"Connect_service_reply"}, required : Handle, provided : Handle]
      \cup [type : {"Subscribe_event"}, provided : Handle, event : Event,
            subscribe : BOOLEAN, key : Key]
      \cup [type : {"Event_update"}, required : Handle, event : Event, slot : Slot, key : Key]
      \cup [type : {"Payload_consumed"}, required : Handle, slot : Slot, key : Key]

-----------------------------------------------------------------------------
VARIABLES
    \* Transport.
    live,         \* connections whose transport works
    cur,          \* cur[g]: the connection client process g is on, 0 if none
    owner,        \* owner[l]: who made connection l (Server: not made yet)
    chan,         \* chan[l]: the queues [srv, cli] to either end of l
    \* Gateway_ipc_binding_base, per process.
    connections,  \* m_connections: the Client_ids with a reply channel
    state,        \* m_service_states, per key
    mapping,      \* m_id_mapping, per Client_id: the entries with their positions
    pending,      \* m_pending_connects: set of [id, key, client]
    local_offers, \* m_local_offers: the keys offered locally
    interested,   \* m_service_to_interested_peers, per key
    next_id,      \* m_next_local_id
    allocations,  \* m_shared_memory_allocations: pending_consumers per key, slot
    engine,       \* what the engine thread is in the middle of
    \* SOCom runtime and applications, per process and key.
    server,       \* the server connector registered for the key
    client,       \* who owns the client connector registered for the key
    bridged,      \* the application's client connector holds a bridge request
    subscribed,   \* events the binding's client connector is subscribed to
    held,         \* per process: received payloads not dropped yet
    \* Bookkeeping.
    failed,       \* assertions that did not hold, requests that were rejected
    spent         \* environment steps taken

transportVars == <<live, cur, owner>>
bindingVars == <<connections, state, mapping, pending, local_offers, interested, next_id>>
socomVars == <<server, client, bridged, subscribed, held>>
vars == <<transportVars, chan, bindingVars, allocations, engine, socomVars, failed, spent>>

NoOffer == [offered |-> FALSE, sent |-> FALSE, required |-> 0]
NoSubscriptions == [e \in Event |-> {}]
NoState == [exists |-> FALSE, requested |-> FALSE, cc |-> FALSE, ec |-> FALSE,
            offers |-> [c \in ClientId |-> NoOffer], subscriptions |-> NoSubscriptions]
NoServer == [kind |-> "none", client |-> 0, provided |-> 0]
AppServer == [NoServer EXCEPT !.kind = "app"]
NoAllocations == [k \in Key |-> [s \in Slot |-> 0]]
NoQueues == [srv |-> <<>>, cli |-> <<>>]
Idle == [step |-> "idle"]
Dead == [step |-> "dead"]     \* the process was stopped by a null reference

Init ==
    /\ live = {}
    /\ cur = [g \in Clients |-> 0]
    /\ owner = [l \in Conn |-> Server]
    /\ chan = [l \in Conn |-> NoQueues]
    /\ connections = [p \in Proc |-> {}]
    /\ state = [p \in Proc |-> [k \in Key |-> NoState]]
    /\ mapping = [p \in Proc |-> [c \in ClientId |-> {}]]
    /\ pending = [p \in Proc |-> {}]
    /\ local_offers = [p \in Proc |-> {}]
    /\ interested = [p \in Proc |-> [k \in Key |-> {}]]
    /\ next_id = [p \in Proc |-> 1]
    /\ allocations = [p \in Proc |-> NoAllocations]
    /\ engine = [p \in Proc |-> Idle]
    /\ server = [p \in Proc |-> [k \in Key |-> NoServer]]
    /\ client = [p \in Proc |-> [k \in Key |-> "none"]]
    /\ bridged = [p \in Proc |-> [k \in Key |-> FALSE]]
    /\ subscribed = [p \in Proc |-> [k \in Key |-> {}]]
    /\ held = [p \in Proc |-> {}]
    /\ failed = {}
    /\ spent = [x \in EnvStep |-> 0]

-----------------------------------------------------------------------------
(* Sending and receiving.  A process names its peers by Client_id.          *)

ClientOf(p, l) == IF p = Server THEN l ELSE 0
Near(p) == IF p = Server THEN "srv" ELSE "cli"
Far(p) == IF p = Server THEN "cli" ELSE "srv"
LineOf(p, c) == IF p = Server THEN c ELSE cur[p]

\* The channels after p sends out[c] to every Client_id c: a send succeeds
\* exactly on a working line.
Post(ch, p, out) ==
    [l \in Conn |->
        IF l \in live /\ LineOf(p, ClientOf(p, l)) = l
        THEN [ch[l] EXCEPT ![Far(p)] = @ \o out[ClientOf(p, l)]]
        ELSE ch[l]]

Sends(p, c) == LineOf(p, c) \in live
To(C, msgs) == [c \in ClientId |-> IF c \in C THEN msgs ELSE <<>>]
Popped(p, l) == [chan EXCEPT ![l][Near(p)] = Tail(@)]

\* The engine thread of p is free to take the next message of line l.
Deliverable(p, l, type) ==
    /\ engine[p] = Idle
    /\ IF p = Server THEN l \in connections[Server] ELSE cur[p] = l
    /\ chan[l][Near(p)] # <<>>
    /\ Head(chan[l][Near(p)]).type = type

Spend(x) ==
    /\ spent[x] < Budget[x]
    /\ spent' = [spent EXCEPT ![x] = @ + 1]

Alive(p) == engine[p] # Dead

\* The reply channels of the peers in C are dereferenced: if one is null the
\* process is gone, otherwise the thread goes on with next.
Dereference(p, C, next) ==
    LET found == C \subseteq connections[p]
    IN /\ engine' = [engine EXCEPT ![p] = IF found THEN next ELSE Dead]
       /\ failed' = IF found THEN failed ELSE failed \cup {"no connection"}

Check(condition, tag) == failed' = IF condition THEN failed ELSE failed \cup {tag}

-----------------------------------------------------------------------------
(* Connection_metadata.  A client's vector of connections is the set of its *)
(* entries, each with its position at.  ConnectionMetadata models the class *)
(* in detail; there for_each_client is shown to visit the newest entries.   *)

KeyAt(vec, k) == {ids \in vec : ids.key = k}
LocalAt(vec, h) == {ids \in vec : ids.local = h}
RemoteAt(vec, h) == {ids \in vec : ids.remote = h}
First(E) == CHOOSE ids \in E : \A other \in E : ids.at \leq other.at
IsNewest(vec, k, ids) ==
    ids \in KeyAt(vec, k) /\ \A other \in KeyAt(vec, k) : other.at \leq ids.at

\* add_mapping appends; is_mapping_present asserts that neither the key nor the
\* local handle is there already.
Added(vec, k, local, remote) ==
    vec \cup {[key |-> k, local |-> local, remote |-> remote, at |-> Cardinality(vec) + 1]}
Consistent(vec, k, local) == \A ids \in vec : ids.local # local /\ ids.key # k

\* Mutant: the entry stays.
EraseKeyNever(vec, k) == vec

\* The removals close the gaps.
EraseKey(vec, k) ==
    LET left == {ids \in vec : ids.key # k}
    IN {[ids EXCEPT !.at = Cardinality({other \in left : other.at \leq ids.at})] : ids \in left}

-----------------------------------------------------------------------------
(* Pieces shared by several handlers.                                       *)

\* Mutants: the subscriptions stay; every event c subscribed to is unsubscribed.
SubscriptionsKept(st, c) == st.subscriptions
SilencedAlways(st, c) == {e \in Event : st.subscriptions[e] # {}}

\* remove_event_subscriptions: client c disappears from every subscriber set,
\* and the events it was the last subscriber of are unsubscribed.
SubscriptionsWithout(st, c) ==
    [e \in Event |-> {s \in st.subscriptions[e] : s.client # c}]
Silenced(st, c) ==
    {e \in Event : st.subscriptions[e] # {} /\ SubscriptionsWithout(st, c)[e] = {}}

MappingWithoutKey(p, k) ==
    [mapping EXCEPT ![p] = [c \in ClientId |-> EraseKey(mapping[p][c], k)]]

\* service_state_change: the local service k came or went, and the interested
\* peers are told.  st is the service's state at that point.
Announce(p, k, st, peers, available, ch) ==
    /\ mapping' = IF available THEN mapping ELSE MappingWithoutKey(p, k)
    /\ local_offers' = [local_offers EXCEPT ![p] = IF available THEN @ \cup {k} ELSE @ \ {k}]
    /\ state' = [state EXCEPT ![p][k] = [st EXCEPT !.exists = TRUE, !.requested = TRUE]]
    /\ chan' = Post(ch, p, To(peers, <<OfferService(k, available)>>))

\* Mutant: the counter is read and not advanced.
AdvancedNever(id, n) == id

\* Id_generator: n identifiers are taken, one after the other.
Advanced(id, n) == id + n

\* The offers send_connect_service answers with a Connect_service.
Fresh(st) ==
    IF st.requested THEN {c \in ClientId : st.offers[c].offered /\ ~st.offers[c].sent} ELSE {}

\* The required_id each of them gets: the one it has, or the next free one.
RequiredId(p, st, c) ==
    IF st.offers[c].required # 0 THEN st.offers[c].required
    ELSE next_id[p] + Cardinality({d \in Fresh(st) : st.offers[d].required = 0 /\ d < c})

\* maybe_send_connect_service_locked for service k in state st, after the
\* messages in out have been sent.
ConnectOffers(p, k, st, ch, out, next) ==
    LET fresh == Fresh(st)
        id(c) == RequiredId(p, st, c)
    IN /\ Dereference(p, fresh, next)
       /\ state' = [state EXCEPT ![p][k] =
              [st EXCEPT !.offers = [c \in ClientId |->
                  IF c \in fresh
                  THEN [offered |-> TRUE, sent |-> Sends(p, c), required |-> id(c)]
                  ELSE st.offers[c]]]]
       /\ pending' = [pending EXCEPT ![p] =
              @ \cup {[id |-> id(c), key |-> k, client |-> c] : c \in fresh}]
       /\ next_id' = [next_id EXCEPT ![p] =
              Advanced(@, Cardinality({c \in fresh : st.offers[c].required = 0}))]
       /\ chan' = Post(ch, p, [c \in ClientId |->
              IF c \in fresh THEN Append(out[c], ConnectService(k, id(c))) ELSE out[c]])

\* Mutants: the offer stays and only its Connect_service is taken back; the
\* peer stays among those interested in a service.
OffersResent(st, c) == [st.offers EXCEPT ![c].sent = FALSE]
InterestedKept(p, c) == interested[p]

OffersWithout(st, c) == [st.offers EXCEPT ![c] = NoOffer]
InterestedWithout(p, c) == [k \in Key |-> interested[p][k] \ {c}]

\* remove_client: the connection and every trace of it; the connectors of the
\* services only it offered are destroyed.
RemoveClient(p, c) ==
    LET orphan(k) ==
            /\ state[p][k].offers[c].offered
            /\ \A d \in ClientId \ {c} : ~state[p][k].offers[d].offered
    IN /\ connections' = [connections EXCEPT ![p] = @ \ {c}]
       /\ state' = [state EXCEPT ![p] = [k \in Key |->
              [state[p][k] EXCEPT
                  !.offers = OffersWithout(state[p][k], c),
                  !.ec = @ /\ ~orphan(k),
                  !.subscriptions = IF orphan(k) THEN NoSubscriptions
                                    ELSE SubscriptionsWithout(state[p][k], c)]]]
       /\ subscribed' = [subscribed EXCEPT ![p] = [k \in Key |->
              subscribed[p][k] \ Silenced(state[p][k], c)]]
       /\ server' = [server EXCEPT ![p] = [k \in Key |->
              IF orphan(k) /\ state[p][k].ec THEN NoServer ELSE server[p][k]]]
       /\ interested' = [interested EXCEPT ![p] = InterestedWithout(p, c)]
       /\ mapping' = [mapping EXCEPT ![p][c] = {}]
       /\ pending' = [pending EXCEPT ![p] = {q \in @ : q.client # c}]
       /\ UNCHANGED <<local_offers, next_id, client, bridged, held>>

-----------------------------------------------------------------------------
(* The transport: connection, loss, and what both ends do on it.            *)

\* A client process reaches kReady: the server's connect callback registers
\* the connection, the client sends Connect.  The server has seen the end of
\* the client's previous connection by then.
TransportConnect(g) ==
    /\ cur[g] = 0 /\ Alive(g) /\ engine[Server] = Idle
    /\ \A l \in connections[Server] : owner[l] # g
    /\ \E l \in Conn :
        /\ owner[l] = Server
        /\ \A m \in 1 .. l - 1 : owner[m] # Server
        /\ owner' = [owner EXCEPT ![l] = g]
        /\ cur' = [cur EXCEPT ![g] = l]
        /\ live' = live \cup {l}
        /\ chan' = [chan EXCEPT ![l].srv = <<Connect>>]
        /\ connections' = [connections EXCEPT ![Server] = @ \cup {l}]
    /\ UNCHANGED <<state, mapping, pending, local_offers, interested, next_id,
                   allocations, engine, socomVars, failed, spent>>

LoseLink(l) ==
    /\ l \in live /\ Spend("lose")
    /\ live' = live \ {l}
    /\ UNCHANGED <<cur, owner, chan, bindingVars, allocations, engine, socomVars, failed>>

\* on_state_change(kStopping) at the client: what is still queued is lost.
ClientDown(g) ==
    /\ cur[g] # 0 /\ cur[g] \notin live /\ engine[g] = Idle
    /\ RemoveClient(g, 0)
    /\ cur' = [cur EXCEPT ![g] = 0]
    /\ chan' = [chan EXCEPT ![cur[g]].cli = <<>>]
    /\ UNCHANGED <<live, owner, allocations, engine, failed, spent>>

\* The server's disconnect callback.
ServerDisconnect(l) ==
    /\ l \in connections[Server] \ live /\ engine[Server] = Idle
    /\ RemoveClient(Server, l)
    /\ chan' = [chan EXCEPT ![l].srv = <<>>]
    /\ UNCHANGED <<transportVars, allocations, engine, failed, spent>>
-----------------------------------------------------------------------------
(* Handshake.  Both handlers release m_mutex before they re-send the        *)
(* requests; the keys are visited in any order.                             *)

Orders(K) == {o \in [1 .. Cardinality(K) -> K] :
                 \A i, j \in 1 .. Cardinality(K) : o[i] = o[j] => i = j}

\* Mutant: nothing is asked for again.
RequestsForgotten(order) == <<>>

Requests(order) == [i \in DOMAIN order |-> RequestService(order[i], TRUE)]

RecvConnect(l) ==
    /\ Deliverable(Server, l, "Connect")
    /\ chan' = Post(Popped(Server, l), Server, To({l}, <<ConnectReply>>))
    /\ engine' = [engine EXCEPT ![Server] = [step |-> "resend", client |-> l]]
    /\ UNCHANGED <<transportVars, bindingVars, allocations, socomVars, failed, spent>>

\* handle_connect_message, second part: every requested service again.
ResendToClient ==
    /\ engine[Server].step = "resend"
    /\ \E order \in Orders({k \in Key : state[Server][k].requested}) :
        chan' = Post(chan, Server, To({engine[Server].client}, Requests(order)))
    /\ engine' = [engine EXCEPT ![Server] = Idle]
    /\ UNCHANGED <<transportVars, bindingVars, allocations, socomVars, failed, spent>>

\* The client's handle_connect_reply_message registers the reply channel.
RecvConnectReply(g, l) ==
    /\ Deliverable(g, l, "Connect_reply")
    /\ chan' = Popped(g, l)
    /\ connections' = [connections EXCEPT ![g] = @ \cup {0}]
    /\ engine' = [engine EXCEPT ![g] = [step |-> "resend", client |-> 0]]
    /\ UNCHANGED <<transportVars, state, mapping, pending, local_offers, interested,
                   next_id, allocations, socomVars, failed, spent>>

\* The base's handle_connect_reply_message.  Its maybe_send_connect_service
\* finds nothing to connect (NothingToConnectYet).
ResendToServer(g) ==
    /\ engine[g].step = "resend"
    /\ \E order \in Orders({k \in Key : state[g][k].requested /\ ~state[g][k].cc}) :
        chan' = Post(chan, g, To(connections[g], Requests(order)))
    /\ engine' = [engine EXCEPT ![g] = Idle]
    /\ UNCHANGED <<transportVars, bindingVars, allocations, socomVars, failed, spent>>

-----------------------------------------------------------------------------
(* Discovery: Request_service and Offer_service.                            *)

\* handle_request_service_message, in_use = false.
RecvUnrequest(p, l) ==
    LET c == ClientOf(p, l)
        m == Head(chan[l][Near(p)])
    IN /\ Deliverable(p, l, "Request_service") /\ ~m.in_use
       /\ chan' = Popped(p, l)
       /\ state' = [state EXCEPT ![p] = [k \in Key |->
              [state[p][k] EXCEPT !.subscriptions = SubscriptionsWithout(state[p][k], c)]]]
       /\ subscribed' = [subscribed EXCEPT ![p] = [k \in Key |->
              subscribed[p][k] \ Silenced(state[p][k], c)]]
       /\ mapping' = [mapping EXCEPT ![p][c] = EraseKey(@, m.key)]
       /\ pending' = [pending EXCEPT ![p] = {q \in @ : ~(q.key = m.key /\ q.client = c)}]
       /\ interested' = [interested EXCEPT ![p][m.key] = @ \ {c}]
       /\ UNCHANGED <<transportVars, connections, local_offers, next_id, allocations, engine,
                      server, client, bridged, held, failed, spent>>

\* handle_request_service_message, in_use = true, for a service that is offered
\* here already, or that this process has a connector or a request of its own for.
RecvRequestKnown(p, l) ==
    LET c == ClientOf(p, l)
        m == Head(chan[l][Near(p)])
        k == m.key
        offer == IF k \in local_offers[p] THEN <<OfferService(k, TRUE)>> ELSE <<>>
    IN /\ Deliverable(p, l, "Request_service") /\ m.in_use
       /\ \/ k \in local_offers[p]
          \/ state[p][k].cc \/ state[p][k].ec \/ state[p][k].requested
       /\ chan' = Post(Popped(p, l), p, To({c}, offer))
       /\ interested' = [interested EXCEPT ![p][k] = @ \cup {c}]
       /\ UNCHANGED <<transportVars, connections, state, mapping, pending, local_offers,
                      next_id, allocations, engine, socomVars, failed, spent>>

\* The same for any other service: the binding creates a client connector.  A
\* server connector that is there is announced from within.  (The bridge
\* request the connector would cause is recognised and ignored.)
RecvRequestNew(p, l) ==
    LET c == ClientOf(p, l)
        m == Head(chan[l][Near(p)])
        k == m.key
        peers == interested[p][k] \cup {c}
        tracked == [state[p][k] EXCEPT !.exists = TRUE, !.cc = client[p][k] = "none"]
        found == tracked.cc /\ server[p][k].kind # "none"
    IN /\ Deliverable(p, l, "Request_service") /\ m.in_use
       /\ k \notin local_offers[p]
       /\ ~state[p][k].cc /\ ~state[p][k].ec /\ ~state[p][k].requested
       /\ interested' = [interested EXCEPT ![p][k] = peers]
       /\ client' = [client EXCEPT ![p][k] = IF @ = "none" THEN "binding" ELSE @]
       /\ IF found
          THEN /\ Announce(p, k, tracked, peers, TRUE, Popped(p, l))
               /\ Dereference(p, peers, Idle)
          ELSE /\ state' = [state EXCEPT ![p][k] = tracked]
               /\ chan' = Popped(p, l)
               /\ UNCHANGED <<mapping, local_offers, engine, failed>>
       /\ UNCHANGED <<transportVars, connections, pending, next_id, allocations,
                      server, bridged, subscribed, held, spent>>

\* handle_offer_service_message
RecvOffer(p, l) ==
    LET c == ClientOf(p, l)
        m == Head(chan[l][Near(p)])
        k == m.key
    IN /\ Deliverable(p, l, "Offer_service") /\ m.offered
       /\ ConnectOffers(p, k, [state[p][k] EXCEPT !.exists = TRUE, !.offers[c].offered = TRUE],
                        Popped(p, l), To({}, <<>>), Idle)
       /\ UNCHANGED <<transportVars, connections, mapping, local_offers, interested,
                      allocations, socomVars, spent>>

RecvUnoffer(p, l) ==
    LET c == ClientOf(p, l)
        m == Head(chan[l][Near(p)])
        k == m.key
    IN /\ Deliverable(p, l, "Offer_service") /\ ~m.offered
       /\ chan' = Popped(p, l)
       /\ state' = [state EXCEPT ![p][k] =
              [@ EXCEPT !.exists = TRUE, !.ec = FALSE, !.offers[c] = NoOffer,
                        !.subscriptions = NoSubscriptions]]
       /\ server' = [server EXCEPT ![p][k] = IF state[p][k].ec THEN NoServer ELSE @]
       /\ mapping' = MappingWithoutKey(p, k)
       /\ pending' = [pending EXCEPT ![p] = {q \in @ : ~(q.key = k /\ q.client = c)}]
       /\ UNCHANGED <<transportVars, connections, local_offers, interested, next_id,
                      allocations, engine, client, bridged, subscribed, held, failed, spent>>
-----------------------------------------------------------------------------
(* Connecting a service: Connect_service and Connect_service_reply.         *)

\* handle_connect_service_message (in_use = false is never sent).
RecvConnectService(p, l) ==
    LET c == ClientOf(p, l)
        m == Head(chan[l][Near(p)])
    IN /\ Deliverable(p, l, "Connect_service")
       /\ next_id' = [next_id EXCEPT ![p] = Advanced(@, 1)]
       /\ mapping' = [mapping EXCEPT ![p][c] = Added(@, m.key, next_id[p], m.required)]
       /\ chan' = Post(Popped(p, l), p, To({d \in {c} : state[p][m.key].exists},
                                          <<ConnectServiceReply(m.required, next_id[p])>>))
       /\ engine' = [engine EXCEPT ![p] = IF state[p][m.key].exists THEN @ ELSE Dead]
       /\ failed' = failed
              \cup {t \in {"inconsistent mapping"} : ~Consistent(mapping[p][c], m.key, next_id[p])}
              \cup {t \in {"no service state"} : ~state[p][m.key].exists}
       /\ UNCHANGED <<transportVars, connections, state, pending, local_offers, interested,
                      allocations, socomVars, spent>>

\* handle_connect_service_reply_message, first critical section.
RecvConnectServiceReply(p, l) ==
    LET c == ClientOf(p, l)
        m == Head(chan[l][Near(p)])
        asked == {q \in pending[p] : q.id = m.required /\ q.client = c}
    IN /\ Deliverable(p, l, "Connect_service_reply")
       /\ chan' = Popped(p, l)
       /\ pending' = [pending EXCEPT ![p] = @ \ asked]
       /\ IF \E q \in asked : state[p][q.key].exists
          THEN \E q \in asked :
                 /\ mapping' = [mapping EXCEPT ![p][c] = Added(@, q.key, m.provided, m.required)]
                 /\ Check(Consistent(mapping[p][c], q.key, m.provided), "inconsistent mapping")
                 /\ engine' = [engine EXCEPT ![p] =
                        [step |-> "make", key |-> q.key, client |-> c,
                         provided |-> m.provided, dangling |-> FALSE]]
          ELSE UNCHANGED <<mapping, failed, engine>>
       /\ UNCHANGED <<transportVars, connections, state, local_offers, interested, next_id,
                      allocations, socomVars, spent>>

\* Mutant: the events are counted from 1.
SubscriptionsFromOne(h, k, b) == [i \in 1 .. NumEvents |-> SubscribeEvent(h, i, b, k)]

Subscriptions(h, k, b) == [i \in 1 .. NumEvents |-> SubscribeEvent(h, i - 1, b, k)]

\* Between the critical sections the connector is made and enabled.  The name
\* of the service is read through a pointer into m_service_states, which a
\* withdrawn request may have freed.  An application waiting for the service
\* is told and subscribes to every event at once.
MakeConnector(p) ==
    LET e == engine[p]
        waiting == client[p][e.key] = "app" /\ e.client \in connections[p]
    IN /\ e.step = "make"
       /\ IF server[p][e.key].kind = "none"
          THEN /\ server' = [server EXCEPT ![p][e.key] =
                      [kind |-> "binding", client |-> e.client, provided |-> e.provided]]
               /\ chan' = Post(chan, p, To({c \in {e.client} : waiting},
                                          Subscriptions(e.provided, e.key, TRUE)))
               /\ \E after \in {[e EXCEPT !.step = "add"]} \cup {d \in {Dead} : e.dangling} :
                      engine' = [engine EXCEPT ![p] = after]
               /\ Check(~e.dangling, "dangling service state")
          ELSE /\ engine' = [engine EXCEPT ![p] = Idle]
               /\ Check(FALSE, "duplicate server connector")
               /\ UNCHANGED <<server, chan>>
       /\ UNCHANGED <<transportVars, bindingVars, allocations, client, bridged, subscribed,
                      held, spent>>

\* The second critical section, add_server_connector: without a state for the
\* key the connector is destroyed again.
AddConnector(p) ==
    LET k == engine[p].key
    IN /\ engine[p].step = "add"
       /\ engine' = [engine EXCEPT ![p] = Idle]
       /\ IF state[p][k].exists
          THEN state' = [state EXCEPT ![p][k].ec = TRUE] /\ UNCHANGED server
          ELSE server' = [server EXCEPT ![p][k] = NoServer] /\ UNCHANGED state
       /\ UNCHANGED <<transportVars, chan, connections, mapping, pending, local_offers,
                      interested, next_id, allocations, client, bridged, subscribed, held,
                      failed, spent>>

-----------------------------------------------------------------------------
(* Events: Subscribe_event, Event_update and Payload_consumed.              *)

\* handle_subscribe_event_message and update_event_subscription: only the first
\* subscriber of an event is passed on, and only the last one takes it back.
RecvSubscribe(p, l) ==
    LET c == ClientOf(p, l)
        m == Head(chan[l][Near(p)])
        known == LocalAt(mapping[p][c], m.provided) # {}
        k == First(LocalAt(mapping[p][c], m.provided)).key
        before == state[p][k].subscriptions[m.event]
        endpoint == [client |-> c, provided |-> m.provided]
        after == IF m.subscribe THEN before \cup {endpoint} ELSE before \ {endpoint}
        connected == state[p][k].cc /\ server[p][k].kind # "none"
    IN /\ Deliverable(p, l, "Subscribe_event")
       /\ chan' = Popped(p, l)
       /\ IF known /\ state[p][k].exists
          THEN /\ state' = [state EXCEPT ![p][k].subscriptions[m.event] = after]
               /\ subscribed' = [subscribed EXCEPT ![p][k] =
                      CASE before = {} /\ after # {} /\ connected -> @ \cup {m.event}
                        [] before # {} /\ after = {} -> @ \ {m.event}
                        [] OTHER -> @]
          ELSE UNCHANGED <<state, subscribed>>
       /\ UNCHANGED <<transportVars, connections, mapping, pending, local_offers, interested,
                      next_id, allocations, engine, server, client, bridged, held, failed, spent>>

\* handle_event_update_message: the payload goes to the application, or is
\* dropped and reported consumed at once if nobody is there to take it.
RecvEventUpdate(p, l) ==
    LET c == ClientOf(p, l)
        m == Head(chan[l][Near(p)])
        known == RemoteAt(mapping[p][c], m.required) # {}
        k == First(RemoteAt(mapping[p][c], m.required)).key
        payload == [client |-> c, required |-> m.required, slot |-> m.slot, key |-> m.key]
        taken == client[p][k] = "app"
        reply == {d \in {c} : known /\ state[p][k].ec /\ ~taken /\ c \in connections[p]}
    IN /\ Deliverable(p, l, "Event_update")
       /\ held' = [held EXCEPT ![p] =
              IF known /\ state[p][k].ec /\ taken THEN @ \cup {payload} ELSE @]
       /\ chan' = Post(Popped(p, l), p, To(reply, <<PayloadConsumed(m.required, m.slot, m.key)>>))
       /\ Check(known => state[p][k].ec, "no connector")
       /\ UNCHANGED <<transportVars, bindingVars, allocations, engine, server, client, bridged,
                      subscribed, spent>>

\* handle_payload_consumed_message
RecvPayloadConsumed(p, l) ==
    LET c == ClientOf(p, l)
        m == Head(chan[l][Near(p)])
        known == RemoteAt(mapping[p][c], m.required) # {}
        k == First(RemoteAt(mapping[p][c], m.required)).key
    IN /\ Deliverable(p, l, "Payload_consumed")
       /\ chan' = Popped(p, l)
       /\ allocations' = IF known /\ allocations[p][k][m.slot] > 0
                         THEN [allocations EXCEPT ![p][k][m.slot] = @ - 1]
                         ELSE allocations
       /\ UNCHANGED <<transportVars, bindingVars, engine, socomVars, failed, spent>>
-----------------------------------------------------------------------------
(* Applications, through SOCom.                                             *)

\* enable() of the application's server connector: a client connector of the
\* binding is connected to it and announces it.
AppOffer(p, k) ==
    /\ p = Provider[k] /\ Alive(p) /\ Spend("offer")
    /\ server[p][k].kind = "none"
    /\ server' = [server EXCEPT ![p][k] = AppServer]
    /\ IF client[p][k] = "binding"
       THEN /\ Announce(p, k, state[p][k], interested[p][k], TRUE, chan)
            /\ Dereference(p, interested[p][k], engine[p])
       ELSE UNCHANGED <<mapping, local_offers, state, chan, engine, failed>>
    /\ UNCHANGED <<transportVars, connections, pending, interested, next_id, allocations,
                   client, bridged, subscribed, held>>

\* disable(): the subscriptions end without a callback.
AppStop(p, k) ==
    /\ Alive(p) /\ Spend("stop")
    /\ server[p][k].kind = "app"
    /\ server' = [server EXCEPT ![p][k] = NoServer]
    /\ subscribed' = [subscribed EXCEPT ![p][k] = {}]
    /\ IF client[p][k] = "binding"
       THEN /\ Announce(p, k, state[p][k], interested[p][k], FALSE, chan)
            /\ Dereference(p, interested[p][k], engine[p])
       ELSE UNCHANGED <<mapping, local_offers, state, chan, engine, failed>>
    /\ UNCHANGED <<transportVars, connections, pending, interested, next_id, allocations,
                   client, bridged, held>>

Settled == \A l \in connections[Server] : cur[owner[l]] = l /\ 0 \in connections[owner[l]]

\* make_client_connector for a service that is not there: the bridge request
\* reaches send_request_service.
AppRequest(p, k) ==
    /\ p # Provider[k] /\ Alive(p) /\ Spend("request")
    /\ p = Server => EarlyRequests \/ Settled
    /\ client[p][k] = "none" /\ server[p][k].kind = "none"
    /\ client' = [client EXCEPT ![p][k] = "app"]
    /\ bridged' = [bridged EXCEPT ![p][k] = TRUE]
    /\ ConnectOffers(p, k, [state[p][k] EXCEPT !.exists = TRUE, !.requested = TRUE], chan,
                     To(connections[p], <<RequestService(k, TRUE)>>), engine[p])
    /\ UNCHANGED <<transportVars, connections, mapping, local_offers, interested, allocations,
                   server, subscribed, held>>

\* make_client_connector when the binding's server connector is there: it is
\* connected directly and holds no bridge request.
AppRequestPresent(p, k) ==
    LET s == server[p][k]
    IN /\ p # Provider[k] /\ Alive(p) /\ Spend("request")
       /\ client[p][k] = "none" /\ s.kind = "binding"
       /\ client' = [client EXCEPT ![p][k] = "app"]
       /\ chan' = Post(chan, p, To({s.client} \cap connections[p],
                                  Subscriptions(s.provided, k, TRUE)))
       /\ UNCHANGED <<transportVars, bindingVars, allocations, engine, server, bridged,
                      subscribed, held, failed>>

\* make_client_connector when the binding has a client connector: refused.
AppRequestRefused(p, k) ==
    /\ p # Provider[k] /\ Alive(p) /\ Spend("request")
    /\ client[p][k] = "binding"
    /\ failed' = failed \cup {"duplicate client"}
    /\ UNCHANGED <<transportVars, chan, bindingVars, allocations, engine, socomVars>>

\* The application's client connector is destroyed: its subscriptions end, then
\* its bridge request, if it holds one, reaches send_request_service(false).
AppWithdraw(p, k) ==
    LET s == server[p][k]
        b == bridged[p][k]
        unsubscribe == To({c \in {s.client} \cap connections[p] : s.kind = "binding"},
                          Subscriptions(s.provided, k, FALSE))
        unrequest == To({c \in connections[p] : b}, <<RequestService(k, FALSE)>>)
        freed == b /\ engine[p].step = "make" /\ engine[p].key = k
    IN /\ client[p][k] = "app" /\ Alive(p) /\ Spend("withdraw")
       /\ client' = [client EXCEPT ![p][k] = "none"]
       /\ bridged' = [bridged EXCEPT ![p][k] = FALSE]
       /\ chan' = Post(chan, p, [c \in ClientId |-> unsubscribe[c] \o unrequest[c]])
       /\ state' = IF b THEN [state EXCEPT ![p][k] = NoState] ELSE state
       /\ server' = IF b /\ state[p][k].ec THEN [server EXCEPT ![p][k] = NoServer] ELSE server
       /\ mapping' = IF b THEN MappingWithoutKey(p, k) ELSE mapping
       /\ pending' = [pending EXCEPT ![p] = {q \in @ : b => q.key # k}]
       /\ engine' = IF freed THEN [engine EXCEPT ![p].dangling = TRUE] ELSE engine
       /\ UNCHANGED <<transportVars, connections, local_offers, interested, next_id,
                      allocations, subscribed, held, failed>>

\* Mutant: one consumer is counted, however many there are.
DeliveredOnce(p, C) == IF \E c \in C : Sends(p, c) THEN 1 ELSE 0

\* The number of peers in C a send to succeeds.
Delivered(p, C) == Cardinality({c \in C : Sends(p, c)})

\* allocate_event_payload and update_event at the provider, send_event_update
\* in the binding: one Event_update per connected peer, and as many pending
\* consumers as sends that succeeded.
Publish(p, k, e, s) ==
    LET peers == {c \in ClientId : KeyAt(mapping[p][c], k) # {}}
        reached == peers \cap connections[p]
    IN /\ server[p][k].kind = "app" /\ Alive(p) /\ Spend("publish")
       /\ e \in subscribed[p][k]
       /\ allocations[p][k][s] = 0
       /\ allocations' = [allocations EXCEPT ![p][k][s] = Delivered(p, reached)]
       /\ \E newest \in [reached -> UNION {mapping[p][c] : c \in reached}] :
            /\ \A c \in reached : IsNewest(mapping[p][c], k, newest[c])
            /\ chan' = Post(chan, p, [c \in ClientId |->
                   IF c \in reached THEN <<EventUpdate(newest[c].remote, e, s, k)>> ELSE <<>>])
       /\ Check(peers \subseteq connections[p], "no connection")
       /\ UNCHANGED <<transportVars, bindingVars, engine, socomVars>>

\* Mutant: the payload is dropped without a report.
DropPayloadSilently(p, h) ==
    /\ Alive(p)
    /\ held' = [held EXCEPT ![p] = @ \ {h}]
    /\ UNCHANGED <<transportVars, chan, bindingVars, allocations, engine, server, client,
                   bridged, subscribed, failed, spent>>

\* The application drops a payload: the destruction callback reports it.
DropPayload(p, h) ==
    /\ Alive(p)
    /\ held' = [held EXCEPT ![p] = @ \ {h}]
    /\ chan' = Post(chan, p, To({h.client} \cap connections[p],
                               <<PayloadConsumed(h.required, h.slot, h.key)>>))
    /\ UNCHANGED <<transportVars, bindingVars, allocations, engine, server, client, bridged,
                   subscribed, failed, spent>>
-----------------------------------------------------------------------------
(* A process ends and is started again: its connections break, and nothing  *)
(* of its state is kept, the handle counter included.                       *)

Restart(p) ==
    LET mine == {l \in Conn : p = Server \/ owner[l] = p}
    IN /\ Spend("restart")
       /\ live' = live \ mine
       /\ cur' = [g \in Clients |-> IF g = p THEN 0 ELSE cur[g]]
       /\ chan' = [l \in Conn |-> IF l \in mine THEN [chan[l] EXCEPT ![Near(p)] = <<>>]
                                  ELSE chan[l]]
       /\ connections' = [connections EXCEPT ![p] = {}]
       /\ state' = [state EXCEPT ![p] = [k \in Key |-> NoState]]
       /\ mapping' = [mapping EXCEPT ![p] = [c \in ClientId |-> {}]]
       /\ pending' = [pending EXCEPT ![p] = {}]
       /\ local_offers' = [local_offers EXCEPT ![p] = {}]
       /\ interested' = [interested EXCEPT ![p] = [k \in Key |-> {}]]
       /\ next_id' = [next_id EXCEPT ![p] = 1]
       /\ allocations' = [allocations EXCEPT ![p] = NoAllocations]
       /\ engine' = [engine EXCEPT ![p] = Idle]
       /\ server' = [server EXCEPT ![p] = [k \in Key |-> NoServer]]
       /\ client' = [client EXCEPT ![p] = [k \in Key |-> "none"]]
       /\ bridged' = [bridged EXCEPT ![p] = [k \in Key |-> FALSE]]
       /\ subscribed' = [subscribed EXCEPT ![p] = [k \in Key |-> {}]]
       /\ held' = [held EXCEPT ![p] = {}]
       /\ UNCHANGED <<owner, failed>>

-----------------------------------------------------------------------------
\* What the engine thread of p does on its own.
Engine(p) ==
    \/ \E l \in Conn :
        \/ RecvUnrequest(p, l) \/ RecvRequestKnown(p, l) \/ RecvRequestNew(p, l)
        \/ RecvOffer(p, l) \/ RecvUnoffer(p, l)
        \/ RecvConnectService(p, l) \/ RecvConnectServiceReply(p, l)
        \/ RecvSubscribe(p, l) \/ RecvEventUpdate(p, l) \/ RecvPayloadConsumed(p, l)
    \/ MakeConnector(p) \/ AddConnector(p)

ServerEngine ==
    \/ \E l \in Conn : RecvConnect(l) \/ ServerDisconnect(l)
    \/ ResendToClient

ClientEngine(g) ==
    \/ \E l \in Conn : RecvConnectReply(g, l)
    \/ ResendToServer(g) \/ ClientDown(g) \/ TransportConnect(g)

Drop(p) == \E h \in held[p] : DropPayload(p, h)

Application(p) ==
    \E k \in Key :
        \/ AppOffer(p, k) \/ AppStop(p, k)
        \/ AppRequest(p, k) \/ AppRequestPresent(p, k) \/ AppRequestRefused(p, k)
        \/ AppWithdraw(p, k)
        \/ \E e \in Event, s \in Slot : Publish(p, k, e, s)

Next ==
    \/ \E p \in Proc : Engine(p) \/ Application(p) \/ Drop(p) \/ Restart(p)
    \/ ServerEngine
    \/ \E g \in Clients : ClientEngine(g)
    \/ \E l \in Conn : LoseLink(l)

Spec == Init /\ [][Next]_vars

\* The engine threads run, the transport reconnects, applications drop the
\* payloads they were given.  Nothing else has to happen.
Fairness ==
    /\ \A p \in Proc : WF_vars(Engine(p)) /\ WF_vars(Drop(p))
    /\ WF_vars(ServerEngine)
    /\ \A g \in Clients : WF_vars(ClientEngine(g))

FairSpec == Spec /\ Fairness

-----------------------------------------------------------------------------
Ids == [key : Key, local : Nat, remote : Nat, at : Nat]
OfferState == [offered : BOOLEAN, sent : BOOLEAN, required : Nat]
Endpoint == [client : ClientId, provided : Nat]
ServiceState == [exists : BOOLEAN, requested : BOOLEAN, cc : BOOLEAN, ec : BOOLEAN,
                 offers : [ClientId -> OfferState],
                 subscriptions : [Event -> SUBSET Endpoint]]
ServerConnector == [kind : {"none", "app", "binding"}, client : ClientId, provided : Nat]
EngineStep == {Idle, Dead} \cup [step : {"resend"}, client : ClientId]
    \cup [step : {"make", "add"}, key : Key, client : ClientId, provided : Nat,
          dangling : BOOLEAN]

Channels == [Conn -> [srv : Seq(Message), cli : Seq(Message)]]

\* Well-typed state.
TypeOK ==
    /\ live \subseteq Conn
    /\ cur \in [Clients -> ClientId] /\ owner \in [Conn -> Proc]
    /\ chan \in Channels
    /\ connections \in [Proc -> SUBSET ClientId]
    /\ state \in [Proc -> [Key -> ServiceState]]
    /\ mapping \in [Proc -> [ClientId -> SUBSET Ids]]
    /\ \A p \in Proc, c \in ClientId : IsFiniteSet(mapping[p][c])
    /\ pending \in [Proc -> SUBSET [id : Nat, key : Key, client : ClientId]]
    /\ local_offers \in [Proc -> SUBSET Key]
    /\ interested \in [Proc -> [Key -> SUBSET ClientId]]
    /\ next_id \in [Proc -> Nat]
    /\ allocations \in [Proc -> [Key -> [Slot -> Nat]]]
    /\ engine \in [Proc -> EngineStep]
    /\ server \in [Proc -> [Key -> ServerConnector]]
    /\ client \in [Proc -> [Key -> {"none", "app", "binding"}]]
    /\ bridged \in [Proc -> [Key -> BOOLEAN]]
    /\ subscribed \in [Proc -> [Key -> SUBSET Event]]
    /\ held \in [Proc -> SUBSET [client : ClientId, required : Nat, slot : Slot, key : Key]]
    /\ spent \in [EnvStep -> Nat]
=============================================================================
