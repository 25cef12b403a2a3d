------------------------- MODULE GatewayProperties -------------------------
(***************************************************************************)
(* What the gateway IPC binding promises, over the state of GatewayBinding.*)
(***************************************************************************)
EXTENDS GatewayBinding

\* The Client_ids the binding of p has anything recorded for.
Referenced(p) ==
    {c \in ClientId :
        \/ mapping[p][c] # {}
        \/ \E q \in pending[p] : q.client = c
        \/ \E k \in Key :
            \/ c \in interested[p][k] \/ state[p][k].offers[c].offered
            \/ \E e \in Event : \E s \in state[p][k].subscriptions[e] : s.client = c}

\* Nothing the server's binding records about a peer outlives the connection to
\* it: remove_client_state_locked forgets every trace, and no handler running
\* later brings one back.  The callbacks dereference reply channels on the
\* strength of this.
ServerReferencesLive == Referenced(Server) \subseteq connections[Server]

\* The same for the client processes, whose only Client_id is 0.  They register
\* the connection late, when Connect_reply arrives.
ClientReferencesLive == \A g \in Clients : Referenced(g) \subseteq connections[g]

\* handle_connect_reply_message looks for offers to connect, but none can have
\* survived the previous connection or overtaken the reply.
NothingToConnectYet ==
    \A g \in Clients : engine[g].step = "resend" => \A k \in Key : Fresh(state[g][k]) = {}

Consumers(k) == {p \in Proc : p # Provider[k] /\ Server \in {p, Provider[k]}}
Wanted(p, k) == client[p][k] = "app" /\ server[Provider[k]][k].kind = "app"
Served(p, k) == server[p][k].kind = "binding"

Connected(g) == cur[g] \in live /\ 0 \in connections[g]
Quiet ==
    /\ \A l \in Conn : chan[l] = NoQueues
    /\ \A p \in Proc : engine[p] = Idle
    /\ \A g \in Clients : Connected(g)
    /\ connections[Server] = {cur[g] : g \in Clients}

\* Once all messages are processed a consumer has the service exactly when it
\* asked for it and the provider offers it, whatever requests, offers, stops
\* and reconnects crossed each other before.
QuiescentAvailability ==
    Quiet => \A k \in Key : \A p \in Consumers(k) : Served(p, k) <=> Wanted(p, k)

\* The mapping vectors of the two ends of the line between p and its peer.
Peer(p, g) == IF p = Server THEN g ELSE Server
VectorOf(p, g) == IF p = Server THEN mapping[p][cur[g]] ELSE mapping[p][0]

\* Once all messages are processed, the connection a consumer has for a service
\* is the newest one the provider has for it with this consumer, handles
\* included: for_each_client sends the events where they are expected.
NewestMappingShared ==
    Quiet => \A g \in Clients, k \in Key : \A p \in Consumers(k) \cap {Server, g} :
        LET here == VectorOf(p, g)
            there == VectorOf(Peer(p, g), g)
        IN \A ids \in KeyAt(here, k) : \E same \in there :
               /\ IsNewest(there, k, same)
               /\ same.local = ids.local /\ same.remote = ids.remote

\* The messages on their way to p, and the one among them it looks up.
Queued(p, l, type) ==
    {m \in {chan[l][Near(p)][i] : i \in 1 .. Len(chan[l][Near(p)])} : m.type = type}
Attached(p, l) == IF p = Server THEN l \in connections[Server] ELSE cur[p] = l

\* A message that names a service by a handle reaches that service or none:
\* the receiver's lookup never finds the connection of another service.
NoMisroute ==
    \A p \in Proc : \A l \in {x \in Conn : Attached(p, x)} :
        LET vec == mapping[p][ClientOf(p, l)]
        IN /\ \A m \in Queued(p, l, "Subscribe_event") :
                 LocalAt(vec, m.provided) # {} => First(LocalAt(vec, m.provided)).key = m.key
           /\ \A m \in Queued(p, l, "Event_update") \cup Queued(p, l, "Payload_consumed") :
                 RemoteAt(vec, m.required) # {} => First(RemoteAt(vec, m.required)).key = m.key

\* gateway_ipc_binding.hpp on Remote_handle: "It must be unique across all
\* connections".  No two services of one connection share a handle.
HandlesUnique ==
    \A p \in Proc, c \in ClientId :
        \A a, b \in mapping[p][c] :
            a.key # b.key => a.local # b.local /\ a.remote # b.remote

\* ipc_protocol.rst on Request_service: "Sent when the local SOCom runtime
\* requests a service through the registered bridge".  The process that offers
\* a service never asks its peers for it.
RequestsAreBridged ==
    \A k \in Key : \A l \in Conn :
        /\ Provider[k] = Server =>
               \A m \in Queued(owner[l], l, "Request_service") : ~(m.key = k /\ m.in_use)
        /\ Provider[k] = owner[l] =>
               \A m \in Queued(Server, l, "Request_service") : ~(m.key = k /\ m.in_use)

\* The assertions of service_state_change and send_event_update, "Connection
\* not found for client_id", and of maybe_send_connect_service_locked.
ConnectionFound == "no connection" \notin failed

\* The uses of slot s of service k: updates on their way to a consumer, payloads
\* it holds, reports on their way back.  A slot is published once at a time, so
\* sets of messages count them.
Uses(k, s) ==
    LET q == Provider[k]
        on(m) == m.key = k /\ m.slot = s
    IN UNION {
         {<<"update", l>> : l \in {x \in Conn : \E p \in Consumers(k) :
              Attached(p, x) /\ \E m \in Queued(p, x, "Event_update") : on(m)}},
         {<<"report", l>> : l \in {x \in Conn : Attached(q, x)
              /\ \E m \in Queued(q, x, "Payload_consumed") : on(m)}},
         UNION {{<<p, h>> : h \in {x \in held[p] : on(x)}} : p \in Consumers(k)}}

\* A slot is not given to a new event while a consumer can still read it: the
\* provider's pending_consumers never falls below the uses of the slot.
NoPrematureRelease ==
    \A k \in Key, s \in Slot : Cardinality(Uses(k, s)) \leq allocations[Provider[k]][k][s]

\* shared_memory.rst: "payload ownership is tracked on the sender side until the
\* receiver signals Payload_consumed".  As long as no line was lost, no service
\* stopped and no request withdrawn, pending_consumers is exactly the number of
\* uses: no slot is lost and none is counted twice.
Undisturbed == \A x \in {"stop", "withdraw", "lose", "restart"} : spent[x] = 0
SlotAccounting ==
    Undisturbed =>
        \A k \in Key, s \in Slot : allocations[Provider[k]][k][s] = Cardinality(Uses(k, s))

\* Once all messages are processed the provider's server connector has exactly
\* the events subscribed that a served consumer is subscribed to: all or none.
SubscriptionsPropagate ==
    Quiet => \A k \in Key :
        subscribed[Provider[k]][k] =
            IF \E p \in Consumers(k) : Served(p, k) /\ client[p][k] = "app" THEN Event ELSE {}

\* A consumer that keeps asking for a service that stays offered gets it and
\* keeps it, across losses of the connection.
EventuallyServed ==
    \A k \in Key : \A p \in Consumers(k) : <>[]Wanted(p, k) => <>[]Served(p, k)

\* index.rst: "Payload lifetime is closed by Payload_consumed, which lets the
\* sender release the underlying slot".  In an undisturbed system every slot in
\* use becomes free again.
SlotsReturn ==
    \A k \in Key, s \in Slot :
        []Undisturbed => [](allocations[Provider[k]][k][s] > 0
                              => <>(allocations[Provider[k]][k][s] = 0))
=============================================================================
