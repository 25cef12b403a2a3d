# Specification of the SOME/IP gateway

TLA+ modules, TLC configurations and TLAPS proofs for the gateway under
`src/score`. `PROJECT.json` lists components, runs, theorems, hazards and, for
every definition that models code, the lines it models.

## The system and its parts

Two daemons bridge local communication (mw::com) and SOME/IP.

| Part | Source (`src/score/`) | Modelled |
|---|---|---|
| gatewayd: mw::com side, client of the binding | `gatewayd` | `Daemons`, `EventCodec` |
| someipd: vsomeip side, server of the binding | `someipd` | `Daemons`, `EventCodec` |
| gateway IPC binding: joins the SOCom runtimes of the two daemons | `gateway_ipc_binding/impl/binding_base.*`, `service_state.hpp`, `pending_connects.hpp`, `connections.hpp`, client and server | `GatewayBinding` |
| the client's connection, reconnection and end | `gateway_ipc_binding/impl/gateway_ipc_binding_client.cpp` | `ClientChannel` |
| handles of a connection and their indices | `gateway_ipc_binding/impl/connection_metadata.hpp` | `ConnectionMetadata` |
| shared-memory slots | `gateway_ipc_binding/impl/shared_memory_slot_manager.*` | `SlotManager`, `SlotPool` |
| pools by path, allocations, views | `shared_memory_slot_manager.cpp`, `shared_memory_managers.hpp` | `SharedMemory` |
| SOCom connectors | `socom/impl/server_connector_impl.*`, `client_connector_impl.*`, `method.cpp`, `endpoint.hpp` | `SocomConnector`, `ServiceLink` |
| SOCom runtime: records, versions, bridges | `socom/impl/runtime_impl.*` | `SocomRuntime` |
| null serializer, configuration, sizes | `serializer`, `config`, `someip/constants.h` | `EventCodec` |
| framing, fixed-size containers, names | `gateway_ipc_binding`, `socom` | no |

An application in one daemon offers a service by enabling a SOCom server
connector. An application in the other asks for it by creating a client
connector. SOCom passes the request to the binding, which sends
`Request_service`. The providing side creates a client connector of its own and
answers `Offer_service`. The asking side sends `Connect_service` and, with the
reply, enables a server connector on behalf of the remote provider. From then on
`Subscribe_event`, `Event_update` and `Payload_consumed` flow under the pair of
handles exchanged; payloads stay in shared memory and only slot numbers travel.

## Modules

Each layer has a module that looks into it and is one step, or one variable, in
the layers above.

- **SlotPool**: what a slot manager promises. A slot is handed out only while
  nobody holds it; holders join and leave. `writer` says whose data a slot has,
  which tells handing a slot out from joining it.
- **SlotManager**: reference counts, guards, `share`, move construction, move
  assignment (in two steps, as in the code), bare handles with `add_consumer`
  and `release_slot`. Counts wrap at `RefRange`; `RangeAssumption` says
  fewer references exist than that. It implements SlotPool.
- **SharedMemory**: the pool of one service. The writer creates it under a path
  at the first use and writes events into slots; readers open it by path, build
  payloads from slots and report when they are done; processes end, in order or
  not, and links break.
- **ConnectionMetadata**: the vector of handle pairs per client and the index
  per service, with the rebuild of the index after removals.
- **GatewayBinding**: the protocol. One server process, any number of client
  processes, a channel with two FIFO queues per transport connection.
- **ServiceLink**: what SOCom's headers promise the two ends of a service.
- **SocomConnector**: a server connector and its client connectors, thread by
  thread, with the tokens `disable()` and destructors wait for. It implements
  ServiceLink.
- **SocomRuntime**: one service record with connectors of several minor
  versions, and the requests made at bridges while the bridge lock is released.
- **EventCodec**: what both daemons derive from the configuration: slot sizes,
  event numbers, serializers, messages. Operators only.
- **ClientChannel**: the callbacks of the binding client on a message_passing
  connection, its restart and the stop loop of its destructor.
- **Daemons**: gatewayd and someipd from start to end. Extends EventCodec and
  ClientChannel.
- **GatewayProperties, SocomProperties, RuntimeProperties, DaemonProperties**:
  what is claimed of them. The smaller modules have their properties inside.
- **MC...**: instances for TLC.
- **SlotManagerProofs, SharedMemoryProofs, GatewayTypeProofs,
  GatewayReferenceProofs, SocomStepProofs, SocomProofs, RuntimeProofs,
  DaemonProofs**: theorems and proofs. SocomStepProofs has the invariant of the
  connectors and the steps inside calls, SocomProofs the rest and the theorems.

### GatewayBinding and the code

| Variables | Code |
|---|---|
| `live`, `cur`, `owner`, `chan` | message_passing connections (external) |
| `connections` | `m_connections` |
| `state` | `m_service_states`; `cc`, `ec`: the client and the enabled server connector stored in it |
| `mapping` | `m_id_mapping`: entries with their position in the vector |
| `pending`, `local_offers`, `interested`, `next_id` | the members of these names |
| `allocations` | `pending_consumers` per slot |
| `engine` | the message handler that is between two critical sections |
| `server`, `client`, `bridged`, `subscribed`, `held` | SOCom connectors, bridge requests and payloads in use |
| `failed`, `spent` | bookkeeping of the model |

`Recv...` actions are the message handlers, `App...`, `Publish` and
`DropPayload` what application threads do through SOCom, including the callbacks
into the binding that run before the call returns. `TransportConnect`,
`ClientDown` and `ServerDisconnect` are the connection callbacks, `LoseLink` and
`Restart` the failures.

A handler that holds `m_mutex` throughout is one step. Two do not. The resend
after `Connect` and `Connect_reply` is a step of its own (`ResendToClient`,
`ResendToServer`). `Connect_service_reply` is three: `RecvConnectServiceReply`,
`MakeConnector`, `AddConnector`. Applications may act in between.

Decisions a reader should know:

- Assertions are compiled out; `failed` records those that did not hold. A null
  reply channel that is dereferenced stops the process (`Dead`).
- A send succeeds exactly when the line works. The server sees the end of a
  client's connection before it accepts the client's next one.
- The server numbers clients from 1 (the code from 0). 0 is the one
  `Client_id` a client process uses.
- `key` in the last three messages says which service the sender meant. No
  handler reads it; the properties do.
- `Publish` takes any free slot. Which one the manager picks is in SlotManager.
- Applications subscribe to every event when the service becomes available, as
  both daemons do.
- `EarlyRequests = FALSE` keeps the server's applications from requesting while
  a handshake is under way. With `TRUE` they may: `someipd/main.cpp` starts the
  server before it creates its services.

### SocomConnector and the code

| Variables | Code |
|---|---|
| `rec_server`, `rec_client` | `m_server`, `m_client` of `Service_record` |
| `server`, `client` | where `enable`, `disable`, constructor and destructor are |
| `stop`, `all` | owners of the server connector's two block tokens |
| `m_client`, `subscriber`, `update_requester` | the members of these names |
| `token`, `link`, `mutex` | a client's block token, owners of the reference token of its connection, its `m_mutex` |
| `seen`, `told`, `asked` | what applications were last told by callbacks |
| `th` | the threads: what each is doing and will return to |

A token is the set of its owners; the code fulfils a promise when the last
`shared_ptr` goes. A critical section is a step, and so is a callback. Callbacks
run in the thread that causes them and may call the connector again; none
destroys its own connector, which the headers declare a deadlock. No client
connector is made while another one is being destroyed (`OverlappingClients =
FALSE`): the code asserts one client at a time (see the findings).

### SocomRuntime and the code

`requests` is `m_service_requests`: per configuration whether it is listed, who
owns the map of handles, which bridges have a handle in it and the size of the
identity record. `interest` is what each bridge asks its peer for: making a
handle adds, destroying one removes, as in `request_service_handle.hpp`.
`identifiers` is the duplicate check with the minor version; the record ignores
it. Every connector and bridge has a thread; the steps of `cl` and `br` between
two lock acquisitions are separate.

### SharedMemory and the code

`fs` is the entry under the path, `pools` the memory objects ever made, which
live on while mapped. `manager` and `count` are the writer's slot manager,
`draft` what was allocated and not published, `alloc` the `pending_consumers`.
A reader keeps its first view for good, with the sizes it was told then. The
contents of a slot are the number of the event written last.

A link is made by Connect_service and forgotten by each side on its own: `served`
is the writer's side, `link` the reader's. A message the transport accepted
stays in `updates` until its reader takes it or forgets the link, also when the
writer has ended in the meantime or runs again with a new pool. Readers and the
writer end in order or by a crash at any time. A path that leads nowhere, and a
slot number beyond the reader's sizes, end the reader, as the assertions there
do.

### Daemons and the code

`pc` is where each `main()` is, `shutdown` the signal flag. `provider` and
`consumer` are the instances with the server and the client connector of a
service, in the daemons the configuration says. `link` stands for the binding:
none, available, subscribed; `queue` holds the payloads in slots. `net` is
vsomeip's state; registered means offers and handlers are set up.

`offered` are the local services an application provides over mw::com while
gatewayd searches for them, `failed` those for which the callback of the search
made no instance. It is called again when an application offers the service
anew, and also with an empty list when the service is gone (`LostService`), of
which it takes the first element. In someipd SOCom may refuse the connector of
any service in `Refusals`, as it does for a second instance of a type; `main()`
goes on without that service. In gatewayd any creation may fail.

A sample or a SOME/IP message has any length in `DataSizes`. gatewayd drops a
sample that does not fit its slot. someipd copies a message of any length; one
that is longer than the slot ends the daemon in the model. `misuse` records
accesses to objects that are not there, and events within their declared size
that did not fit. A daemon that uses an object that is gone is not followed
further. Members
are destroyed in the reverse order of their declaration (`CloseRemote`, `CloseLocal`,
`CloseProxies`), with the threads of mw::com and the binding running on.
ClientChannel's `state`, `reason` and `told` are the message_passing connection:
its engine reports every state before it takes the next one, and `Stop()` has no
effect on a connection that has a reason to stop already.

## Runs

For GatewayBinding `Budget` bounds each kind of environment step, `MaxConn` the
connections; messages, handlers and handles are not bounded. Deadlock is checked
for Connectors, Runtime and the slot manager. It is not for the others: once the
budget is used, or both daemons ended, they may stop.

| Run | Instance | States | Shows |
|---|---|---|---|
| Discovery | someipd provides, two gatewayd, one loss, a stop and a new offer | 352024 | ServerReferencesLive, QuiescentAvailability, NewestMappingShared, NothingToConnectYet |
| DiscoveryReverse | gatewayd provides, fairness, one loss, a stop, two events published | 3167 | ClientReferencesLive, QuiescentAvailability, ConnectionFound, EventuallyServed, SlotsReturn |
| Events | two consumers share one slot, one loss, two events published | 102263 | NoPrematureRelease, SlotAccounting, SubscriptionsPropagate |
| Churn | two services, a withdrawal, a restart of either process | 85551 | TypeOK, ServerReferencesLive, NoMisroute, NewestMappingShared |
| Connectors | two client connectors in turn, one event, any number of enables and disables | 43632 | ConnectionExact, QuietAfterReturn, SubscriptionsTold, ImplementsLink, DisableReturns, DestructorReturns, ClientServed |
| Runtime | two client connectors, two minor versions, a server connector, a bridge | 222584 | Matched, RequestAtEveryBridge, InterestEnds, BridgeRegistered |
| SharedMemory | two readers, pools of one or two slots, two pools, two events, three links | 1412981 | PayloadIntact, OpensRunningPool |
| Daemons | one local and two remote services, one of them with an event without serializer; refusals, data of two lengths; someipd runs twice | 217322 | EventsKeepTheirName, SlotsHoldDeclared, ContextFound, QuietChannel, DaemonsEnd, ServicesReachable |
| MCSlotManager | two slots, three guards, one bare handle | 2380 | TypeOK, CountsHolders, ImplementsPool |
| MCConnectionMetadata | two clients, three services, three entries | 5733 | TypeOK, IndexLeadsToNewest |

Why these bounds: two consumers are needed for a shared slot and for peers that
see a service at different times; a second connection for what is left of the
first; two services for a handle to lead to the wrong one; two offers around a
stop for old and new mappings to meet; one slot so that reuse is forced. A
second client connector shows what the first leaves in the server connector; two
minor versions, one of them too new for the server, what a record joins and what
a request is counted for. Two pools are what a restart of the writer makes; a
second event comes back to the only slot of the small pool, and a third link is
one more than there are readers, so that messages of an old link meet a new one.
Data of 6 bytes is just what the largest event of a service declares and more
than others do; data of 9 bytes is beyond every slot but those of the fallback
size. Bridges do not know of each other: the bridge that registers while
requests are made is the case.

Two runs end in a counterexample to a statement of the repository; `findings`
in `PROJECT.json` quotes it.

| Run | Statement violated | What happens |
|---|---|---|
| EarlyCallback | ConnectorAssigned | a service becomes available before `client_connector_` is assigned, and the callback uses it |
| ReaderUnlinks | PoolFound | a reader that ends removes the writer's entry; started again, it cannot open the pool |

Further configurations reproduce the other findings, each with one property that
is violated: `tlc -config X.cfg` with MCGateway for CrossingHandles (both
processes number handles from 1), OwnServiceRequested (a provider asks a peer
for its own service), EarlyRequest (a request overtakes the handshake),
SubscriptionLost (an old subscriber hides a new subscription) and QuickRerequest
(a repeated request is met by a connector about to go); with MCRuntime for
ForgottenRequest (a bridge asked twice ends up not asking) and BridgeGone (the
identity of a bridge is read after its registration ended); with MCSocom for
AnsweredRequest (`update_event` leaves the requesters on the list). With
MCDaemons, FallbackSlot shows SlotsHoldDeclared failing outside its condition:
an event without serializer makes the slot size fall back to 1500 bytes, less
than the largest event of the service needs with its header.

So the passing runs hold under conditions. QuiescentAvailability is checked
without withdrawals, SubscriptionsPropagate without stops, ConnectionFound
without early requests, and NoMisroute with all services on one side.
SlotAccounting and SlotsReturn are stated for undisturbed systems: a stop, a
withdrawal or a loss may leave a slot in use for good. Connectors takes client
connectors in turn. SlotsHoldDeclared needs a configuration in which the
fallback size is large enough (`SizesKnown`), and says nothing of messages that
are longer than declared. ServicesReachable is about services whose consumer was
made and whose provider was made or can be. PayloadIntact and OpensRunningPool
hold without conditions, but say less than that a reader reads what the writer
writes: PoolFound fails when a reader ends in order before the writer
(ReaderUnlinks), and when the writer is started again while a reader keeps its
view of the earlier pool.

### Fairness

Always weak fairness, and only of threads that have something to go on with.
GatewayBinding: the engine threads (message_passing delivers what it accepted
and reports a broken line), the client's reconnection
(`gateway_ipc_binding_client.cpp` restarts the channel when it stops) and
applications dropping the payloads they were given. SocomConnector and
SocomRuntime: a thread inside a call, or waiting for a token, goes on when it
can, and callbacks return. Daemons: both main threads (of which the stop loop in
the destructor of the binding client is a part), the engine, the binding and the
callback thread of mw::com. Nothing obliges an application to offer, request,
subscribe or publish, anybody to send a signal, or vsomeip to register.

## Proofs

Everything here is for any number of processes, connectors, services, events,
slots and connections, and for behaviours of any length.

| Theorem | Under | Invariant and argument |
|---|---|---|
| `SlotManagerTyped`, `CountsAreExact` | `RangeAssumption` | `Inv == TypeOK /\ CountsHolders` is inductive: each step adds, removes or renames one holder, and the assumption keeps the count from wrapping |
| `ManagerImplementsPool` | the same | every step is a pool step or stutters; the invariant is needed for count 0 to mean that nobody holds the slot, and so for an allocation not to change the `writer` under a holder |
| `PayloadsStayIntact` | finitely many readers | A slot is written only with count 0. SlotsCounted: the count is 1 while consumers are pending. UsersCounted: at least as many are pending as there are links to the writer's pool with a trace of the slot (a message to the reader, a payload, the message back). OneTrace: a link has one trace of a slot at most, so it is counted off once. LinksKnown: links to the pool of an earlier writer keep their traces, but nobody writes there |
| `ReadersOpenRunningPool` | the same | PathLeads: while a writer has a pool the path leads there or nowhere. `create()` replaces what an earlier writer left, and nobody else makes an entry |
| `TypeCorrect` | | one lemma per handler; finiteness of the mapping vectors is part of TypeOK, positions depend on it |
| `ServerReferencesStayLive` | | ServerReferencesLive is inductive together with TypeOK: a message is taken only from a connected peer, every reference a handler adds is to the sender or to a connected peer, and `ServerDisconnect` removes all of them |
| `ConnectionsAreExact`, `ReturnsAreQuiet`, `SubscriptionsAreTold` | `~OverlappingClients` | IInv says at which places of the code a thread owns which token: the reference token of a connection exactly while Linked, a client's stop token while Holding it, the server's while Introducing. Whoever waits until a token has no owner knows that nobody is at such a place. Links, Subscriptions and Announcements say what follows for `m_client` and the lists |
| `ConnectorsImplementLink` | the same | step by step, from the conjuncts Sights (who was told what, and who is about to be told) and Introductions |
| `RequestsAreEverywhere`, `InterestIsTakenBack` | | RequestInv names the thread that still has to act while the bridge lock is released: a missing handle is on the list of a forwarding client or of a registering bridge (Pending), and interest without a request is in the hands of a thread that takes it back (Accounted) |
| `ConnectorsAreMatched` | `OneServer` | MatchInv: a client is in the record from its registration to `UnregisterClient`, and a registered server has connected it or is about to, if the versions fit |
| `ChannelEndsQuiet` | | ChannelInv: a channel that reported its end for good stays stopped |
| `ContextIsFound` | | LinkInv: a remote service is linked only if its instance was made, for which every event had a serializer; what is on its way is a sample of such an event under its number |
| `DeclaredSizesFit` | `SizesKnown` | only `LocalSample` and `NetworkMessage` record the misuse, and a lemma on the configuration excludes it there: the slot size of a service is an upper bound of header and declared data of each of its events |
| `NamesAreKept` | | LinkInv, and lemmas on the configuration: a number one daemon assigns is looked up as the same event by the other |

The conditions are those of the code. `RangeAssumption`: fewer references than
the counter can count. `OverlappingClients` and a second server are
what assertions in `register_connector()` exclude. `SizesKnown`: in a service
with an event of unknown size, every event fits into the fallback size with its
header (FallbackSlot is a configuration where one does not). The other ASSUMEs say that names differ, that constants have
their types, that events of a service differ in name and number and that remote
events exist in the mw::com skeleton. The instances above satisfy all of them.

Only model-checked:

- liveness, which is out of the prover's reach: EventuallyServed, SlotsReturn,
  DisableReturns, DestructorReturns, ClientServed, BridgeRegistered, DaemonsEnd,
  ServicesReachable;
- IndexLeadsToNewest: what the rebuild of an index computes takes an induction
  over the vector;
- NothingToConnectYet, ConnectionFound, ClientReferencesLive and NoMisroute,
  NewestMappingShared, NoPrematureRelease, SlotAccounting,
  SubscriptionsPropagate, QuiescentAvailability: they relate the two ends of a
  line to the messages on it, and their invariant has a clause for every message
  and every handler that is half done.

## Not modelled

Method calls, `Subscribe_event_reply` and `Event_update_request` do not cross
the binding yet (known limitations in `docs/index.rst`); inside SOCom they are
modelled. `Connect_service` with `in_use = false` is sent by no code. Message
framing and fixed-size containers are casts and bounded copies without state.
SOCom's `subscribe_find_service` runs the template SocomRuntime has for requests,
with callbacks in the place of handles, and its deadlock detector is compiled on
request only. Reading files, options and logs is I/O. message_passing, mw::com
and vsomeip are external and appear as their callers see them. The layers are
not composed into one state space: Daemons uses a link where GatewayBinding has
messages, and GatewayBinding a step where SocomConnector has threads. `hazards`
in `PROJECT.json` names what is left.

## Plan

1. Proofs: the freshness of handles behind NoMisroute, NoPrematureRelease.
2. GatewayBinding with two providers of one service and with a withdrawal by a
   peer that uses two services with events.
3. PoolFound as an invariant, once the code renews views and leaves the path to
   the writer.
