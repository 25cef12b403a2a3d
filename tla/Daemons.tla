------------------------------- MODULE Daemons -------------------------------
(***************************************************************************)
(* gatewayd and someipd from start to end, and the events that pass through *)
(* both of them: mw::com samples of local services become SOME/IP           *)
(* notifications, SOME/IP notifications of remote services become mw::com   *)
(* samples.  Composes ClientChannel, the transport between the daemons, and *)
(* EventCodec, the bytes.  The binding and the connectors have modules of   *)
(* their own; here a service is linked once its provider, its consumer and  *)
(* the connection are there, and events pass a linked service in order.     *)
(*                                                                         *)
(* mw::com and vsomeip are external: each has a thread that calls back.     *)
(***************************************************************************)
EXTENDS EventCodec, ClientChannel

CONSTANTS Slots,        \* slots of an event pool (kMaxSampleCount)
          DataSizes,    \* lengths of the data in samples and in SOME/IP messages
          Refusals,     \* service types for which SOCom may refuse someipd a connector
          MaxRuns       \* bound on the runs of someipd

ASSUME BoundsAssumption == {Slots, MaxRuns} \subseteq Nat \ {0} /\ DataSizes \subseteq Nat

Daemon == {"gatewayd", "someipd"}

VARIABLES
    pc,          \* where the main thread of each daemon is
    shutdown,    \* shutdown_requested, per daemon
    todo,        \* services main() has yet to create an instance for
    runs,        \* runs of someipd so far
    searching,   \* local services gatewayd searches for
    offered,     \* those an application provides over mw::com
    failed,      \* those for which the callback was called and failed
    net,         \* someipd's vsomeip application; registered: the offers are
                 \* made and the message handlers are there
    provider,    \* the instance with the server connector: gatewayd's for
                 \* local, someipd's for remote services
    consumer,    \* the instance with the client connector, in the other daemon
    link,        \* what the binding tells the consumer about the service
    queue,       \* events on their way to the consumer
    misuse       \* accesses to objects that are not there or too small

mainVars == <<pc, shutdown, todo, runs>>
mwVars == <<searching, offered, failed>>
linkVars == <<link, queue>>
vars == <<channelVars, mainVars, net, mwVars, provider, consumer, linkVars,
          misuse>>

Served == {"creating", "stored"}   \* states of a provider with a connector
Over == {"ended", "crashed"}
Listening == pc["someipd"] \in {"listening", "create", "run", "closing"}

Init ==
    /\ ChannelInit
    /\ pc = [d \in Daemon |-> "start"]
    /\ shutdown = [d \in Daemon |-> FALSE]
    /\ todo = [d \in Daemon |-> {}]
    /\ runs = 1 /\ searching = {} /\ offered = {} /\ failed = {}
    /\ net = "off"
    /\ provider = [s \in Service |-> "none"]
    /\ consumer = [s \in Service |-> "none"]
    /\ link = [s \in Service |-> "no"]
    /\ queue = [s \in Service |-> <<>>]
    /\ misuse = {}

-----------------------------------------------------------------------------
(* The binding, as the daemons see it.                                      *)

Unlink(S) ==
    /\ link' = [s \in Service |-> IF s \in S THEN "no" ELSE link[s]]
    /\ queue' = [s \in Service |-> IF s \in S THEN <<>> ELSE queue[s]]

\* The engine thread of gatewayd's channel; with the line all links go.
ChannelStep ==
    /\ pc["gatewayd"] \notin Over
    /\ Engine(Listening)
    /\ IF line /\ ~line' THEN Unlink(Service) ELSE UNCHANGED linkVars
    /\ UNCHANGED <<mainVars, net, mwVars, provider, consumer, misuse>>

\* someipd's process ends, in order or by a crash.
SomeipdEnds(how) ==
    /\ pc' = [pc EXCEPT !["someipd"] = how]
    /\ line' = FALSE
    /\ net' = "off"
    /\ provider' = [s \in Service |-> IF s \in Remote THEN "none" ELSE provider[s]]
    /\ consumer' = [s \in Service |-> IF s \in Local THEN "none" ELSE consumer[s]]
    /\ todo' = [todo EXCEPT !["someipd"] = {}]
    /\ Unlink(Service)
    /\ UNCHANGED <<state, reason, told, handshake, connected, stopped, shutdown, runs, mwVars>>

\* gatewayd's process ends; its socket with it.
GatewaydEnds(how) ==
    /\ pc' = [pc EXCEPT !["gatewayd"] = how]
    /\ line' = FALSE
    /\ searching' = {} /\ offered' = {} /\ failed' = {}
    /\ provider' = [s \in Service |-> IF s \in Local THEN "none" ELSE provider[s]]
    /\ consumer' = [s \in Service |-> IF s \in Remote THEN "none" ELSE consumer[s]]
    /\ todo' = [todo EXCEPT !["gatewayd"] = {}]
    /\ Unlink(Service)
    /\ UNCHANGED <<state, reason, told, handshake, connected, stopped, shutdown, runs, net>>

\* A daemon that uses an object that is not there is not followed any further.
SomeipdCrashes(why) == SomeipdEnds("crashed") /\ misuse' = misuse \cup {why}
GatewaydCrashes(why) == GatewaydEnds("crashed") /\ misuse' = misuse \cup {why}

\* The consumer's on_service_state_change(available): it subscribes to every
\* event by way of its client_connector_, which is null while
\* make_client_connector() has not returned.
Available(s) ==
    /\ connected /\ line
    /\ provider[s] \in Served /\ consumer[s] \in {"making", "assigned"} /\ link[s] = "no"
    /\ IF consumer[s] = "making"
       THEN IF s \in Local THEN SomeipdCrashes("connector not assigned")
                           ELSE GatewaydCrashes("connector not assigned")
       ELSE /\ link' = [link EXCEPT ![s] = "available"]
            /\ UNCHANGED <<channelVars, mainVars, net, mwVars, provider, consumer, queue, misuse>>

\* The subscriptions reach the provider's server connector.
Subscribed(s) ==
    /\ link[s] = "available"
    /\ link' = [link EXCEPT ![s] = "subscribed"]
    /\ UNCHANGED <<channelVars, mainVars, net, mwVars, provider, consumer, queue, misuse>>

-----------------------------------------------------------------------------
(* gatewayd: main().                                                        *)

Goto(d, where) == pc' = [pc EXCEPT ![d] = where]

\* termination_handler(), in either daemon.
Signal(d) ==
    /\ pc[d] \notin Over /\ ~shutdown[d]
    /\ shutdown' = [shutdown EXCEPT ![d] = TRUE]
    /\ UNCHANGED <<channelVars, pc, todo, runs, net, mwVars, provider, consumer, linkVars, misuse>>

\* Options, the configuration or the serializer are not as they must be.
GatewaydGivesUp ==
    /\ pc["gatewayd"] = "start"
    /\ GatewaydEnds("ended")
    /\ UNCHANGED misuse

\* Up to the binding client, whose constructor starts the channel.
GatewaydStarts ==
    /\ pc["gatewayd"] = "start"
    /\ Start
    /\ Goto("gatewayd", "handshake")
    /\ UNCHANGED <<shutdown, todo, runs, net, mwVars, provider, consumer, linkVars, misuse>>

\* The wait for is_connected(), cut short by a signal.  Once connected, a
\* search is started for every local service.
GatewaydConnected ==
    /\ pc["gatewayd"] = "handshake"
    /\ \/ /\ shutdown["gatewayd"]
          /\ Goto("gatewayd", "stop")
          /\ UNCHANGED <<todo, searching>>
       \/ /\ connected /\ ~shutdown["gatewayd"]
          /\ Goto("gatewayd", "create")
          /\ searching' = Local
          /\ todo' = [todo EXCEPT !["gatewayd"] = Remote]
    /\ UNCHANGED <<channelVars, shutdown, runs, net, offered, failed, provider, consumer,
                   linkVars, misuse>>

\* Mutant: an event without serializer is left out, the rest goes on.
RemoteServiceOkPartly(s) == TRUE

\* CreateAsyncRemoteService() gives up on an event without serializer.
RemoteServiceOk(s) ==
    \A id \in EventIds(s) : SerializerGet(s, EventConfig(s, id).name).found

\* CreateAsyncRemoteService() and Create() up to the registration of the
\* client connector; skeleton, offer or connector may fail.
CreateRemoteService(s) ==
    /\ pc["gatewayd"] = "create"
    /\ s \in todo["gatewayd"]
    /\ \A t \in Remote : consumer[t] # "making"
    /\ todo' = [todo EXCEPT !["gatewayd"] = @ \ {s}]
    /\ \/ RemoteServiceOk(s) /\ consumer' = [consumer EXCEPT ![s] = "making"]
       \/ UNCHANGED consumer
    /\ UNCHANGED <<channelVars, pc, shutdown, runs, net, mwVars, provider, linkVars, misuse>>

\* make_client_connector() returns and client_connector_ is assigned, in
\* either daemon.
Assign(s) ==
    /\ consumer[s] = "making"
    /\ consumer' = [consumer EXCEPT ![s] = "assigned"]
    /\ UNCHANGED <<channelVars, mainVars, net, mwVars, provider, linkVars, misuse>>

GatewaydRuns ==
    /\ pc["gatewayd"] = "create" /\ todo["gatewayd"] = {}
    /\ \A s \in Remote : consumer[s] # "making"
    /\ Goto("gatewayd", "run")
    /\ UNCHANGED <<channelVars, shutdown, todo, runs, net, mwVars, provider, consumer,
                   linkVars, misuse>>

\* The main loop ends; the remote instances are destroyed, of each first
\* event_contexts_ ...
CloseRemote ==
    /\ pc["gatewayd"] = "run" /\ shutdown["gatewayd"]
    /\ Goto("gatewayd", "closing remote")
    /\ consumer' = [s \in Service |->
                        IF s \in Remote /\ consumer[s] = "assigned" THEN "closing" ELSE consumer[s]]
    /\ UNCHANGED <<channelVars, shutdown, todo, runs, net, mwVars, provider, linkVars, misuse>>

\* ... then client_connector_.  Of the local instances event_contexts_ and
\* server_connector_ go ...
CloseLocal ==
    /\ pc["gatewayd"] = "closing remote"
    /\ Goto("gatewayd", "closing local")
    /\ consumer' = [s \in Service |-> IF s \in Remote THEN "none" ELSE consumer[s]]
    /\ provider' = [s \in Service |->
                        IF s \in Local /\ provider[s] = "stored" THEN "closing" ELSE provider[s]]
    /\ Unlink({s \in Service : consumer'[s] # consumer[s] \/ provider'[s] # provider[s]})
    /\ UNCHANGED <<channelVars, shutdown, todo, runs, net, mwVars, misuse>>

\* ... and last ipc_proxy_, which ends the receive handlers.
CloseProxies ==
    /\ pc["gatewayd"] = "closing local"
    /\ Goto("gatewayd", "stop")
    /\ provider' = [s \in Service |-> IF provider[s] = "closing" THEN "none" ELSE provider[s]]
    /\ UNCHANGED <<channelVars, shutdown, todo, runs, net, mwVars, consumer, linkVars, misuse>>

\* The loop in the destructor of the binding client.
StopChannel ==
    /\ pc["gatewayd"] = "stop" /\ ~stopped
    /\ Stop
    /\ UNCHANGED <<mainVars, net, mwVars, provider, consumer, linkVars, misuse>>

\* Mutant: Stop() is called once, and whatever it did the destructor goes on.
DestroyClientAtOnce ==
    /\ pc["gatewayd"] = "stop" /\ reason # "none"
    /\ GatewaydEnds("ended")
    /\ UNCHANGED misuse

DestroyClient ==
    /\ pc["gatewayd"] = "stop" /\ stopped
    /\ GatewaydEnds("ended")
    /\ UNCHANGED misuse

-----------------------------------------------------------------------------
(* gatewayd: the thread of mw::com.                                         *)

\* An application provides a local service: the search has news.
AppOffers(s) ==
    /\ s \in searching \ offered
    /\ offered' = offered \cup {s} /\ failed' = failed \ {s}
    /\ UNCHANGED <<channelVars, mainVars, net, searching, provider, consumer, linkVars, misuse>>

\* It stops before the search has ended.
AppStops(s) ==
    /\ s \in offered
    /\ offered' = offered \ {s}
    /\ UNCHANGED <<channelVars, mainVars, net, searching, failed, provider, consumer, linkVars,
                   misuse>>

\* The callback of StartFindService(): Create() makes and enables the server
\* connector and sets the receive handlers.  When the proxy or the instance
\* cannot be made it returns, and is called again when there is news.
FoundService(s) ==
    /\ pc["gatewayd"] \notin Over
    /\ s \in offered \ failed
    /\ \A t \in Local : provider[t] # "creating"
    /\ provider[s] = "none"
    /\ \/ provider' = [provider EXCEPT ![s] = "creating"] /\ UNCHANGED failed
       \/ failed' = failed \cup {s} /\ UNCHANGED provider
    /\ UNCHANGED <<channelVars, mainVars, net, searching, offered, consumer, linkVars, misuse>>

\* The callback when the service it failed for is gone.  handles.front() of
\* the empty list is undefined: gatewayd crashes, or no proxy can be made.
\* The latter is also what happens if mw::com does not call.
LostService(s) ==
    /\ pc["gatewayd"] \notin Over
    /\ s \in failed \ offered
    /\ \A t \in Local : provider[t] # "creating"
    /\ \/ GatewaydCrashes("no handle")
       \/ /\ failed' = failed \ {s}
          /\ UNCHANGED <<channelVars, mainVars, net, searching, offered, provider, consumer,
                         linkVars, misuse>>

\* The rest of the callback: the instance goes into the vector of main(), and
\* the search ends.  Nothing stops the searches when main() returns.
PushBack(s) ==
    /\ pc["gatewayd"] \notin Over
    /\ provider[s] = "creating"
    /\ IF pc["gatewayd"] \in {"create", "run", "closing remote"}
       THEN /\ provider' = [provider EXCEPT ![s] = "stored"]
            /\ searching' = searching \ {s} /\ offered' = offered \ {s}
            /\ UNCHANGED <<channelVars, mainVars, net, failed, consumer, linkVars, misuse>>
       ELSE GatewaydCrashes("vector destroyed")

-----------------------------------------------------------------------------
(* someipd: main() and Routing.                                             *)

\* Options, configuration, StartListening() or vsomeip's init() fail.
SomeipdGivesUp ==
    /\ pc["someipd"] \in {"start", "listening"}
    /\ SomeipdEnds("ended")
    /\ UNCHANGED misuse

\* The binding server listens before anything else is there.
SomeipdListens ==
    /\ pc["someipd"] = "start"
    /\ Goto("someipd", "listening")
    /\ UNCHANGED <<channelVars, shutdown, todo, runs, net, mwVars, provider, consumer,
                   linkVars, misuse>>

\* Routing::Create().
CreateRouting ==
    /\ pc["someipd"] = "listening"
    /\ Goto("someipd", "create")
    /\ todo' = [todo EXCEPT !["someipd"] = Service]
    /\ UNCHANGED <<channelVars, shutdown, runs, net, mwVars, provider, consumer, linkVars, misuse>>

\* LocalNetworkService::Create() up to the registration of its connector.  A
\* connector that is refused leaves main() without the service.
CreateLocalNetwork(s) ==
    /\ pc["someipd"] = "create"
    /\ s \in todo["someipd"] \cap Local
    /\ \A t \in Local : consumer[t] # "making"
    /\ todo' = [todo EXCEPT !["someipd"] = @ \ {s}]
    /\ \/ consumer' = [consumer EXCEPT ![s] = "making"]
       \/ s \in Refusals /\ UNCHANGED consumer
    /\ UNCHANGED <<channelVars, pc, shutdown, runs, net, mwVars, provider, linkVars, misuse>>

\* RemoteNetworkService::Create() for the remote services, after the local
\* ones; main() goes on without those whose connector is refused.
CreateRemoteNetwork ==
    /\ pc["someipd"] = "create"
    /\ todo["someipd"] \cap Local = {} /\ \A t \in Local : consumer[t] # "making"
    /\ todo["someipd"] # {}
    /\ todo' = [todo EXCEPT !["someipd"] = {}]
    /\ \E refused \in SUBSET (Remote \cap Refusals) :
          provider' = [s \in Service |->
                          IF s \in Remote \ refused THEN "stored" ELSE provider[s]]
    /\ UNCHANGED <<channelVars, pc, shutdown, runs, net, mwVars, consumer, linkVars, misuse>>

\* Routing::Run(): the network thread is started and the loop entered.
RunRouting ==
    /\ pc["someipd"] = "create" /\ todo["someipd"] = {}
    /\ \A t \in Local : consumer[t] # "making"
    /\ Goto("someipd", "run")
    /\ net' = "started"
    /\ UNCHANGED <<channelVars, shutdown, todo, runs, mwVars, provider, consumer, linkVars, misuse>>

\* The state handler on ST_REGISTERED, at first and again: SetupOfferings(),
\* and setup_vsomeip() of every remote service.
Registered ==
    /\ net = "started"
    /\ net' = "registered"
    /\ UNCHANGED <<channelVars, mainVars, mwVars, provider, consumer, linkVars, misuse>>

\* vsomeip loses its routing manager; the handler ignores that.
Deregistered ==
    /\ net = "registered"
    /\ net' = "started"
    /\ UNCHANGED <<channelVars, mainVars, mwVars, provider, consumer, linkVars, misuse>>

\* ProcessMessages() returns, the network thread is stopped and joined.
StopRouting ==
    /\ pc["someipd"] = "run" /\ shutdown["someipd"]
    /\ Goto("someipd", "closing")
    /\ net' = "off"
    /\ UNCHANGED <<channelVars, shutdown, todo, runs, mwVars, provider, consumer, linkVars, misuse>>

\* The services are destroyed, then Routing, then the binding server.
SomeipdReturns ==
    /\ pc["someipd"] = "closing"
    /\ SomeipdEnds("ended")
    /\ UNCHANGED misuse

\* someipd is started again.
SomeipdAgain ==
    /\ pc["someipd"] \in Over /\ runs < MaxRuns
    /\ runs' = runs + 1
    /\ Goto("someipd", "start")
    /\ shutdown' = [shutdown EXCEPT !["someipd"] = FALSE]
    /\ UNCHANGED <<channelVars, todo, net, mwVars, provider, consumer, linkVars,
                   misuse>>

-----------------------------------------------------------------------------
(* Events.                                                                  *)

\* allocate_event_payload(): a subscriber, a pool and a free slot are needed;
\* otherwise the sample is dropped.
CanAllocate(d, s) == link[s] = "subscribed" /\ SlotSize(d, s) > 0 /\ Len(queue[s]) < Slots

\* update_event(): the sample is on its way under a SOCom id.
UpdateEvent(s, id, event) == queue' = [queue EXCEPT ![s] = Append(@, Message(id, event))]

\* Is the data no longer than the serializer of the event declares?
Declared(event, size) == size <= event.serializer.max_message_size

\* The receive handler of a local service in gatewayd.  The application says
\* how long its data is; what does not fit is dropped with an error.
LocalSample(s) ==
    /\ provider[s] \in Served
    /\ CanAllocate("gatewayd", s)
    /\ \E c \in EventContexts(s), size \in DataSizes :
        IF SerializeOk(size, SlotSize("gatewayd", s) - kSomeipFullHeaderSize)
        THEN UpdateEvent(s, c.id, c.event) /\ UNCHANGED misuse
        ELSE /\ misuse' = IF Declared(c.event, size)
                          THEN misuse \cup {"declared size"} ELSE misuse
             /\ UNCHANGED queue
    /\ UNCHANGED <<channelVars, mainVars, net, mwVars, provider, consumer, link>>

\* The same handler while the instance is destroyed: it is still set when
\* event_contexts_ and server_connector_ are gone.
LateSample(s) ==
    /\ provider[s] = "closing"
    /\ GatewaydCrashes("instance destroyed")

\* The message handler of a remote service in someipd: header and data are
\* copied into the slot.  The network says how long the data is, and nothing
\* compares that with the slot.
NetworkMessage(s) ==
    /\ provider[s] = "stored"
    /\ net = "registered"
    /\ CanAllocate("someipd", s)
    /\ \E id \in EventIds(s), size \in DataSizes :
        IF kSomeipFullHeaderSize + size > SlotSize("someipd", s)
        THEN /\ SomeipdEnds("crashed")
             /\ misuse' = IF Declared(EventConfig(s, id), size)
                          THEN misuse \cup {"declared size"} ELSE misuse
        ELSE /\ UpdateEvent(s, id, EventConfig(s, id))
             /\ UNCHANGED <<channelVars, mainVars, net, mwVars, provider, consumer, link, misuse>>

\* on_event_update of LocalNetworkService: forward_to_vsomeip() notifies the
\* events Notified(s, m); vsomeip drops what is not offered yet.
ForwardToVsomeip(s) ==
    /\ consumer[s] = "assigned" /\ queue[s] # <<>>
    /\ queue' = [queue EXCEPT ![s] = Tail(@)]
    /\ UNCHANGED <<channelVars, mainVars, net, mwVars, provider, consumer, link, misuse>>

\* on_event_update of RemoteServiceInstance: forward_event() sends a sample of
\* the events Sent(s, m), if mw::com has one to give and it can be
\* deserialized.  The context of the event is looked up without a check.
ForwardEvent(s) ==
    /\ consumer[s] \in {"assigned", "closing"} /\ queue[s] # <<>>
    /\ IF consumer[s] = "closing" THEN GatewaydCrashes("contexts destroyed")
       ELSE IF Sent(s, Head(queue[s])) = {} THEN GatewaydCrashes("no context")
       ELSE /\ queue' = [queue EXCEPT ![s] = Tail(@)]
            /\ UNCHANGED <<channelVars, mainVars, net, mwVars, provider, consumer, link, misuse>>

-----------------------------------------------------------------------------
GatewaydMain ==
    \/ GatewaydStarts \/ GatewaydConnected
    \/ \E s \in Remote : CreateRemoteService(s) \/ Assign(s)
    \/ GatewaydRuns \/ CloseRemote \/ CloseLocal \/ CloseProxies \/ StopChannel \/ DestroyClient

SomeipdMain ==
    \/ SomeipdListens \/ CreateRouting
    \/ \E s \in Local : CreateLocalNetwork(s) \/ Assign(s)
    \/ CreateRemoteNetwork \/ RunRouting \/ StopRouting \/ SomeipdReturns

Binding == \E s \in Service : Available(s) \/ Subscribed(s)
MwCom == \E s \in Local : FoundService(s) \/ LostService(s) \/ PushBack(s)

Next ==
    \/ ChannelStep \/ GatewaydMain \/ SomeipdMain
    \/ \E d \in Daemon : Signal(d)
    \/ GatewaydGivesUp \/ SomeipdGivesUp \/ SomeipdAgain
    \/ Registered \/ Deregistered
    \/ Binding \/ MwCom
    \/ \E s \in Local : AppOffers(s) \/ AppStops(s)
    \/ \E s \in Local : LocalSample(s) \/ LateSample(s) \/ ForwardToVsomeip(s)
    \/ \E s \in Remote : NetworkMessage(s) \/ ForwardEvent(s)

Spec == Init /\ [][Next]_vars

\* Threads that can go on do: both main threads, the engine, the binding and
\* the thread of mw::com.  Nobody has to provide a service, send a signal or
\* publish.
Fairness ==
    /\ WF_vars(ChannelStep) /\ WF_vars(GatewaydMain) /\ WF_vars(SomeipdMain)
    /\ WF_vars(Binding) /\ WF_vars(MwCom)

FairSpec == Spec /\ Fairness

=============================================================================
