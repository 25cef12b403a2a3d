---------------------------- MODULE DaemonProofs ----------------------------
(***************************************************************************)
(* The daemons for any services, events and runs.                          *)
(*                                                                         *)
(* ChannelInv: a channel that reported its end for good stays stopped.     *)
(* LinkInv: a remote service is linked only if its instance was made, for  *)
(* which every event had a serializer; what is on its way is a sample of   *)
(* an event with a serializer, under that event's number (Sample).         *)
(***************************************************************************)
EXTENDS DaemonProperties, WellFoundedInduction, TLAPS

Pc == {"start", "handshake", "listening", "create", "run", "closing remote", "closing local",
       "closing", "stop", "ended", "crashed"}

ChannelInv ==
    /\ pc \in [Daemon -> Pc]
    /\ stopped => state = "stopped" /\ told = state
    /\ pc["gatewayd"] = "start" => state = "off"
    /\ QuietChannel

\* Has the event with this id a serializer?
Serialized(s, id) == EventConfig(s, id).serializer.found

\* What the daemons put on the way to the consumer of a service.
Sample(s) ==
    {Message(id, EventConfig(s, id)) : id \in {k \in EventIds(s) : Serialized(s, k)}}

LinkInv ==
    /\ consumer \in [Service -> {"none", "making", "assigned", "closing"}]
    /\ link \in [Service -> {"no", "available", "subscribed"}]
    /\ DOMAIN queue = Service
    /\ \A s \in Service : queue[s] \in Seq(Sample(s))
    /\ \A s \in Remote : consumer[s] # "none" \/ link[s] # "no" => RemoteServiceOk(s)

\* Configurations in which event_slot_size() gives what it promises: a service
\* with an event of unknown size has no event that needs more than the size
\* used then.
SizesKnown ==
    \A s \in Service :
        (\E i \in DOMAIN Events[s] : Events[s][i].serializer.max_message_size = 0) =>
            \A i \in DOMAIN Events[s] :
                Events[s][i].serializer.max_message_size + kSomeipFullHeaderSize
                    <= kMaxMessageSize

-----------------------------------------------------------------------------
(* The channel.                                                             *)

LEMMA EngineStep ==
    ASSUME ChannelInv, NEW L, Engine(L), pc' = pc, pc["gatewayd"] \notin Over
    PROVE  ChannelInv'
<1> USE DEF ChannelInv, Over, QuietChannel
<1>1. CASE Accepted(L)
  BY <1>1 DEF Accepted, Reported
<1>2. CASE Denied
  BY <1>2 DEF Denied, Reported
<1>3. CASE Closed
  BY <1>3 DEF Closed, Reported
<1>4. CASE Stopping
  BY <1>4 DEF Stopping, Reported
<1>5. CASE OnReady
  BY <1>5 DEF OnReady, Reported
<1>6. CASE OnOther
  BY <1>6 DEF OnOther, Reported
<1>7. CASE OnStopped
  BY <1>7 DEF OnStopped, OnStoppedForGood, Restart, Reported
<1>8. CASE Answered
  BY <1>8 DEF Answered
<1>9. CASE RecvConnectReply
  BY <1>9 DEF RecvConnectReply
<1> QED
  BY <1>1, <1>2, <1>3, <1>4, <1>5, <1>6, <1>7, <1>8, <1>9 DEF Engine

\* Steps that leave the channel alone and move a main thread elsewhere than to
\* its start or, in gatewayd, to its end.
LEMMA OtherSteps ==
    ASSUME ChannelInv, UNCHANGED <<state, told, stopped>>,
           \/ pc' = pc
           \/ \E p \in Pc : pc' = [pc EXCEPT !["someipd"] = p]
           \/ \E p \in Pc \ {"start", "ended"} : pc' = [pc EXCEPT !["gatewayd"] = p]
    PROVE  ChannelInv'
BY DEF ChannelInv, QuietChannel, Daemon

\* The steps of the two main threads.
LEMMA GatewaydMainChannel ==
    ASSUME ChannelInv, GatewaydMain
    PROVE  ChannelInv'
<1> USE DEF Goto, Pc
<1>1. CASE GatewaydStarts
  BY <1>1 DEF GatewaydStarts, Start, ChannelInv, QuietChannel, Daemon
<1>2. CASE GatewaydConnected
  BY <1>2, OtherSteps DEF GatewaydConnected, channelVars
<1>3. ASSUME NEW s \in Remote, CreateRemoteService(s) \/ Assign(s)
      PROVE  ChannelInv'
  BY <1>3, OtherSteps DEF CreateRemoteService, Assign, channelVars, mainVars
<1>4. CASE GatewaydRuns
  BY <1>4, OtherSteps DEF GatewaydRuns, channelVars
<1>5. CASE CloseRemote
  BY <1>5, OtherSteps DEF CloseRemote, channelVars
<1>6. CASE CloseLocal
  BY <1>6, OtherSteps DEF CloseLocal, channelVars
<1>7. CASE CloseProxies
  BY <1>7, OtherSteps DEF CloseProxies, channelVars
<1>8. CASE DestroyClient
  BY <1>8 DEF DestroyClient, GatewaydEnds, ChannelInv, QuietChannel, Daemon
<1>9. CASE StopChannel
  BY <1>9, OtherSteps DEF StopChannel, Stop, mainVars
<1> QED
  BY <1>1, <1>2, <1>3, <1>4, <1>5, <1>6, <1>7, <1>8, <1>9 DEF GatewaydMain

LEMMA SomeipdMainChannel ==
    ASSUME ChannelInv, SomeipdMain
    PROVE  ChannelInv'
<1> USE DEF Goto, Pc
<1>1. CASE SomeipdListens
  BY <1>1, OtherSteps DEF SomeipdListens, channelVars
<1>2. CASE CreateRouting
  BY <1>2, OtherSteps DEF CreateRouting, channelVars
<1>3. ASSUME NEW s \in Local, CreateLocalNetwork(s) \/ Assign(s)
      PROVE  ChannelInv'
  BY <1>3, OtherSteps DEF CreateLocalNetwork, Assign, channelVars, mainVars
<1>4. CASE CreateRemoteNetwork
  BY <1>4, OtherSteps DEF CreateRemoteNetwork, channelVars
<1>5. CASE RunRouting
  BY <1>5, OtherSteps DEF RunRouting, channelVars
<1>6. CASE StopRouting
  BY <1>6, OtherSteps DEF StopRouting, channelVars
<1>7. CASE SomeipdReturns
  BY <1>7, OtherSteps DEF SomeipdReturns, SomeipdEnds
<1> QED
  BY <1>1, <1>2, <1>3, <1>4, <1>5, <1>6, <1>7 DEF SomeipdMain

\* Crashes of either daemon, and the links.
LEMMA CrashChannel ==
    ASSUME ChannelInv, NEW why, SomeipdCrashes(why) \/ GatewaydCrashes(why)
    PROVE  ChannelInv'
BY OtherSteps DEF SomeipdCrashes, SomeipdEnds, GatewaydCrashes, GatewaydEnds, Pc

LEMMA ServiceChannel ==
    ASSUME ChannelInv,
           NEW s, \/ Available(s) \/ Subscribed(s) \/ FoundService(s) \/ LostService(s)
                  \/ PushBack(s) \/ AppOffers(s) \/ AppStops(s) \/ LocalSample(s)
                  \/ LateSample(s) \/ ForwardToVsomeip(s) \/ NetworkMessage(s) \/ ForwardEvent(s)
    PROVE  ChannelInv'
<1>1. CASE Available(s)
  BY Zenon, <1>1, OtherSteps, CrashChannel DEF Available, channelVars, mainVars
<1>2. CASE Subscribed(s) \/ FoundService(s) \/ AppOffers(s) \/ AppStops(s) \/ ForwardToVsomeip(s)
  BY Zenon, <1>2, OtherSteps
  DEF Subscribed, FoundService, AppOffers, AppStops, ForwardToVsomeip, channelVars, mainVars
<1>3. CASE PushBack(s)
  BY Zenon, <1>3, OtherSteps, CrashChannel DEF PushBack, channelVars, mainVars
<1>8. CASE LostService(s)
  BY Zenon, <1>8, OtherSteps, CrashChannel DEF LostService, channelVars, mainVars
<1>4. CASE LocalSample(s)
  BY <1>4, OtherSteps DEF LocalSample, channelVars, mainVars
<1>5. CASE LateSample(s)
  BY <1>5, CrashChannel DEF LateSample
<1>6. CASE NetworkMessage(s)
  <2>1. CASE SomeipdEnds("crashed")
    BY <2>1, OtherSteps DEF SomeipdEnds, Pc
  <2>2. CASE UNCHANGED <<channelVars, mainVars>>
    BY Zenon, <2>2, OtherSteps DEF channelVars, mainVars
  <2> QED
    BY Zenon, <1>6, <2>1, <2>2 DEF NetworkMessage
<1>7. CASE ForwardEvent(s)
  BY Zenon, <1>7, OtherSteps, CrashChannel DEF ForwardEvent, channelVars, mainVars
<1> QED
  BY <1>1, <1>2, <1>3, <1>4, <1>5, <1>6, <1>7, <1>8

LEMMA NextChannelInv ==
    ASSUME ChannelInv, [Next]_vars
    PROVE  ChannelInv'
<1>1. CASE ChannelStep
  BY Zenon, <1>1, EngineStep DEF ChannelStep, mainVars
<1>2. CASE GatewaydMain \/ SomeipdMain
  BY <1>2, GatewaydMainChannel, SomeipdMainChannel
<1>4. ASSUME NEW d \in Daemon, Signal(d) PROVE ChannelInv'
  BY <1>4, OtherSteps DEF Signal, channelVars
<1>5. CASE GatewaydGivesUp
  BY Zenon, <1>5 DEF GatewaydGivesUp, GatewaydEnds, ChannelInv, QuietChannel, Daemon, Pc
<1>6. CASE SomeipdGivesUp \/ SomeipdAgain
  BY <1>6, OtherSteps DEF SomeipdGivesUp, SomeipdEnds, SomeipdAgain, Goto, channelVars, Pc
<1>7. CASE Registered \/ Deregistered
  BY Zenon, <1>7, OtherSteps DEF Registered, Deregistered, channelVars, mainVars
<1>8. CASE Binding \/ MwCom
  BY <1>8, ServiceChannel DEF Binding, MwCom
<1>9. ASSUME NEW s, \/ AppOffers(s) \/ AppStops(s) \/ LocalSample(s) \/ LateSample(s)
                    \/ ForwardToVsomeip(s) \/ NetworkMessage(s) \/ ForwardEvent(s)
      PROVE  ChannelInv'
  BY <1>9, ServiceChannel
<1>10. CASE UNCHANGED vars
  BY <1>10, OtherSteps DEF vars, channelVars, mainVars
<1> QED
  BY <1>1, <1>2, <1>4, <1>5, <1>6, <1>7, <1>8, <1>9, <1>10 DEF Next

\* The destructor of the binding client returns only when the connection is
\* stopped and its last state was reported, and nothing moves it afterwards
\* (gateway_ipc_binding_client.cpp).
THEOREM ChannelEndsQuiet == Spec => []QuietChannel
<1>1. Init => ChannelInv
  BY DEF Init, ChannelInit, ChannelInv, QuietChannel, Daemon, Pc
<1>2. ChannelInv => QuietChannel
  BY DEF ChannelInv
<1> QED
  BY <1>1, <1>2, NextChannelInv, PTL DEF Spec


-----------------------------------------------------------------------------
(* The codec.                                                               *)

LEMMA EventAt ==
    ASSUME NEW s \in Service, NEW id \in EventIds(s)
    PROVE  /\ id \in Nat /\ id + 1 \in DOMAIN Events[s]
           /\ EventConfig(s, id) = Events[s][id + 1]
BY SerializerAssumption DEF EventIds, EventConfig

LEMMA SerializerType ==
    ASSUME NEW s \in Service, NEW i \in DOMAIN Events[s]
    PROVE  /\ Events[s][i].serializer.found \in BOOLEAN
           /\ Events[s][i].serializer.max_message_size \in Nat
           /\ ~Events[s][i].serializer.found => Events[s][i].serializer.max_message_size = 0
<1>1. CASE Events[s][i].serializer = NoSerializer
  BY <1>1 DEF NoSerializer
<1>2. CASE Events[s][i].serializer = NullSerializer(Events[s][i].serializer.max_message_size)
  <2>1. Events[s][i].serializer.found = TRUE
    BY <1>2 DEF NullSerializer
  <2> QED
    BY Zenon, <2>1, SerializerAssumption
<1> QED
  BY Zenon, <1>1, <1>2, SerializerAssumption

\* Names are unique, so the first event of a name is the one it was taken from.
LEMMA OwnSerializer ==
    ASSUME NEW s \in Service, NEW i \in DOMAIN Events[s]
    PROVE  SerializerGet(s, Events[s][i].name) = Events[s][i].serializer
<1> DEFINE named == {j \in DOMAIN Events[s] : Events[s][j].name = Events[s][i].name}
<1>1. named = {i}
  BY EventsAssumption
<1>2. i \in Nat
  BY SerializerAssumption
<1>3. Min({i}) = i
  BY <1>2 DEF Min
<1> QED
  BY Zenon, <1>1, <1>3 DEF SerializerGet

\* gatewayd has a context for an event iff mw::com knows it and it has a
\* serializer.
LEMMA ContextOf ==
    ASSUME NEW s \in Service, NEW c
    PROVE  c \in EventContexts(s) <=>
             \E id \in EventIds(s) : /\ EventConfig(s, id).ipc /\ Serialized(s, id)
                                     /\ c = [id |-> id, event |-> EventConfig(s, id)]
<1>1. \A id \in EventIds(s) :
        SerializerGet(s, EventConfig(s, id).name).found <=> Serialized(s, id)
  BY EventAt, OwnSerializer DEF Serialized
<1> QED
  BY <1>1 DEF EventContexts

LEMMA RemoteServiceSerialized ==
    ASSUME NEW s \in Remote, RemoteServiceOk(s), NEW id \in EventIds(s)
    PROVE  Serialized(s, id) /\ EventConfig(s, id).ipc
<1>1. s \in Service
  BY DEF Service
<1>2. id + 1 \in DOMAIN Events[s] /\ EventConfig(s, id) = Events[s][id + 1]
  BY <1>1, EventAt
<1>3. SerializerGet(s, EventConfig(s, id).name) = EventConfig(s, id).serializer
  BY <1>1, <1>2, OwnSerializer
<1>4. EventConfig(s, id).ipc
  BY <1>2, SkeletonAssumption
<1> QED
  BY <1>3, <1>4 DEF RemoteServiceOk, Serialized

LEMMA SampleParts ==
    ASSUME NEW s \in Service, NEW m
    PROVE  m \in Sample(s) <=>
             \E id \in EventIds(s) : Serialized(s, id) /\ m = Message(id, EventConfig(s, id))
BY Zenon DEF Sample

-----------------------------------------------------------------------------
(* Links and what is on the way.                                            *)

LEMMA UnlinkKeeps ==
    ASSUME LinkInv, NEW S, Unlink(S)
    PROVE  /\ link' \in [Service -> {"no", "available", "subscribed"}]
           /\ DOMAIN queue' = Service
           /\ \A s \in Service : queue'[s] \in Seq(Sample(s))
           /\ \A s \in Service : link'[s] \in {"no", link[s]}
<1>1. \A s \in Service : <<>> \in Seq(Sample(s))
  OBVIOUS
<1> QED
  BY <1>1 DEF LinkInv, Unlink

\* Steps that change only connectors, which they take away or make for a
\* service that is fit for it, and links, which they cut.
LEMMA ConnectorSteps ==
    ASSUME LinkInv,
           consumer' \in [Service -> {"none", "making", "assigned", "closing"}],
           \A s \in Remote : consumer'[s] # "none" =>
               consumer[s] # "none" \/ RemoteServiceOk(s),
           UNCHANGED linkVars \/ \E S : Unlink(S)
    PROVE  LinkInv'
<1>1. CASE UNCHANGED linkVars
  BY <1>1 DEF LinkInv, linkVars
<1>2. ASSUME NEW S, Unlink(S) PROVE LinkInv'
  <2>1. \A s \in Service : link'[s] \in {"no", link[s]}
    BY <1>2, UnlinkKeeps
  <2>2. \A s \in Remote : consumer'[s] # "none" \/ link'[s] # "no" => RemoteServiceOk(s)
    BY <2>1 DEF LinkInv, Service
  <2> QED
    BY <1>2, <2>2, UnlinkKeeps DEF LinkInv
<1> QED
  BY <1>1, <1>2

LEMMA CrashLinks ==
    ASSUME LinkInv, NEW how, SomeipdEnds(how) \/ GatewaydEnds(how)
    PROVE  LinkInv'
<1>1. consumer' \in [Service -> {"none", "making", "assigned", "closing"}]
  BY Zenon DEF LinkInv, SomeipdEnds, GatewaydEnds
<1>2. \A s \in Remote : consumer'[s] # "none" => consumer[s] # "none"
  BY Zenon DEF LinkInv, SomeipdEnds, GatewaydEnds, Service
<1>3. Unlink(Service)
  BY Zenon DEF SomeipdEnds, GatewaydEnds
<1> QED
  BY <1>1, <1>2, <1>3, ConnectorSteps

\* A message appended to the queue of a service.
LEMMA AppendSample ==
    ASSUME LinkInv, NEW s \in Service, NEW m \in Sample(s),
           queue' = [queue EXCEPT ![s] = Append(@, m)], UNCHANGED <<link, consumer>>
    PROVE  LinkInv'
<1>1. Append(queue[s], m) \in Seq(Sample(s))
  BY DEF LinkInv
<1>2. DOMAIN queue' = Service /\ \A t \in Service : queue'[t] \in Seq(Sample(t))
  BY <1>1 DEF LinkInv
<1> QED
  BY <1>2 DEF LinkInv

\* A message taken off the queue of a service.
LEMMA TakeSample ==
    ASSUME LinkInv, NEW s \in Service, queue[s] # <<>>,
           queue' = [queue EXCEPT ![s] = Tail(@)], UNCHANGED <<link, consumer>>
    PROVE  LinkInv'
<1>1. Tail(queue[s]) \in Seq(Sample(s))
  BY DEF LinkInv
<1>2. DOMAIN queue' = Service /\ \A t \in Service : queue'[t] \in Seq(Sample(t))
  BY <1>1 DEF LinkInv
<1> QED
  BY <1>2 DEF LinkInv

\* A receive handler of gatewayd puts a sample on the way.
LEMMA LocalSampleLinks ==
    ASSUME LinkInv, NEW s \in Local, LocalSample(s)
    PROVE  LinkInv'
<1>1. s \in Service
  BY DEF Service
<1>2. PICK c \in EventContexts(s) : UpdateEvent(s, c.id, c.event) \/ UNCHANGED queue
  BY Zenon DEF LocalSample
<1>3. PICK id \in EventIds(s) : /\ Serialized(s, id)
                                /\ c = [id |-> id, event |-> EventConfig(s, id)]
  BY Zenon, <1>1, ContextOf
<1>4. c.id = id /\ c.event = EventConfig(s, id)
  BY Zenon, <1>3
<1>5. Message(c.id, c.event) \in Sample(s)
  BY Zenon, <1>1, <1>3, <1>4, SampleParts
<1>6. UNCHANGED <<link, consumer>>
  BY DEF LocalSample
<1>7. CASE UpdateEvent(s, c.id, c.event)
  BY Zenon, <1>1, <1>5, <1>6, <1>7, AppendSample DEF UpdateEvent
<1>8. CASE UNCHANGED queue
  BY Zenon, <1>6, <1>8 DEF LinkInv
<1> QED
  BY <1>2, <1>7, <1>8

\* So does the message handler of someipd: a service it can allocate a slot for
\* is one gatewayd has an instance of.
LEMMA NetworkMessageLinks ==
    ASSUME LinkInv, NEW s \in Remote, NetworkMessage(s)
    PROVE  LinkInv'
<1>1. s \in Service
  BY DEF Service
<1>2. RemoteServiceOk(s)
  BY Zenon DEF LinkInv, NetworkMessage, CanAllocate
<1>3. PICK id \in EventIds(s) :
        \/ SomeipdEnds("crashed")
        \/ UpdateEvent(s, id, EventConfig(s, id)) /\ UNCHANGED <<link, consumer>>
  BY Zenon DEF NetworkMessage
<1>4. CASE SomeipdEnds("crashed")
  BY <1>4, CrashLinks
<1>5. CASE UpdateEvent(s, id, EventConfig(s, id)) /\ UNCHANGED <<link, consumer>>
  <2>1. Serialized(s, id)
    BY <1>2, RemoteServiceSerialized
  <2>2. Message(id, EventConfig(s, id)) \in Sample(s)
    BY <1>1, <2>1, SampleParts
  <2> QED
    BY Zenon, <1>1, <1>5, <2>2, AppendSample DEF UpdateEvent
<1> QED
  BY <1>3, <1>4, <1>5

LEMMA NextLinkInv ==
    ASSUME LinkInv, [Next]_vars
    PROVE  LinkInv'
<1> DEFINE Kept == consumer' = consumer /\ link' = link /\ queue' = queue
<1>1. Kept => LinkInv'
  BY Zenon DEF LinkInv
<1>2. CASE ChannelStep
  BY <1>2, ConnectorSteps DEF ChannelStep, LinkInv
<1>3. CASE GatewaydMain
  <2>1. CASE GatewaydStarts \/ GatewaydConnected \/ GatewaydRuns \/ CloseProxies \/ StopChannel
    BY Zenon, <1>1, <2>1
    DEF GatewaydStarts, GatewaydConnected, GatewaydRuns, CloseProxies, StopChannel, linkVars
  <2>2. ASSUME NEW s \in Remote, CreateRemoteService(s) PROVE LinkInv'
    BY Zenon, <2>2, ConnectorSteps DEF CreateRemoteService, LinkInv, Service
  <2>3. ASSUME NEW s \in Remote, Assign(s) PROVE LinkInv'
    BY Zenon, <2>3, ConnectorSteps DEF Assign, LinkInv, Service
  <2>4. CASE CloseRemote
    BY Zenon, <2>4, ConnectorSteps DEF CloseRemote, LinkInv, Service
  <2>5. CASE CloseLocal
    BY Zenon, <2>5, ConnectorSteps DEF CloseLocal, LinkInv, Service
  <2>6. CASE DestroyClient
    BY <2>6, CrashLinks DEF DestroyClient
  <2> QED
    BY <1>3, <2>1, <2>2, <2>3, <2>4, <2>5, <2>6 DEF GatewaydMain
<1>4. CASE SomeipdMain
  <2>1. CASE SomeipdListens \/ CreateRouting \/ CreateRemoteNetwork \/ RunRouting \/ StopRouting
    BY Zenon, <1>1, <2>1
    DEF SomeipdListens, CreateRouting, CreateRemoteNetwork, RunRouting, StopRouting, linkVars
  <2>2. ASSUME NEW s \in Local, CreateLocalNetwork(s) \/ Assign(s) PROVE LinkInv'
    BY Zenon, <2>2, ConnectorSteps, TypesAssumption
    DEF CreateLocalNetwork, Assign, LinkInv, Service
  <2>3. CASE SomeipdReturns
    BY <2>3, CrashLinks DEF SomeipdReturns
  <2> QED
    BY <1>4, <2>1, <2>2, <2>3 DEF SomeipdMain
<1>5. CASE (\E d \in Daemon : Signal(d)) \/ SomeipdAgain \/ Registered \/ Deregistered
  BY Zenon, <1>1, <1>5 DEF Signal, SomeipdAgain, Registered, Deregistered, linkVars
<1>6. CASE GatewaydGivesUp \/ SomeipdGivesUp
  BY <1>6, CrashLinks DEF GatewaydGivesUp, SomeipdGivesUp
<1>7. ASSUME NEW s \in Service, Available(s) PROVE LinkInv'
  <2>1. CASE consumer[s] = "making"
    BY <1>7, <2>1, CrashLinks DEF Available, SomeipdCrashes, GatewaydCrashes
  <2>2. CASE consumer[s] = "assigned"
    <3>1. link' = [link EXCEPT ![s] = "available"] /\ UNCHANGED <<queue, consumer>>
      BY <1>7, <2>2 DEF Available
    <3>2. \A t \in Remote : t \in Service
      BY DEF Service
    <3>3. \A t \in Remote : consumer'[t] # "none" \/ link'[t] # "no" => RemoteServiceOk(t)
      BY <2>2, <3>1, <3>2 DEF LinkInv
    <3> QED
      BY Zenon, <3>1, <3>3 DEF LinkInv
  <2> QED
    BY Zenon, <1>7, <2>1, <2>2 DEF Available
<1>8. ASSUME NEW s \in Service, Subscribed(s) PROVE LinkInv'
  BY <1>8 DEF Subscribed, LinkInv
<1>9. ASSUME NEW s \in Local, FoundService(s) \/ AppOffers(s) \/ AppStops(s) PROVE LinkInv'
  BY Zenon, <1>1, <1>9 DEF FoundService, AppOffers, AppStops, linkVars
<1>10. ASSUME NEW s \in Local, PushBack(s) \/ LostService(s) \/ LateSample(s) PROVE LinkInv'
  BY Zenon, <1>1, <1>10, CrashLinks
  DEF PushBack, LostService, LateSample, GatewaydCrashes, linkVars
<1>11. ASSUME NEW s \in Local, ForwardToVsomeip(s) PROVE LinkInv'
  BY Zenon, <1>11, TakeSample DEF ForwardToVsomeip, Service
<1>12. ASSUME NEW s \in Remote, ForwardEvent(s) PROVE LinkInv'
  BY <1>12, TakeSample, CrashLinks DEF ForwardEvent, GatewaydCrashes, Service
<1>13. CASE UNCHANGED vars
  BY <1>1, <1>13 DEF vars, linkVars
<1> QED
  BY Zenon, <1>2, <1>3, <1>4, <1>5, <1>6, <1>7, <1>8, <1>9, <1>10, <1>11, <1>12, <1>13,
     LocalSampleLinks, NetworkMessageLinks DEF Next, Binding, MwCom


\* The context of a sample is found: what is on its way to a remote service
\* has a serializer and is known to mw::com.
LEMMA ContextThere ==
    ASSUME LinkInv, NEW s \in Remote, consumer[s] # "none", queue[s] # <<>>
    PROVE  Sent(s, Head(queue[s])) # {}
<1>1. s \in Service /\ RemoteServiceOk(s)
  BY DEF Service, LinkInv
<1>2. Head(queue[s]) \in Sample(s)
  BY <1>1 DEF LinkInv
<1>3. PICK id \in EventIds(s) :
            Serialized(s, id) /\ Head(queue[s]) = Message(id, EventConfig(s, id))
  BY Zenon, <1>1, <1>2, SampleParts
<1>4. Head(queue[s]).id = id
  BY <1>3 DEF Message
<1> DEFINE c == [id |-> id, event |-> EventConfig(s, id)]
<1>5. c \in EventContexts(s)
  BY Zenon, <1>1, <1>3, ContextOf, RemoteServiceSerialized
<1>6. c.id = id
  BY Zenon
<1> HIDE DEF c
<1>7. c \in {k \in EventContexts(s) : k.id = Head(queue[s]).id}
  BY <1>4, <1>5, <1>6
<1>8. c.event \in Sent(s, Head(queue[s]))
  BY <1>7 DEF Sent
<1> QED
  BY <1>8


\* What a step may add to misuse, apart from a sample that does not fit.
LEMMA NewMisuse ==
    ASSUME LinkInv, [Next]_vars
    PROVE  \/ misuse' \subseteq misuse \cup {"connector not assigned", "vector destroyed",
                                             "instance destroyed", "contexts destroyed",
                                             "no handle"}
           \/ \E s \in Local : LocalSample(s)
           \/ \E s \in Remote : NetworkMessage(s)
<1>1. CASE ChannelStep \/ (\E d \in Daemon : Signal(d)) \/ SomeipdAgain
           \/ Registered \/ Deregistered \/ GatewaydGivesUp \/ SomeipdGivesUp
  BY Zenon, <1>1 DEF ChannelStep, Signal, SomeipdAgain, Registered, Deregistered,
              GatewaydGivesUp, SomeipdGivesUp
<1>2. CASE GatewaydMain
  BY Zenon, <1>2 DEF GatewaydMain, GatewaydStarts, GatewaydConnected, CreateRemoteService, Assign,
              GatewaydRuns, CloseRemote, CloseLocal, CloseProxies, StopChannel, DestroyClient
<1>3. CASE SomeipdMain
  BY Zenon, <1>3 DEF SomeipdMain, SomeipdListens, CreateRouting, CreateLocalNetwork, Assign,
              CreateRemoteNetwork, RunRouting, StopRouting, SomeipdReturns
<1>4. ASSUME NEW s \in Service, Available(s) \/ Subscribed(s)
      PROVE  misuse' \subseteq misuse \cup {"connector not assigned"}
  BY Zenon, <1>4 DEF Available, Subscribed, SomeipdCrashes, GatewaydCrashes
<1>5. ASSUME NEW s \in Local,
             \/ FoundService(s) \/ LostService(s) \/ PushBack(s) \/ AppOffers(s) \/ AppStops(s)
             \/ LateSample(s) \/ ForwardToVsomeip(s)
      PROVE  misuse' \subseteq misuse \cup {"vector destroyed", "instance destroyed", "no handle"}
  BY Zenon, <1>5
  DEF FoundService, LostService, PushBack, AppOffers, AppStops, LateSample, ForwardToVsomeip,
      GatewaydCrashes
<1>6. ASSUME NEW s \in Remote, ForwardEvent(s)
      PROVE  misuse' \subseteq misuse \cup {"contexts destroyed"}
  <2>1. Sent(s, Head(queue[s])) # {}
    BY <1>6, ContextThere DEF ForwardEvent
  <2> QED
    BY <1>6, <2>1 DEF ForwardEvent, GatewaydCrashes
<1>7. CASE UNCHANGED vars
  BY <1>7 DEF vars
<1> QED
  BY <1>1, <1>2, <1>3, <1>4, <1>5, <1>6, <1>7 DEF Next, Binding, MwCom

LEMMA LinkInvInit ==
    ASSUME Init
    PROVE  LinkInv
<1>1. \A s \in Service : <<>> \in Seq(Sample(s))
  OBVIOUS
<1>2. \A s \in Remote : s \in Service
  BY DEF Service
<1> QED
  BY <1>1, <1>2 DEF Init, LinkInv

\* forward_event() indexes event_contexts_ without a check.  For any services
\* and events it finds the context: a remote service is linked only after
\* CreateAsyncRemoteService() found a serializer for every event, and the
\* skeleton was made with all of them.
THEOREM ContextIsFound == Spec => []ContextFound
<1>1. Init => LinkInv /\ ContextFound
  BY Zenon, LinkInvInit DEF Init, ContextFound
<1>2. LinkInv /\ ContextFound /\ [Next]_vars => (LinkInv /\ ContextFound)'
  <2> SUFFICES ASSUME LinkInv, ContextFound, [Next]_vars PROVE (LinkInv /\ ContextFound)'
    OBVIOUS
  <2>1. ASSUME NEW s \in Local, LocalSample(s) PROVE ContextFound'
    <3>1. misuse' \subseteq misuse \cup {"declared size"}
      BY <2>1 DEF LocalSample
    <3> QED
      BY <3>1 DEF ContextFound
  <2>2. ASSUME NEW s \in Remote, NetworkMessage(s) PROVE ContextFound'
    <3>1. misuse' \subseteq misuse \cup {"declared size"}
      BY <2>2 DEF NetworkMessage
    <3> QED
      BY <3>1 DEF ContextFound
  <2> QED
    BY <2>1, <2>2, NewMisuse, NextLinkInv DEF ContextFound
<1> QED
  BY <1>1, <1>2, PTL DEF Spec


-----------------------------------------------------------------------------
(* Sizes.                                                                   *)

LEMMA LeastOf ==
    ASSUME NEW T, T \subseteq Nat, T # {}
    PROVE  \E m \in T : \A n \in T : m <= n
<1>1. IsWellFoundedOn(OpToRel(<, Nat), Nat)
  BY NatLessThanWellFounded
<1>2. PICK x \in T : \A y \in T : ~(<<y, x>> \in OpToRel(<, Nat))
  BY <1>1, WFMin
<1>3. \A y \in T : ~(y < x)
  BY Zenon, <1>2 DEF OpToRel
<1> QED
  BY <1>3

\* A sequence of numbers that is not empty has a largest one.
LEMMA LargestAt ==
    ASSUME NEW f, NEW n \in Nat \ {0}, \A i \in 1 .. n : f[i] \in Nat
    PROVE  \E i \in 1 .. n : \A j \in 1 .. n : f[j] <= f[i]
<1> DEFINE has(k) == \E i \in 1 .. k : \A j \in 1 .. k : f[j] <= f[i]
           T == {k \in 1 .. n : ~has(k)}
<1>0. n \in 1 .. n /\ (n \notin T => has(n))
  OBVIOUS
<1>1. SUFFICES ASSUME T # {} PROVE FALSE
  BY <1>0
<1>10. T \subseteq Nat
  OBVIOUS
<1>2. PICK k \in T : \A m \in T : k <= m
  <2> HIDE DEF T
  <2> QED
    BY Zenon, <1>1, <1>10, LeastOf
<1>3. has(1)
  <2>1. \A j \in 1 .. 1 : j = 1
    OBVIOUS
  <2> QED
    BY <2>1
<1>11. k \in 1 .. n /\ ~has(k)
  BY <1>2
<1>12. k # 1
  BY <1>3, <1>11
<1>4. k \in 2 .. n /\ k - 1 \in 1 .. n /\ ~(k - 1 \in T)
  <2> HIDE DEF has, T
  <2> QED
    BY <1>2, <1>11, <1>12
<1>5. PICK i \in 1 .. k - 1 : \A j \in 1 .. k - 1 : f[j] <= f[i]
  BY Zenon, <1>4
<1>6. \A j \in 1 .. k : j = k \/ j \in 1 .. k - 1
  BY <1>4
<1>7. f[k] \in Nat /\ f[i] \in Nat /\ \A j \in 1 .. k : f[j] \in Nat
  BY <1>4
<1>8. CASE f[k] <= f[i]
  BY <1>2, <1>4, <1>5, <1>6, <1>8
<1>9. CASE f[i] <= f[k]
  <2>1. \A j \in 1 .. k : f[j] <= f[k]
    BY <1>4, <1>5, <1>6, <1>7, <1>9
  <2> QED
    BY <1>2, <1>4, <2>1
<1> QED
  BY <1>7, <1>8, <1>9

\* The slots of a service whose events all have a size hold each of them.
LEMMA SlotsLargeEnough ==
    ASSUME NEW s \in Service, NEW i \in DOMAIN Events[s],
           \A j \in DOMAIN Events[s] : Events[s][j].serializer.max_message_size > 0
    PROVE  /\ EventSlotSize(s) \in Nat
           /\ EventSlotSize(s) >= Events[s][i].serializer.max_message_size + kSomeipFullHeaderSize
<1> DEFINE f == [j \in DOMAIN Events[s] |-> Events[s][j].serializer.max_message_size]
           n == Len(Events[s])
           sizes == {SerializerGet(s, Events[s][j].name).max_message_size : j \in DOMAIN Events[s]}
<1>1. n \in Nat \ {0} /\ DOMAIN Events[s] = 1 .. n
  BY SerializerAssumption
<1>2. \A j \in 1 .. n : f[j] \in Nat /\ f[j] > 0
  BY Zenon, <1>1, SerializerType
<1>3. sizes = {f[j] : j \in 1 .. n}
  <2>1. \A j \in DOMAIN Events[s] : SerializerGet(s, Events[s][j].name).max_message_size = f[j]
    BY Zenon, OwnSerializer
  <2> HIDE DEF f, n
  <2> QED
    BY Zenon, <1>1, <2>1
<1>4. f[i] = Events[s][i].serializer.max_message_size
  OBVIOUS
<1>5. EventSlotSize(s) = IF sizes = {} \/ 0 \in sizes THEN kMaxMessageSize
                         ELSE Max(sizes) + kSomeipFullHeaderSize
  BY Zenon DEF EventSlotSize
<1> HIDE DEF f, n, sizes
<1>6. sizes # {} /\ 0 \notin sizes
  BY <1>1, <1>2, <1>3
<1>7. PICK k \in 1 .. n : \A j \in 1 .. n : f[j] <= f[k]
  BY Zenon, <1>1, <1>2, LargestAt
<1>8. f[k] \in sizes /\ \A x \in sizes : x <= f[k] /\ x \in Nat
  BY Zenon, <1>2, <1>3, <1>7
<1>9. Max(sizes) \in sizes /\ \A x \in sizes : Max(sizes) >= x
  BY Zenon, <1>8 DEF Max
<1>10. Max(sizes) \in Nat /\ Max(sizes) >= f[i]
  BY Zenon, <1>1, <1>3, <1>8, <1>9
<1>11. EventSlotSize(s) = Max(sizes) + kSomeipFullHeaderSize
  BY Zenon, <1>5, <1>6
<1>12. i \in 1 .. n /\ f[i] \in Nat
  BY Zenon, <1>1, <1>2
<1>13. \A a, b \in Nat : a >= b => /\ a + kSomeipFullHeaderSize \in Nat
                                  /\ a + kSomeipFullHeaderSize >= b + kSomeipFullHeaderSize
  BY DEF kSomeipFullHeaderSize
<1> QED
  BY Zenon, <1>4, <1>10, <1>11, <1>12, <1>13

\* In a configuration with known sizes every event fits the slots of its
\* service.
LEMMA DeclaredFits ==
    ASSUME SizesKnown, NEW s \in Service, NEW i \in DOMAIN Events[s]
    PROVE  /\ EventSlotSize(s) \in Nat
           /\ EventSlotSize(s) >= Events[s][i].serializer.max_message_size + kSomeipFullHeaderSize
<1>1. \A j \in DOMAIN Events[s] : Events[s][j].serializer.max_message_size \in Nat
  BY Zenon, SerializerType
<1>2. CASE \A j \in DOMAIN Events[s] : Events[s][j].serializer.max_message_size # 0
  <2>1. \A n \in Nat : n # 0 => n > 0
    OBVIOUS
  <2>2. \A j \in DOMAIN Events[s] : Events[s][j].serializer.max_message_size > 0
    BY Zenon, <1>1, <1>2, <2>1
  <2> QED
    BY Zenon, <2>2, SlotsLargeEnough
<1>3. CASE \E j \in DOMAIN Events[s] : Events[s][j].serializer.max_message_size = 0
  <2>1. PICK j \in DOMAIN Events[s] : Events[s][j].serializer.max_message_size = 0
    BY <1>3
  <2>2. SerializerGet(s, Events[s][j].name).max_message_size = 0
    BY Zenon, <2>1, OwnSerializer
  <2>3. EventSlotSize(s) = kMaxMessageSize
    BY Zenon, <2>2 DEF EventSlotSize
  <2>4. Events[s][i].serializer.max_message_size + kSomeipFullHeaderSize <= kMaxMessageSize
    BY Zenon, <1>3 DEF SizesKnown
  <2>5. \A n \in Nat : n + kSomeipFullHeaderSize <= kMaxMessageSize
                       => kMaxMessageSize \in Nat /\ kMaxMessageSize >= n + kSomeipFullHeaderSize
    BY DEF kMaxMessageSize, kSomeipFullHeaderSize
  <2> QED
    BY Zenon, <1>1, <2>3, <2>4, <2>5
<1> QED
  BY Zenon, <1>2, <1>3

\* Data of a declared size and the header fit the slot the publishing daemon
\* allocates.
LEMMA DataFits ==
    ASSUME SizesKnown, NEW s \in Service, NEW id \in EventIds(s),
           NEW d, (d = "gatewayd") = (s \in Local), SlotSize(d, s) > 0,
           NEW size \in Nat, Declared(EventConfig(s, id), size)
    PROVE  /\ SlotSize(d, s) \in Nat
           /\ SlotSize(d, s) >= size + kSomeipFullHeaderSize
<1>1. id + 1 \in DOMAIN Events[s] /\ EventConfig(s, id) = Events[s][id + 1]
  BY Zenon, EventAt
<1>2. PICK n \in Nat : n = Events[s][id + 1].serializer.max_message_size
  BY Zenon, <1>1, SerializerType
<1>3. size <= n
  BY Zenon, <1>1, <1>2 DEF Declared
<1>4. SlotSize(d, s) # 0
  OBVIOUS
<1>5. SlotSize(d, s) = EventSlotSize(s)
  BY Zenon, <1>4 DEF SlotSize
<1>6. EventSlotSize(s) \in Nat /\ EventSlotSize(s) >= n + kSomeipFullHeaderSize
  BY Zenon, <1>1, <1>2, DeclaredFits
<1>7. \A a, b, c \in Nat : a >= b + kSomeipFullHeaderSize /\ c <= b
                             => a >= c + kSomeipFullHeaderSize
  BY DEF kSomeipFullHeaderSize
<1> QED
  BY Zenon, <1>3, <1>5, <1>6, <1>7

LEMMA LocalSampleFits ==
    ASSUME SizesKnown, NEW s \in Local, LocalSample(s)
    PROVE  misuse' = misuse
<1>1. s \in Service
  BY DEF Service
<1>2. SUFFICES ASSUME NEW c \in EventContexts(s), NEW size \in DataSizes,
                      Declared(c.event, size),
                      ~SerializeOk(size, SlotSize("gatewayd", s) - kSomeipFullHeaderSize)
               PROVE  FALSE
  BY Zenon DEF LocalSample
<1>3. PICK id \in EventIds(s) : c = [id |-> id, event |-> EventConfig(s, id)]
  BY Zenon, <1>1, ContextOf
<1>4. c.event = EventConfig(s, id)
  BY Zenon, <1>3
<1>5. size \in Nat
  BY Zenon, BoundsAssumption
<1>6. SlotSize("gatewayd", s) > 0
  BY Zenon DEF LocalSample, CanAllocate
<1>7. ("gatewayd" = "gatewayd") = (s \in Local)
  OBVIOUS
<1>8. /\ SlotSize("gatewayd", s) \in Nat
      /\ SlotSize("gatewayd", s) >= size + kSomeipFullHeaderSize
  BY Zenon, <1>1, <1>2, <1>4, <1>5, <1>6, <1>7, DataFits
<1>9. \A a, b \in Nat : a >= b + kSomeipFullHeaderSize => SerializeOk(b, a - kSomeipFullHeaderSize)
  BY DEF SerializeOk, kSomeipFullHeaderSize
<1> QED
  BY Zenon, <1>2, <1>5, <1>8, <1>9

LEMMA NetworkMessageFits ==
    ASSUME SizesKnown, NEW s \in Remote, NetworkMessage(s)
    PROVE  misuse' = misuse
<1>1. s \in Service /\ s \notin Local
  BY Zenon, TypesAssumption DEF Service
<1>2. SUFFICES ASSUME NEW id \in EventIds(s), NEW size \in DataSizes,
                      Declared(EventConfig(s, id), size),
                      kSomeipFullHeaderSize + size > SlotSize("someipd", s)
               PROVE  FALSE
  BY Zenon DEF NetworkMessage
<1>3. size \in Nat
  BY Zenon, BoundsAssumption
<1>4. SlotSize("someipd", s) > 0
  BY Zenon DEF NetworkMessage, CanAllocate
<1>5. ("someipd" = "gatewayd") = (s \in Local)
  BY <1>1
<1>6. /\ SlotSize("someipd", s) \in Nat
      /\ SlotSize("someipd", s) >= size + kSomeipFullHeaderSize
  BY Zenon, <1>1, <1>2, <1>3, <1>4, <1>5, DataFits
<1>7. \A a, b \in Nat : a >= b + kSomeipFullHeaderSize => ~(kSomeipFullHeaderSize + b > a)
  BY DEF kSomeipFullHeaderSize
<1> QED
  BY Zenon, <1>2, <1>3, <1>6, <1>7

\* For any configuration in which the fallback of event_slot_size() is large
\* enough, and data of any length: the slots hold header and data of every
\* event up to the size its serializer declares, whichever daemon publishes.
THEOREM DeclaredSizesFit ==
    ASSUME SizesKnown
    PROVE  Spec => []SlotsHoldDeclared
<1>1. Init => LinkInv /\ SlotsHoldDeclared
  BY Zenon, LinkInvInit DEF Init, SlotsHoldDeclared
<1>2. LinkInv /\ SlotsHoldDeclared /\ [Next]_vars => (LinkInv /\ SlotsHoldDeclared)'
  <2> SUFFICES ASSUME LinkInv, SlotsHoldDeclared, [Next]_vars
               PROVE  (LinkInv /\ SlotsHoldDeclared)'
    OBVIOUS
  <2>1. misuse' \subseteq misuse \cup {"connector not assigned", "vector destroyed",
                                       "instance destroyed", "contexts destroyed", "no handle"}
    BY NewMisuse, LocalSampleFits, NetworkMessageFits
  <2> QED
    BY <2>1, NextLinkInv DEF SlotsHoldDeclared
<1> QED
  BY <1>1, <1>2, PTL DEF Spec

-----------------------------------------------------------------------------
(* Names.                                                                   *)

\* What comes out for a sample is the event it was taken from.
LEMMA SampleComesOut ==
    ASSUME NEW s \in Service, NEW m \in Sample(s),
           NEW event \in Notified(s, m) \cup Sent(s, m)
    PROVE  event.name = m.name /\ event.event_id = m.method_id
<1>1. PICK id \in EventIds(s) : Serialized(s, id) /\ m = Message(id, EventConfig(s, id))
  BY Zenon, SampleParts
<1>2. m.id = id /\ m.name = EventConfig(s, id).name /\ m.method_id = EventConfig(s, id).event_id
  BY Zenon, <1>1 DEF Message
<1>3. CASE event \in Notified(s, m)
  BY <1>2, <1>3 DEF Notified
<1>4. CASE event \in Sent(s, m)
  <2>1. PICK c \in EventContexts(s) : c.id = m.id /\ event = c.event
    BY Zenon, <1>4 DEF Sent
  <2>2. PICK k \in EventIds(s) : c = [id |-> k, event |-> EventConfig(s, k)]
    BY Zenon, ContextOf
  <2> QED
    BY Zenon, <1>2, <2>1, <2>2
<1> QED
  BY <1>3, <1>4

\* For any services and events, a payload comes out as the event it is a
\* sample of: the numbers the two daemons count and look up agree, although
\* gatewayd leaves events out.
THEOREM NamesAreKept == Spec => []EventsKeepTheirName
<1>1. LinkInv => EventsKeepTheirName
  <2> SUFFICES ASSUME LinkInv, NEW s \in Service, NEW i \in DOMAIN queue[s],
                      NEW event \in IF s \in Local THEN Notified(s, queue[s][i])
                                    ELSE Sent(s, queue[s][i])
               PROVE  /\ event.name = queue[s][i].name
                      /\ event.event_id = queue[s][i].method_id
    BY Zenon DEF EventsKeepTheirName
  <2>1. queue[s][i] \in Sample(s)
    BY DEF LinkInv
  <2> QED
    <3>1. event \in Notified(s, queue[s][i]) \cup Sent(s, queue[s][i])
      BY Zenon
    <3> QED
      BY Zenon, <2>1, <3>1, SampleComesOut
<1>2. Init => LinkInv
  BY LinkInvInit
<1>3. LinkInv /\ [Next]_vars => LinkInv'
  BY NextLinkInv
<1> QED
  BY <1>1, <1>2, <1>3, PTL DEF Spec
=============================================================================
