---------------------------- MODULE SocomRuntime ----------------------------
(***************************************************************************)
(* The SOCom runtime (socom/impl/runtime_impl.cpp): one Service_record with *)
(* the connectors registered in it, the duplicate check, version           *)
(* compatibility, and the requests passed on to service bridges.           *)
(*                                                                         *)
(* Connectors that share a record have the same interface, major version   *)
(* and instance; a configuration is told apart by its minor version only.  *)
(* What happens inside connectors is in SocomConnector; here a client is    *)
(* connected to a server (conn) or not.                                    *)
(*                                                                         *)
(* Every client connector, server connector and bridge has a thread.  A     *)
(* critical section of m_runtime_mutex or m_bridge_mutex is one step.  The  *)
(* calls of request_service() are made with m_bridge_mutex released.       *)
(*                                                                         *)
(* The bridges behave as the gateway's (request_service_handle.hpp): making *)
(* a handle asks the peer for the service, destroying it takes that back.  *)
(***************************************************************************)
EXTENDS Naturals, FiniteSets

CONSTANTS Client, Server, Bridge,
          ClientMinor, ServerMinor,   \* minor versions of the configurations
          OverlappingClients          \* may a client connector be made before
                                      \* another one is destroyed completely?

None == "none"
RecordCap == 3   \* sizes of an identity record that are told apart: 1, 2, more

ASSUME NameAssumption == None \notin Client \cup Server \cup Bridge
ASSUME MinorAssumption == ClientMinor \subseteq Nat /\ ServerMinor \subseteq Nat
ASSUME OverlapAssumption == OverlappingClients \in BOOLEAN

VARIABLES
    rec_server, rec_client,  \* m_server and m_client of the Service_record
    identifiers,             \* m_service_identifiers, as minor versions
    callbacks,               \* m_bridge_to_callbacks
    requests,                \* m_service_requests: per minor version whether
                             \* there is an entry (listed), who owns its map
                             \* (holders), the bridges with a handle in it
                             \* (handles), the size of the identity record
    conn,                    \* the server a client is connected to
    interest,                \* per bridge, what it asks its peer for
    cl, sv, br               \* threads

vars == <<rec_server, rec_client, identifiers, callbacks, requests, conn, interest, cl, sv, br>>
recordVars == <<rec_server, rec_client, identifiers>>
bridgeVars == <<callbacks, requests, interest, br>>

NoRequest == [listed |-> FALSE, holders |-> {}, handles |-> {}, record |-> 0]
NoClient == [pc |-> "absent", minor |-> 0, server |-> None, todo |-> {}, asking |-> None,
             result |-> {}]
NoServer == [pc |-> "absent", minor |-> 0, client |-> None]
NoBridge == [pc |-> "new", todo |-> {}, result |-> {}, done |-> {}]

Init ==
    /\ rec_server = None /\ rec_client = None /\ identifiers = {}
    /\ callbacks = {}
    /\ requests = [m \in ClientMinor |-> NoRequest]
    /\ conn = [c \in Client |-> None]
    /\ interest = [b \in Bridge |-> {}]
    /\ cl = [c \in Client |-> NoClient]
    /\ sv = [s \in Server |-> NoServer]
    /\ br = [b \in Bridge |-> NoBridge]

\* is_minor_version_compatible()
Compatible(server_minor, client_minor) == client_minor <= server_minor

\* The Service_requests for minor version m at the bridges bs are destroyed.
TakenBack(bs, m) == [b \in Bridge |-> IF b \in bs THEN interest[b] \ {m} ELSE interest[b]]

-----------------------------------------------------------------------------
(* Server connectors.                                                       *)

\* make_server_connector(): refused if the identifier, which includes the minor
\* version, is in use.
MakeServer(s, m) ==
    /\ sv[s].pc = "absent"
    /\ m \notin identifiers
    /\ identifiers' = identifiers \cup {m}
    /\ sv' = [sv EXCEPT ![s].pc = "disabled", ![s].minor = m]
    /\ UNCHANGED <<rec_server, rec_client, bridgeVars, conn, cl>>

\* register_connector() of a server: a server already in the record is
\* overwritten, the assertion against it is compiled out. The block token of a
\* client whose destructor has started is gone.
RegisterServer(s) ==
    /\ sv[s].pc = "disabled"
    /\ rec_server' = s
    /\ sv' = [sv EXCEPT ![s].pc = IF rec_client = None THEN "enabled" ELSE "connect_client",
                        ![s].client = IF rec_client \in {c \in Client : cl[c].pc = "unregister"}
                                      THEN None ELSE rec_client]
    /\ UNCHANGED <<rec_client, identifiers, bridgeVars, conn, cl>>

\* Mutant: the versions are not compared.
ConnectClientAny(s) ==
    /\ sv[s].pc = "connect_client"
    /\ conn' = [d \in Client |-> IF d = sv[s].client THEN s ELSE conn[d]]
    /\ sv' = [sv EXCEPT ![s].pc = "enabled", ![s].client = None]
    /\ UNCHANGED <<recordVars, bridgeVars, cl>>

\* connect_client(), unless the client's destructor has started (client None).
ConnectClient(s) ==
    /\ sv[s].pc = "connect_client"
    /\ LET c == sv[s].client
       IN conn' = [d \in Client |-> IF d = c /\ Compatible(sv[s].minor, cl[c].minor)
                                    THEN s ELSE conn[d]]
    /\ sv' = [sv EXCEPT ![s].pc = "enabled", ![s].client = None]
    /\ UNCHANGED <<recordVars, bridgeVars, cl>>

\* disable(): the final action of the registration resets m_server ...
UnregisterServer(s) ==
    /\ sv[s].pc = "enabled"
    /\ rec_server' = None
    /\ sv' = [sv EXCEPT ![s].pc = "unregistered"]
    /\ UNCHANGED <<rec_client, identifiers, bridgeVars, conn, cl>>

\* ... then connects are refused ...
ResetTokens(s) ==
    /\ sv[s].pc = "unregistered"
    /\ sv' = [sv EXCEPT ![s].pc = "stopping"]
    /\ UNCHANGED <<recordVars, bridgeVars, conn, cl>>

\* ... and when no client is about to connect all clients are told.
StopClients(s) ==
    /\ sv[s].pc = "stopping"
    /\ \A c \in Client : ~(cl[c].pc = "server_update" /\ cl[c].server = s)
    /\ conn' = [c \in Client |-> IF conn[c] = s THEN None ELSE conn[c]]
    /\ sv' = [sv EXCEPT ![s].pc = "disabled"]
    /\ UNCHANGED <<recordVars, bridgeVars, cl>>

\* The destructor of a disabled server connector erases the identifier.
DestroyServer(s) ==
    /\ sv[s].pc = "disabled"
    /\ identifiers' = identifiers \ {sv[s].minor}
    /\ sv' = [sv EXCEPT ![s] = NoServer]
    /\ UNCHANGED <<rec_server, rec_client, bridgeVars, conn, cl>>

-----------------------------------------------------------------------------
(* Client connectors.                                                       *)

\* register_connector() of a client: refused if the record has one. A client
\* that meets a server is not passed on to the bridges, even if the versions
\* are not compatible.
MakeClient(c, m) ==
    /\ cl[c].pc = "absent"
    /\ rec_client = None
    /\ OverlappingClients \/ \A d \in Client : cl[d].pc = "absent"
    /\ rec_client' = c
    /\ cl' = [cl EXCEPT ![c].minor = m, ![c].server = rec_server,
                        ![c].pc = IF rec_server = None THEN "bridge"
                                  ELSE IF Compatible(sv[rec_server].minor, m)
                                  THEN "server_update" ELSE "live"]
    /\ UNCHANGED <<rec_server, identifiers, bridgeVars, conn, sv>>

\* on_server_update() with the endpoint found: Connect is accepted as long as
\* the server's token is there.
ServerUpdate(c) ==
    /\ cl[c].pc = "server_update"
    /\ conn' = [conn EXCEPT ![c] = IF sv[cl[c].server].pc = "stopping" THEN @ ELSE cl[c].server]
    /\ cl' = [cl EXCEPT ![c].pc = "live"]
    /\ UNCHANGED <<recordVars, bridgeVars, sv>>

\* Mutant: the requester itself is expected not to be in the record.
IsForwardSubscriptionBefore(size) == size = 0

\* is_forward_subscription(): no client connector gives an identity, so a second
\* entry of a record is never one of a bridge and only the first is passed on.
IsForwardSubscription(size) == size = 1

\* get_bridge_requests(), first critical section: share the map of the entry or
\* make a new one, and copy the bridges. An entry whose map is gone is replaced.
GetBridgeRequests(c) ==
    /\ cl[c].pc = "bridge"
    /\ LET m == cl[c].minor
           entry == IF requests[m].holders = {} THEN [NoRequest EXCEPT !.listed = TRUE]
                    ELSE requests[m]
           size == IF entry.record < RecordCap THEN entry.record + 1 ELSE RecordCap
       IN requests' = [requests EXCEPT ![m] = [entry EXCEPT !.holders = @ \cup {c},
                                                            !.record = size]]
    /\ cl' = [cl EXCEPT ![c].pc = "forward", ![c].todo = callbacks]
    /\ UNCHANGED <<recordVars, callbacks, interest, br, conn, sv>>

\* The next bridge of the copy: its identity is read through the registration
\* id, a pointer to the registration handle, and the lock is released if the
\* request is to be forwarded.
ForwardNext(c) ==
    /\ cl[c].pc = "forward"
    /\ \E b \in cl[c].todo :
        cl' = IF IsForwardSubscription(requests[cl[c].minor].record)
              THEN [cl EXCEPT ![c].pc = "create_value", ![c].todo = @ \ {b}, ![c].asking = b]
              ELSE [cl EXCEPT ![c].todo = @ \ {b}]
    /\ UNCHANGED <<recordVars, bridgeVars, conn, sv>>

\* create_value(): request_service() of that bridge.
CreateValue(c) ==
    /\ cl[c].pc = "create_value"
    /\ interest' = [interest EXCEPT ![cl[c].asking] = @ \cup {cl[c].minor}]
    /\ cl' = [cl EXCEPT ![c].pc = "forward", ![c].asking = None,
                        ![c].result = @ \cup {cl[c].asking}]
    /\ UNCHANGED <<recordVars, callbacks, requests, br, conn, sv>>

\* get_bridge_requests(), end: what is not in the map yet is stored; a second
\* handle of a bridge is destroyed.
StoreRequests(c) ==
    /\ cl[c].pc = "forward" /\ cl[c].todo = {}
    /\ LET m == cl[c].minor
       IN /\ requests' = [requests EXCEPT ![m].handles = @ \cup cl[c].result]
          /\ interest' = TakenBack(cl[c].result \cap requests[m].handles, m)
    /\ cl' = [cl EXCEPT ![c].pc = "live", ![c].result = {}]
    /\ UNCHANGED <<recordVars, callbacks, br, conn, sv>>

\* The destructor: the block token and m_server are reset. An indication on its
\* way to this client finds the token gone.
CloseClient(c) ==
    /\ cl[c].pc = "live"
    /\ conn' = [conn EXCEPT ![c] = None]
    /\ sv' = [s \in Server |-> IF sv[s].client = c THEN [sv[s] EXCEPT !.client = None] ELSE sv[s]]
    /\ cl' = [cl EXCEPT ![c].pc = "unregister"]
    /\ UNCHANGED <<recordVars, bridgeVars>>

\* Registration_collection, last member first: m_client is reset ...
UnregisterClient(c) ==
    /\ cl[c].pc = "unregister"
    /\ rec_client' = None
    /\ cl' = IF \E m \in ClientMinor : c \in requests[m].holders
             THEN [cl EXCEPT ![c].pc = "release"]
             ELSE [cl EXCEPT ![c] = NoClient]
    /\ UNCHANGED <<rec_server, identifiers, bridgeVars, conn, sv>>

\* Mutant: the entry shares the ownership of the map.
ReleaseRequestsShared(c) ==
    /\ cl[c].pc = "release"
    /\ requests' = [requests EXCEPT ![cl[c].minor].holders = @ \ {c}]
    /\ cl' = [cl EXCEPT ![c].pc = "drop", ![c].todo = {}]
    /\ UNCHANGED <<recordVars, callbacks, interest, br, conn, sv>>

\* ... then service_requests is reset, without a lock: the last owner destroys
\* the map ...
ReleaseRequests(c) ==
    /\ cl[c].pc = "release"
    /\ LET m == cl[c].minor
           last == requests[m].holders = {c}
       IN /\ requests' = [requests EXCEPT ![m].holders = @ \ {c},
                                          ![m].handles = IF last THEN {} ELSE @]
          /\ cl' = [cl EXCEPT ![c].pc = "drop", ![c].todo = IF last THEN requests[m].handles ELSE {}]
    /\ UNCHANGED <<recordVars, callbacks, interest, br, conn, sv>>

\* ... one handle after the other ...
DropHandle(c) ==
    /\ cl[c].pc = "drop"
    /\ \E b \in cl[c].todo :
        /\ interest' = TakenBack({b}, cl[c].minor)
        /\ cl' = [cl EXCEPT ![c].todo = @ \ {b}]
    /\ UNCHANGED <<recordVars, callbacks, requests, br, conn, sv>>

\* ... and the entry is erased, unless its map is in use again.
RemoveFromServiceRequests(c) ==
    /\ cl[c].pc = "drop" /\ cl[c].todo = {}
    /\ requests' = IF requests[cl[c].minor].holders = {}
                   THEN [requests EXCEPT ![cl[c].minor] = NoRequest] ELSE requests
    /\ cl' = [cl EXCEPT ![c] = NoClient]
    /\ UNCHANGED <<recordVars, callbacks, interest, br, conn, sv>>

-----------------------------------------------------------------------------
(* Bridges.                                                                 *)

Listed == {m \in ClientMinor : requests[m].listed}

\* register_service_bridge(): from now on requests include the bridge. The
\* requests there are already are its first round.
RegisterBridge(b) ==
    /\ br[b].pc = "new"
    /\ callbacks' = callbacks \cup {b}
    /\ br' = [br EXCEPT ![b].pc = "registering", ![b].todo = Listed]
    /\ UNCHANGED <<recordVars, requests, interest, conn, cl, sv>>

\* register_bridge(): request_service() for one request of the round.
CreateRequest(b) ==
    /\ br[b].pc = "registering"
    /\ \E m \in br[b].todo :
        /\ interest' = [interest EXCEPT ![b] = @ \cup {m}]
        /\ br' = [br EXCEPT ![b].todo = @ \ {m}, ![b].result = @ \cup {m}, ![b].done = @ \cup {m}]
    /\ UNCHANGED <<recordVars, callbacks, requests, conn, cl, sv>>

\* Mutant: requests_done is not consulted.
MergeBridgeAgain(b) ==
    /\ br[b].pc = "registering" /\ br[b].todo = {}
    /\ LET stored == {m \in br[b].result \cap Listed :
                        requests[m].holders # {} /\ b \notin requests[m].handles}
           more == Listed \ br[b].result
       IN /\ requests' = [m \in ClientMinor |-> IF m \in stored
                            THEN [requests[m] EXCEPT !.handles = @ \cup {b}] ELSE requests[m]]
          /\ interest' = [interest EXCEPT ![b] = @ \ (br[b].result \ stored)]
          /\ br' = [br EXCEPT ![b] = IF more = {} THEN [NoBridge EXCEPT !.pc = "registered"]
                                     ELSE [@ EXCEPT !.todo = more, !.result = {}]]
    /\ UNCHANGED <<recordVars, callbacks, conn, cl, sv>>

\* register_bridge(): the results of the round are stored where the request is
\* still there and has no handle of the bridge; the others are destroyed.
\* Requests not seen before are the next round.
MergeBridge(b) ==
    /\ br[b].pc = "registering" /\ br[b].todo = {}
    /\ LET stored == {m \in br[b].result \cap Listed :
                        requests[m].holders # {} /\ b \notin requests[m].handles}
           more == Listed \ (br[b].result \cup br[b].done)
       IN /\ requests' = [m \in ClientMinor |-> IF m \in stored
                            THEN [requests[m] EXCEPT !.handles = @ \cup {b}] ELSE requests[m]]
          /\ interest' = [interest EXCEPT ![b] = @ \ (br[b].result \ stored)]
          /\ br' = [br EXCEPT ![b] = IF more = {} THEN [NoBridge EXCEPT !.pc = "registered"]
                                     ELSE [@ EXCEPT !.todo = more, !.result = {}]]
    /\ UNCHANGED <<recordVars, callbacks, conn, cl, sv>>

\* stop_registration(), from the destructor of the registration handle.
StopRegistration(b) ==
    /\ br[b].pc = "registered"
    /\ callbacks' = callbacks \ {b}
    /\ LET stored == {m \in Listed : b \in requests[m].handles}
       IN /\ requests' = [m \in ClientMinor |-> [requests[m] EXCEPT !.handles = @ \ {b}]]
          /\ interest' = [interest EXCEPT ![b] = @ \ stored]
    /\ br' = [br EXCEPT ![b].pc = "gone"]
    /\ UNCHANGED <<recordVars, conn, cl, sv>>

-----------------------------------------------------------------------------
BeginClient(c) == (\E m \in ClientMinor : MakeClient(c, m)) \/ CloseClient(c)
ContinueClient(c) ==
    \/ ServerUpdate(c) \/ GetBridgeRequests(c) \/ ForwardNext(c) \/ CreateValue(c)
    \/ StoreRequests(c) \/ UnregisterClient(c) \/ ReleaseRequests(c) \/ DropHandle(c)
    \/ RemoveFromServiceRequests(c)

BeginServer(s) ==
    (\E m \in ServerMinor : MakeServer(s, m)) \/ RegisterServer(s) \/ UnregisterServer(s)
        \/ DestroyServer(s)
ContinueServer(s) == ConnectClient(s) \/ ResetTokens(s) \/ StopClients(s)

BeginBridge(b) == RegisterBridge(b) \/ StopRegistration(b)
ContinueBridge(b) == CreateRequest(b) \/ MergeBridge(b)

Next ==
    \/ \E c \in Client : BeginClient(c) \/ ContinueClient(c)
    \/ \E s \in Server : BeginServer(s) \/ ContinueServer(s)
    \/ \E b \in Bridge : BeginBridge(b) \/ ContinueBridge(b)

Spec == Init /\ [][Next]_vars

\* A thread that has entered the runtime goes on.
FairSpec ==
    /\ Spec
    /\ \A c \in Client : WF_vars(ContinueClient(c))
    /\ \A s \in Server : WF_vars(ContinueServer(s))
    /\ \A b \in Bridge : WF_vars(ContinueBridge(b))
=============================================================================
