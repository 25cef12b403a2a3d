-------------------------- MODULE RuntimeProperties --------------------------
(* What is claimed of the SOCom runtime.                                    *)
EXTENDS SocomRuntime

\* No thread is inside the runtime.
Quiet ==
    /\ \A c \in Client : cl[c].pc \in {"absent", "live"}
    /\ \A s \in Server : sv[s].pc \in {"absent", "disabled", "enabled"}
    /\ \A b \in Bridge : br[b].pc # "registering"

\* A client and a server registered for the same service find each other
\* whichever came first and whatever ran in between, if and only if their minor
\* versions are compatible; a client is connected to no other server
\* (register_connector, both overloads, and the Service_record).
Matched ==
    /\ \A c \in Client : conn[c] # None =>
          /\ Compatible(sv[conn[c]].minor, cl[c].minor)
          /\ sv[conn[c]].pc \in {"connect_client", "enabled", "unregistered", "stopping"}
    /\ Quiet /\ rec_client # None =>
          conn[rec_client] = IF rec_server # None
                                /\ Compatible(sv[rec_server].minor, cl[rec_client].minor)
                             THEN rec_server ELSE None

\* A service that is requested has a Service_request at every bridge, registered
\* before or later: register_bridge() and get_bridge_requests(), which both
\* release the lock for the callbacks, miss nothing.
RequestAtEveryBridge ==
    Quiet => \A m \in ClientMinor : requests[m].holders # {} => callbacks \subseteq requests[m].handles

\* When the last client connector that requested a service is gone, no bridge
\* asks for it any more (runtime.hpp:141), whatever handles were made twice or
\* thrown away in between.
InterestEnds ==
    Quiet => \A m \in ClientMinor : requests[m].holders = {} =>
                \A b \in Bridge : m \notin interest[b]

\* register_service_bridge() returns, also while requests come and go: no
\* request is processed twice (requests_done).
BridgeRegistered == \A b \in Bridge : br[b].pc = "registering" ~> br[b].pc = "registered"

\* A bridge asks for every service that is requested while it is registered
\* (runtime.hpp:136-139: make_client_connector() calls request_service() on
\* every bridge and stores the Service_request objects).
RequestsReachBridges ==
    Quiet => \A m \in ClientMinor : requests[m].holders # {} =>
                \A b \in callbacks : m \in interest[b]

\* No registration handle is used after its destruction: the ids of the copy
\* whose identity is still to be read belong to registered bridges
\* (runtime_impl.cpp:295-297 assumes that the race while the lock is released
\* does no harm).
BridgeIdsValid ==
    \A c \in Client : cl[c].pc \in {"forward", "create_value"} =>
        \A b \in cl[c].todo : br[b].pc # "gone"
=============================================================================
