---------------------------- MODULE RuntimeProofs ----------------------------
(***************************************************************************)
(* The SOCom runtime for any number of connectors and bridges.             *)
(*                                                                         *)
(* Requests.  The bridge lock is released around every request_service(),  *)
(* so the invariant says who is still going to do what: a bridge that a    *)
(* requested service has no handle of yet is on the list of the client that *)
(* forwards the request, or is registering and will meet the request       *)
(* (Pending); a service a bridge asks for without need is in the hands of   *)
(* a thread that takes it back (Accounted).                                *)
(*                                                                         *)
(* Records.  A client is in the record from its registration to            *)
(* UnregisterClient; a server that is registered has connected it, or is    *)
(* about to, if the versions are compatible (Connected).                   *)
(***************************************************************************)
EXTENDS RuntimeProperties, TLAPS

-----------------------------------------------------------------------------
ClientState ==
    [pc : {"absent", "bridge", "server_update", "forward", "create_value", "live", "unregister",
           "release", "drop"},
     minor : Nat, server : Server \cup {None}, todo : SUBSET Bridge,
     asking : Bridge \cup {None}, result : SUBSET Bridge]
ServerState ==
    [pc : {"absent", "disabled", "connect_client", "enabled", "unregistered", "stopping"},
     minor : Nat, client : Client \cup {None}]
BridgeState ==
    [pc : {"new", "registering", "registered", "gone"}, todo : SUBSET ClientMinor,
     result : SUBSET ClientMinor, done : SUBSET ClientMinor]
Request ==
    [listed : BOOLEAN, holders : SUBSET Client, handles : SUBSET Bridge, record : Nat]

TypeOK ==
    /\ rec_server \in Server \cup {None} /\ rec_client \in Client \cup {None}
    /\ callbacks \subseteq Bridge
    /\ requests \in [ClientMinor -> Request]
    /\ conn \in [Client -> Server \cup {None}]
    /\ interest \in [Bridge -> SUBSET ClientMinor]
    /\ cl \in [Client -> ClientState]
    /\ sv \in [Server -> ServerState]
    /\ br \in [Bridge -> BridgeState]

-----------------------------------------------------------------------------
(* Requests at bridges.                                                     *)

Forwarding(c) == cl[c].pc \in {"forward", "create_value"}
InRecord(c) ==
    Forwarding(c) \/ cl[c].pc \in {"server_update", "bridge", "live", "unregister"}

Clients ==
    \A c \in Client :
        /\ InRecord(c) <=> rec_client = c
        /\ cl[c].pc # "absent" => cl[c].minor \in ClientMinor
        /\ ~Forwarding(c) => cl[c].result = {}
        /\ cl[c].pc = "create_value" => cl[c].asking \in Bridge

\* Who owns the map of a request.
Owners ==
    /\ \A m \in ClientMinor :
        /\ requests[m].holders # {} => requests[m].listed
        /\ requests[m].handles # {} => requests[m].holders # {}
        /\ \A c \in requests[m].holders :
            cl[c].minor = m /\ (Forwarding(c) \/ cl[c].pc \in {"live", "unregister", "release"})
    /\ \A c \in Client :
        Forwarding(c) \/ cl[c].pc = "release" => c \in requests[cl[c].minor].holders

Bridges ==
    \A b \in Bridge :
        /\ b \in callbacks <=> br[b].pc \in {"registering", "registered"}
        /\ br[b].pc # "registering" => br[b].result = {}

\* A client is going to ask bridge b for minor version m.
WillForward(c, b, m) ==
    /\ Forwarding(c) /\ cl[c].minor = m /\ requests[m].record = 1
    /\ b \in cl[c].todo \cup cl[c].result \/ (cl[c].pc = "create_value" /\ cl[c].asking = b)

\* The bridge is going to meet the request.
WillMeet(b, m) ==
    br[b].pc = "registering" /\ (m \in br[b].todo \cup br[b].result \/ m \notin br[b].done)

Pending ==
    \A m \in ClientMinor : \A b \in callbacks :
        requests[m].holders # {} =>
            b \in requests[m].handles \/ WillMeet(b, m) \/ \E c \in Client : WillForward(c, b, m)

\* Client c has a handle of bridge b that it is going to store or to destroy.
HasHandle(c, b, m) ==
    /\ cl[c].minor = m
    /\ \/ Forwarding(c) /\ b \in cl[c].result
       \/ cl[c].pc = "drop" /\ b \in cl[c].todo

Accounted ==
    \A b \in Bridge : \A m \in interest[b] :
        \/ b \in requests[m].handles
        \/ br[b].pc = "registering" /\ m \in br[b].result
        \/ \E c \in Client : HasHandle(c, b, m)

RequestInv == TypeOK /\ Clients /\ Owners /\ Bridges /\ Pending /\ Accounted

-----------------------------------------------------------------------------
(* Connections.                                                             *)

Up(s) == sv[s].pc \in {"connect_client", "enabled"}
Open(s) == Up(s) \/ sv[s].pc \in {"unregistered", "stopping"}
Match(s, c) == Compatible(sv[s].minor, cl[c].minor)

Servers ==
    \A s \in Server :
        /\ Up(s) <=> rec_server = s
        /\ sv[s].client # None =>
              /\ sv[s].pc = "connect_client" /\ InRecord(sv[s].client)
              /\ cl[sv[s].client].pc # "unregister"

Connected ==
    \A c \in Client :
        /\ cl[c].pc = "server_update" =>
              cl[c].server \in Server /\ Open(cl[c].server) /\ Match(cl[c].server, c)
        /\ conn[c] # None =>
              /\ InRecord(c) /\ cl[c].pc # "unregister"
              /\ Open(conn[c]) /\ Match(conn[c], c)
        /\ \A s \in Server :
              InRecord(c) /\ cl[c].pc \notin {"server_update", "unregister"} /\ Up(s) /\ Match(s, c) =>
                  conn[c] = s \/ sv[s].client = c

MatchInv == Servers /\ Connected

-----------------------------------------------------------------------------
(* Steps of one thread.                                                     *)

OnlyClient(c) == cl' \in [Client -> ClientState] /\ \A d \in Client \ {c} : cl'[d] = cl[d]
OnlyServer(s) == sv' \in [Server -> ServerState] /\ \A r \in Server \ {s} : sv'[r] = sv[r]
OnlyBridge(b) == br' \in [Bridge -> BridgeState] /\ \A d \in Bridge \ {b} : br'[d] = br[d]

LEMMA SetClient ==
    ASSUME TypeOK, NEW c \in Client, NEW r \in ClientState, cl' = [cl EXCEPT ![c] = r]
    PROVE  OnlyClient(c) /\ cl'[c] = r
BY DEF TypeOK, OnlyClient

LEMMA SetServer ==
    ASSUME TypeOK, NEW s \in Server, NEW r \in ServerState, sv' = [sv EXCEPT ![s] = r]
    PROVE  OnlyServer(s) /\ sv'[s] = r
BY DEF TypeOK, OnlyServer

LEMMA SetBridge ==
    ASSUME TypeOK, NEW b \in Bridge, NEW r \in BridgeState, br' = [br EXCEPT ![b] = r]
    PROVE  OnlyBridge(b) /\ br'[b] = r
BY DEF TypeOK, OnlyBridge

LEMMA MinorNat ==
    ASSUME NEW m \in ClientMinor \cup ServerMinor
    PROVE  m \in Nat
BY MinorAssumption

LEMMA MakeClientMoves ==
    ASSUME TypeOK, NEW c \in Client, NEW m \in ClientMinor, MakeClient(c, m)
    PROVE  /\ OnlyClient(c) /\ cl'[c].minor = m /\ cl'[c].server = rec_server
           /\ cl'[c].result = cl[c].result
           /\ cl[c].pc = "absent" /\ rec_client = None /\ rec_client' = c
           /\ cl'[c].pc \in {"bridge", "server_update", "live"}
           /\ cl'[c].pc = "bridge" <=> rec_server = None
           /\ cl'[c].pc = "server_update" => Compatible(sv[rec_server].minor, m)
           /\ cl'[c].pc = "live" => ~Compatible(sv[rec_server].minor, m)
           /\ UNCHANGED <<rec_server, bridgeVars, conn, sv>>
<1> DEFINE p == IF rec_server = None THEN "bridge"
                ELSE IF Compatible(sv[rec_server].minor, m) THEN "server_update" ELSE "live"
           r == [cl[c] EXCEPT !.minor = m, !.server = rec_server, !.pc = p]
<1>1. /\ p \in {"bridge", "server_update", "live"}
      /\ p = "bridge" <=> rec_server = None
      /\ p = "server_update" => Compatible(sv[rec_server].minor, m)
      /\ p = "live" => ~Compatible(sv[rec_server].minor, m)
  OBVIOUS
<1>2. cl' = [cl EXCEPT ![c] = r]
  BY Zenon DEF MakeClient, TypeOK
<1> HIDE DEF p
<1>3. /\ r \in ClientState /\ r.pc = p /\ r.minor = m /\ r.server = rec_server
      /\ r.result = cl[c].result
  BY Zenon, <1>1, MinorNat DEF TypeOK, ClientState
<1> HIDE DEF r
<1>4. OnlyClient(c) /\ cl'[c] = r
  BY Zenon, <1>2, <1>3, SetClient
<1>5. /\ cl[c].pc = "absent" /\ rec_client = None /\ rec_client' = c
      /\ UNCHANGED <<rec_server, bridgeVars, conn, sv>>
  BY DEF MakeClient
<1> QED
  BY <1>1, <1>3, <1>4, <1>5

LEMMA ServerUpdateMoves ==
    ASSUME TypeOK, NEW c \in Client, ServerUpdate(c)
    PROVE  /\ OnlyClient(c) /\ cl'[c] = [cl[c] EXCEPT !.pc = "live"]
           /\ cl[c].pc = "server_update" /\ cl'[c].pc = "live"
           /\ cl'[c].minor = cl[c].minor /\ cl'[c].result = cl[c].result
           /\ UNCHANGED <<recordVars, bridgeVars, sv>>
<1> DEFINE r == [cl[c] EXCEPT !.pc = "live"]
<1>1. r \in ClientState /\ r.pc = "live" /\ r.minor = cl[c].minor /\ r.result = cl[c].result
  BY Zenon DEF TypeOK, ClientState
<1>2. cl' = [cl EXCEPT ![c] = r]
  BY DEF ServerUpdate, TypeOK
<1> HIDE DEF r
<1>3. OnlyClient(c) /\ cl'[c] = r
  BY Zenon, <1>1, <1>2, SetClient
<1> QED
  BY Zenon, <1>1, <1>3 DEF ServerUpdate, r

LEMMA CloseClientMoves ==
    ASSUME TypeOK, NEW c \in Client, CloseClient(c)
    PROVE  /\ OnlyClient(c)
           /\ cl[c].pc = "live" /\ cl'[c].pc = "unregister"
           /\ cl'[c].minor = cl[c].minor /\ cl'[c].result = cl[c].result
           /\ UNCHANGED <<recordVars, bridgeVars>>
<1> DEFINE r == [cl[c] EXCEPT !.pc = "unregister"]
<1>1. r \in ClientState /\ r.pc = "unregister" /\ r.minor = cl[c].minor /\ r.result = cl[c].result
  BY Zenon DEF TypeOK, ClientState
<1>2. cl' = [cl EXCEPT ![c] = r]
  BY DEF CloseClient, TypeOK
<1> HIDE DEF r
<1>3. OnlyClient(c) /\ cl'[c] = r
  BY Zenon, <1>1, <1>2, SetClient
<1> QED
  BY <1>1, <1>3 DEF CloseClient

LEMMA UnregisterClientMoves ==
    ASSUME TypeOK, NEW c \in Client, UnregisterClient(c)
    PROVE  /\ OnlyClient(c)
           /\ cl[c].pc = "unregister" /\ rec_client' = None
           /\ \/ /\ \E m \in ClientMinor : c \in requests[m].holders
                 /\ cl'[c].pc = "release" /\ cl'[c].minor = cl[c].minor
                 /\ cl'[c].result = cl[c].result
              \/ /\ \A m \in ClientMinor : c \notin requests[m].holders
                 /\ cl'[c] = NoClient /\ cl'[c].pc = "absent" /\ cl'[c].result = {}
           /\ UNCHANGED <<rec_server, bridgeVars, conn, sv>>
<1>1. cl[c].pc = "unregister" /\ rec_client' = None /\ UNCHANGED <<rec_server, bridgeVars, conn, sv>>
  BY DEF UnregisterClient
<1>2. CASE \E m \in ClientMinor : c \in requests[m].holders
  <2> DEFINE r == [cl[c] EXCEPT !.pc = "release"]
  <2>1. r \in ClientState /\ r.pc = "release" /\ r.minor = cl[c].minor /\ r.result = cl[c].result
    BY Zenon DEF TypeOK, ClientState
  <2>2. cl' = [cl EXCEPT ![c] = r]
    BY <1>2 DEF UnregisterClient, TypeOK
  <2> HIDE DEF r
  <2>3. OnlyClient(c) /\ cl'[c] = r
    BY Zenon, <2>1, <2>2, SetClient
  <2> QED
    BY <1>1, <1>2, <2>1, <2>3
<1>3. CASE \A m \in ClientMinor : c \notin requests[m].holders
  <2>1. NoClient \in ClientState /\ NoClient.pc = "absent" /\ NoClient.result = {}
    BY DEF NoClient, ClientState
  <2>2. cl' = [cl EXCEPT ![c] = NoClient]
    BY <1>3 DEF UnregisterClient, TypeOK
  <2>3. OnlyClient(c) /\ cl'[c] = NoClient
    BY Zenon, <2>1, <2>2, SetClient
  <2> QED
    BY <1>1, <1>3, <2>1, <2>3
<1> QED
  BY <1>2, <1>3

LEMMA MakeServerMoves ==
    ASSUME TypeOK, NEW s \in Server, NEW m \in ServerMinor, MakeServer(s, m)
    PROVE  /\ OnlyServer(s) /\ sv[s].pc = "absent" /\ sv'[s].pc = "disabled" /\ sv'[s].minor = m
           /\ sv'[s].client = sv[s].client
           /\ UNCHANGED <<rec_server, rec_client, bridgeVars, conn, cl>>
<1> DEFINE r == [sv[s] EXCEPT !.pc = "disabled", !.minor = m]
<1>1. r \in ServerState /\ r.pc = "disabled" /\ r.minor = m /\ r.client = sv[s].client
  BY Zenon, MinorNat DEF TypeOK, ServerState
<1>2. sv' = [sv EXCEPT ![s] = r]
  BY Zenon DEF MakeServer, TypeOK
<1> HIDE DEF r
<1>3. OnlyServer(s) /\ sv'[s] = r
  BY Zenon, <1>1, <1>2, SetServer
<1> QED
  BY <1>1, <1>3 DEF MakeServer

LEMMA RegisterServerMoves ==
    ASSUME TypeOK, NEW s \in Server, RegisterServer(s)
    PROVE  /\ OnlyServer(s) /\ sv[s].pc = "disabled" /\ rec_server' = s
           /\ sv'[s].minor = sv[s].minor
           /\ sv'[s].pc \in {"enabled", "connect_client"}
           /\ sv'[s].pc = "enabled" <=> rec_client = None
           /\ rec_client \in Client /\ cl[rec_client].pc # "unregister" => sv'[s].client = rec_client
           /\ sv'[s].client # None =>
                sv'[s].client = rec_client /\ rec_client \in Client /\ cl[rec_client].pc # "unregister"
           /\ UNCHANGED <<rec_client, bridgeVars, conn, cl>>
<1> DEFINE p == IF rec_client = None THEN "enabled" ELSE "connect_client"
           c == IF rec_client \in {d \in Client : cl[d].pc = "unregister"} THEN None ELSE rec_client
           r == [sv[s] EXCEPT !.pc = p, !.client = c]
<1>1. p \in {"enabled", "connect_client"} /\ (p = "enabled" <=> rec_client = None)
  OBVIOUS
<1>2. /\ c \in Client \cup {None}
      /\ rec_client \in Client /\ cl[rec_client].pc # "unregister" => c = rec_client
      /\ c # None => c = rec_client /\ rec_client \in Client /\ cl[rec_client].pc # "unregister"
  BY DEF TypeOK
<1>3. sv' = [sv EXCEPT ![s] = r]
  BY Zenon DEF RegisterServer, TypeOK
<1> HIDE DEF p, c
<1>4. r \in ServerState /\ r.pc = p /\ r.minor = sv[s].minor /\ r.client = c
  BY Zenon, <1>1, <1>2 DEF TypeOK, ServerState
<1> HIDE DEF r
<1>5. OnlyServer(s) /\ sv'[s] = r
  BY Zenon, <1>3, <1>4, SetServer
<1>6. sv[s].pc = "disabled" /\ rec_server' = s /\ UNCHANGED <<rec_client, bridgeVars, conn, cl>>
  BY DEF RegisterServer
<1> QED
  BY <1>1, <1>2, <1>4, <1>5, <1>6

LEMMA ConnectClientMoves ==
    ASSUME TypeOK, NEW s \in Server, ConnectClient(s)
    PROVE  /\ OnlyServer(s) /\ sv[s].pc = "connect_client" /\ sv'[s].pc = "enabled"
           /\ sv'[s].minor = sv[s].minor /\ sv'[s].client = None
           /\ conn' \in [Client -> Server \cup {None}]
           /\ \A d \in Client : conn'[d] = IF d = sv[s].client /\ Match(s, d) THEN s ELSE conn[d]
           /\ UNCHANGED <<recordVars, bridgeVars, cl>>
<1> DEFINE r == [sv[s] EXCEPT !.pc = "enabled", !.client = None]
<1>1. r \in ServerState /\ r.pc = "enabled" /\ r.minor = sv[s].minor /\ r.client = None
  BY Zenon DEF TypeOK, ServerState
<1>2. sv' = [sv EXCEPT ![s] = r]
  BY Zenon DEF ConnectClient, TypeOK
<1> HIDE DEF r
<1>3. OnlyServer(s) /\ sv'[s] = r
  BY Zenon, <1>1, <1>2, SetServer
<1>4. conn' = [d \in Client |-> IF d = sv[s].client /\ Match(s, sv[s].client) THEN s ELSE conn[d]]
  BY DEF ConnectClient, Match
<1>5. /\ conn' \in [Client -> Server \cup {None}]
      /\ \A d \in Client : conn'[d] = IF d = sv[s].client /\ Match(s, d) THEN s ELSE conn[d]
  BY <1>4 DEF TypeOK
<1> QED
  BY <1>1, <1>3, <1>5 DEF ConnectClient

\* disable() and the destructor.
LEMMA StopServerMoves ==
    ASSUME TypeOK, NEW s \in Server,
           UnregisterServer(s) \/ ResetTokens(s) \/ StopClients(s)
    PROVE  /\ OnlyServer(s) /\ sv'[s].minor = sv[s].minor /\ sv'[s].client = sv[s].client
           /\ sv[s].pc \in {"enabled", "unregistered", "stopping"}
           /\ sv'[s].pc = CASE sv[s].pc = "enabled" -> "unregistered"
                            [] sv[s].pc = "unregistered" -> "stopping"
                            [] OTHER -> "disabled"
           /\ UNCHANGED <<rec_client, bridgeVars, cl>>
<1> DEFINE p == CASE sv[s].pc = "enabled" -> "unregistered"
                  [] sv[s].pc = "unregistered" -> "stopping"
                  [] OTHER -> "disabled"
           r == [sv[s] EXCEPT !.pc = p]
<1>1. /\ sv[s].pc \in {"enabled", "unregistered", "stopping"}
      /\ p \in {"unregistered", "stopping", "disabled"}
  BY DEF UnregisterServer, ResetTokens, StopClients
<1>2. sv' = [sv EXCEPT ![s] = r]
  BY DEF UnregisterServer, ResetTokens, StopClients, TypeOK
<1> HIDE DEF p
<1>3. r \in ServerState /\ r.pc = p /\ r.minor = sv[s].minor /\ r.client = sv[s].client
  BY <1>1 DEF TypeOK, ServerState
<1> HIDE DEF r
<1>4. OnlyServer(s) /\ sv'[s] = r
  BY Zenon, <1>2, <1>3, SetServer
<1> QED
  BY <1>1, <1>3, <1>4 DEF UnregisterServer, ResetTokens, StopClients, recordVars, p

LEMMA DestroyServerMoves ==
    ASSUME TypeOK, NEW s \in Server, DestroyServer(s)
    PROVE  /\ OnlyServer(s) /\ sv[s].pc = "disabled" /\ sv'[s].pc = "absent"
           /\ sv'[s].client = None
           /\ UNCHANGED <<rec_server, rec_client, bridgeVars, conn, cl>>
<1>1. NoServer \in ServerState /\ NoServer.pc = "absent" /\ NoServer.client = None
  BY DEF NoServer, ServerState
<1>2. OnlyServer(s) /\ sv'[s] = NoServer
  BY Zenon, <1>1, SetServer DEF DestroyServer
<1> QED
  BY <1>1, <1>2 DEF DestroyServer

ServerStep(s) == BeginServer(s) \/ ContinueServer(s)

\* What servers do leaves the requests as they are.
LEMMA ServerTypes ==
    ASSUME TypeOK, NEW s \in Server, ServerStep(s)
    PROVE  TypeOK' /\ UNCHANGED <<rec_client, bridgeVars, cl>>
<1>1. sv' \in [Server -> ServerState] /\ UNCHANGED <<rec_client, bridgeVars, cl>>
  BY MakeServerMoves, RegisterServerMoves, ConnectClientMoves, StopServerMoves, DestroyServerMoves
  DEF ServerStep, BeginServer, ContinueServer, OnlyServer, recordVars
<1>2. rec_server' \in Server \cup {None}
  BY DEF ServerStep, BeginServer, ContinueServer, MakeServer, RegisterServer, ConnectClient,
         UnregisterServer, ResetTokens, StopClients, DestroyServer, recordVars, TypeOK
<1>3. conn' \in [Client -> Server \cup {None}]
  <2>1. ASSUME ConnectClient(s) PROVE conn' \in [Client -> Server \cup {None}]
    BY <2>1, ConnectClientMoves
  <2>2. ASSUME StopClients(s) PROVE conn' \in [Client -> Server \cup {None}]
    BY <2>2 DEF StopClients, TypeOK
  <2>3. ASSUME ~ConnectClient(s), ~StopClients(s) PROVE conn' = conn
    BY <2>3 DEF ServerStep, BeginServer, ContinueServer, MakeServer, RegisterServer,
                UnregisterServer, ResetTokens, DestroyServer
  <2> QED
    BY <2>1, <2>2, <2>3 DEF TypeOK
<1> QED
  BY <1>1, <1>2, <1>3 DEF TypeOK, bridgeVars

LEMMA ServerStepKeepsRequests ==
    ASSUME RequestInv, NEW s \in Server, ServerStep(s)
    PROVE  RequestInv'
<1>1. TypeOK' /\ UNCHANGED <<rec_client, bridgeVars, cl>>
  BY ServerTypes DEF RequestInv
<1> QED
  BY <1>1 DEF RequestInv, Clients, Owners, Bridges, Pending, Accounted, WillForward, WillMeet,
              HasHandle, Forwarding, InRecord, bridgeVars


-----------------------------------------------------------------------------
(* Requests: the clients.                                                   *)

LEMMA Same ==
    ASSUME NEW c \in Client, cl'[c] = cl[c]
    PROVE  /\ Forwarding(c)' <=> Forwarding(c)
           /\ InRecord(c)' <=> InRecord(c)
BY DEF Forwarding, InRecord

\* Steps of a client that has nothing to do with bridges.
LEMMA AwayFromBridges ==
    ASSUME RequestInv, NEW c \in Client, OnlyClient(c), UNCHANGED bridgeVars,
           InRecord(c)' <=> rec_client' = c,
           \A d \in Client \ {c} : rec_client' = d <=> rec_client = d,
           rec_server' \in Server \cup {None}, rec_client' \in Client \cup {None},
           conn' \in [Client -> Server \cup {None}], sv' \in [Server -> ServerState],
           cl[c].pc # "drop", cl'[c].pc # "drop", ~Forwarding(c), ~Forwarding(c)',
           cl'[c].result = {}, cl'[c].pc # "absent" => cl'[c].minor \in ClientMinor,
           \A m \in ClientMinor : c \in requests[m].holders =>
              cl'[c].minor = m /\ cl'[c].pc \in {"live", "unregister", "release"},
           cl'[c].pc = "release" => c \in requests[cl'[c].minor].holders
    PROVE  RequestInv'
<1> USE DEF RequestInv, bridgeVars
<1>1. \A d \in Client \ {c} : /\ cl'[d] = cl[d]
                              /\ Forwarding(d)' <=> Forwarding(d)
                              /\ InRecord(d)' <=> InRecord(d)
  BY Same DEF OnlyClient
<1>2. TypeOK'
  BY DEF TypeOK, OnlyClient
<1>3. Clients'
  BY <1>1 DEF Clients, Forwarding
<1>4. Owners'
  <2>1. \A m \in ClientMinor : requests[m].holders \subseteq Client
    BY DEF TypeOK, Request
  <2>2. \A m \in ClientMinor : \A d \in requests[m].holders :
            cl'[d].minor = m /\ (Forwarding(d)' \/ cl'[d].pc \in {"live", "unregister", "release"})
    BY <1>1, <2>1 DEF Owners
  <2>3. \A d \in Client :
            Forwarding(d)' \/ cl'[d].pc = "release" => d \in requests[cl'[d].minor].holders
    BY <1>1 DEF Owners
  <2> QED
    BY <2>2, <2>3 DEF Owners
<1>5. Bridges'
  BY DEF Bridges
<1>6. Pending'
  <2>1. \A b \in Bridge, m \in ClientMinor : WillMeet(b, m)' <=> WillMeet(b, m)
    BY DEF WillMeet
  <2>2. \A b \in Bridge, m \in ClientMinor, d \in Client :
            WillForward(d, b, m) => WillForward(d, b, m)'
    BY <1>1 DEF WillForward
  <2> QED
    BY Zenon, <2>1, <2>2 DEF Pending, TypeOK
<1>7. Accounted'
  <2>1. \A b \in Bridge, m \in ClientMinor, d \in Client : HasHandle(d, b, m) => HasHandle(d, b, m)'
    BY <1>1 DEF HasHandle
  <2> QED
    BY <2>1 DEF Accounted, TypeOK
<1> QED
  BY <1>2, <1>3, <1>4, <1>5, <1>6, <1>7

LEMMA MakeClientKeepsRequests ==
    ASSUME RequestInv, NEW c \in Client, NEW m \in ClientMinor, MakeClient(c, m)
    PROVE  RequestInv'
<1>1. /\ OnlyClient(c) /\ cl'[c].minor = m /\ cl'[c].result = cl[c].result
      /\ cl[c].pc = "absent" /\ rec_client = None /\ rec_client' = c
      /\ cl'[c].pc \in {"bridge", "server_update", "live"}
      /\ UNCHANGED <<rec_server, bridgeVars, conn, sv>>
  BY Zenon, MakeClientMoves DEF RequestInv
<1>2. ~Forwarding(c) /\ ~Forwarding(c)' /\ InRecord(c)' /\ c # None
  BY <1>1, NameAssumption DEF Forwarding, InRecord
<1>3. \A k \in ClientMinor : c \notin requests[k].holders
  BY <1>1, <1>2 DEF RequestInv, Owners
<1>4. cl'[c].result = {}
  BY <1>1, <1>2 DEF RequestInv, Clients
<1>5. \A d \in Client \ {c} : rec_client' # d /\ rec_client # d
  BY <1>1, NameAssumption
<1> QED
  BY Zenon, <1>1, <1>2, <1>3, <1>4, <1>5, AwayFromBridges DEF RequestInv, TypeOK

LEMMA ServerUpdateKeepsRequests ==
    ASSUME RequestInv, NEW c \in Client, ServerUpdate(c)
    PROVE  RequestInv'
<1>1. /\ OnlyClient(c) /\ cl[c].pc = "server_update" /\ cl'[c].pc = "live"
      /\ cl'[c].minor = cl[c].minor /\ cl'[c].result = cl[c].result
      /\ UNCHANGED <<rec_server, rec_client, bridgeVars, sv>>
  BY Zenon, ServerUpdateMoves DEF RequestInv, recordVars
<1>2. ~Forwarding(c) /\ ~Forwarding(c)' /\ InRecord(c) /\ InRecord(c)'
  BY <1>1 DEF Forwarding, InRecord
<1>3. \A k \in ClientMinor : c \notin requests[k].holders
  BY Zenon, <1>1, <1>2 DEF RequestInv, Owners
<1>4. cl'[c].result = {} /\ cl[c].minor \in ClientMinor /\ rec_client = c
  BY <1>1, <1>2 DEF RequestInv, Clients
<1>5. conn' \in [Client -> Server \cup {None}]
  BY DEF RequestInv, TypeOK, ClientState, ServerUpdate
<1> QED
  BY Zenon, <1>1, <1>2, <1>3, <1>4, <1>5, AwayFromBridges DEF RequestInv, TypeOK

LEMMA CloseClientKeepsRequests ==
    ASSUME RequestInv, NEW c \in Client, CloseClient(c)
    PROVE  RequestInv'
<1>1. /\ OnlyClient(c) /\ cl[c].pc = "live" /\ cl'[c].pc = "unregister"
      /\ cl'[c].minor = cl[c].minor /\ cl'[c].result = cl[c].result
      /\ UNCHANGED <<rec_server, rec_client, bridgeVars>>
  BY Zenon, CloseClientMoves DEF RequestInv, recordVars
<1>2. ~Forwarding(c) /\ ~Forwarding(c)' /\ InRecord(c) /\ InRecord(c)'
  BY <1>1 DEF Forwarding, InRecord
<1>3. \A k \in ClientMinor : c \in requests[k].holders => cl[c].minor = k
  BY DEF RequestInv, Owners
<1>4. cl'[c].result = {} /\ cl[c].minor \in ClientMinor /\ rec_client = c
  BY <1>1, <1>2 DEF RequestInv, Clients
<1>5. conn' \in [Client -> Server \cup {None}]
  BY DEF RequestInv, TypeOK, CloseClient
<1>6. sv' \in [Server -> ServerState]
  <2>1. \A s \in Server : sv[s] \in ServerState /\ [sv[s] EXCEPT !.client = None] \in ServerState
    BY DEF RequestInv, TypeOK, ServerState
  <2> QED
    BY <2>1 DEF CloseClient
<1> QED
  BY Zenon, <1>1, <1>2, <1>3, <1>4, <1>5, <1>6, AwayFromBridges DEF RequestInv, TypeOK

LEMMA UnregisterClientKeepsRequests ==
    ASSUME RequestInv, NEW c \in Client, UnregisterClient(c)
    PROVE  RequestInv'
<1>1. /\ OnlyClient(c) /\ cl[c].pc = "unregister" /\ rec_client' = None
      /\ \/ /\ \E m \in ClientMinor : c \in requests[m].holders
            /\ cl'[c].pc = "release" /\ cl'[c].minor = cl[c].minor
            /\ cl'[c].result = cl[c].result
         \/ /\ \A m \in ClientMinor : c \notin requests[m].holders
            /\ cl'[c].pc = "absent" /\ cl'[c].result = {}
      /\ UNCHANGED <<rec_server, bridgeVars, conn, sv>>
  BY UnregisterClientMoves DEF RequestInv
<1>2. ~Forwarding(c) /\ ~Forwarding(c)' /\ InRecord(c) /\ ~InRecord(c)' /\ c # None
  BY <1>1, NameAssumption DEF Forwarding, InRecord
<1>3. \A k \in ClientMinor : c \in requests[k].holders => cl[c].minor = k
  BY DEF RequestInv, Owners
<1>4. cl[c].result = {} /\ cl[c].minor \in ClientMinor /\ rec_client = c
  BY <1>1, <1>2 DEF RequestInv, Clients
<1>5. \A d \in Client \ {c} : rec_client' # d /\ rec_client # d
  BY <1>1, <1>4, NameAssumption
<1> QED
  BY Zenon, <1>1, <1>2, <1>3, <1>4, <1>5, AwayFromBridges DEF RequestInv, TypeOK


-----------------------------------------------------------------------------
(* Requests: the clients that are passed on to bridges.                     *)

\* What the steps have in common.
LEMMA BridgeStepFrame ==
    ASSUME RequestInv, NEW c \in Client, OnlyClient(c),
           UNCHANGED <<recordVars, callbacks, br, conn, sv>>,
           requests' \in [ClientMinor -> Request], interest' \in [Bridge -> SUBSET ClientMinor],
           InRecord(c)' <=> InRecord(c),
           cl'[c].pc # "absent" => cl'[c].minor \in ClientMinor,
           ~Forwarding(c)' => cl'[c].result = {},
           cl'[c].pc = "create_value" => cl'[c].asking \in Bridge
    PROVE  /\ TypeOK' /\ Clients' /\ Bridges'
           /\ \A d \in Client \ {c} : cl'[d] = cl[d] /\ (Forwarding(d)' <=> Forwarding(d))
           /\ \A b \in Bridge, m \in ClientMinor : WillMeet(b, m)' <=> WillMeet(b, m)
           /\ \A b \in Bridge, m \in ClientMinor : \A d \in Client \ {c} :
                /\ requests'[m].record = requests[m].record =>
                        (WillForward(d, b, m) => WillForward(d, b, m)')
                /\ HasHandle(d, b, m) => HasHandle(d, b, m)'
<1>1. \A d \in Client \ {c} : /\ cl'[d] = cl[d]
                              /\ Forwarding(d)' <=> Forwarding(d)
                              /\ InRecord(d)' <=> InRecord(d)
  BY Zenon, Same DEF OnlyClient
<1>2. TypeOK'
  BY Zenon DEF RequestInv, TypeOK, OnlyClient, recordVars
<1>3. Clients'
  BY <1>1 DEF RequestInv, Clients, recordVars
<1>4. Bridges'
  BY DEF RequestInv, Bridges
<1>5. \A b \in Bridge, m \in ClientMinor : WillMeet(b, m)' <=> WillMeet(b, m)
  BY DEF WillMeet
<1>6. \A b \in Bridge, m \in ClientMinor : \A d \in Client \ {c} :
        /\ requests'[m].record = requests[m].record =>
                (WillForward(d, b, m) => WillForward(d, b, m)')
        /\ HasHandle(d, b, m) => HasHandle(d, b, m)'
  BY <1>1 DEF WillForward, HasHandle
<1> QED
  BY Zenon, <1>1, <1>2, <1>3, <1>4, <1>5, <1>6

LEMMA GetBridgeRequestsKeeps ==
    ASSUME RequestInv, NEW c \in Client, GetBridgeRequests(c)
    PROVE  RequestInv'
<1> DEFINE m == cl[c].minor
           entry == IF requests[m].holders = {} THEN [NoRequest EXCEPT !.listed = TRUE]
                    ELSE requests[m]
           size == IF entry.record < RecordCap THEN entry.record + 1 ELSE RecordCap
           e == [entry EXCEPT !.holders = @ \cup {c}, !.record = size]
           r == [cl[c] EXCEPT !.pc = "forward", !.todo = callbacks]
<1>1. /\ cl[c].pc = "bridge" /\ ~Forwarding(c) /\ InRecord(c) /\ m \in ClientMinor
      /\ cl[c].result = {} /\ rec_client = c /\ cl[c] \in ClientState /\ requests[m] \in Request
  BY Zenon DEF GetBridgeRequests, Forwarding, InRecord, RequestInv, Clients, TypeOK
<1>2. /\ entry \in Request /\ entry.listed
      /\ entry.holders = requests[m].holders /\ entry.handles = requests[m].handles
      /\ requests[m].holders = {} => entry.record = 0
  BY Zenon, <1>1 DEF NoRequest, Request, RequestInv, Owners
<1>3. requests' = [requests EXCEPT ![m] = e] /\ cl' = [cl EXCEPT ![c] = r]
  BY Zenon DEF GetBridgeRequests, RequestInv, TypeOK
<1> HIDE DEF entry
<1>4. size \in Nat /\ (requests[m].holders = {} => size = 1)
  BY <1>2 DEF RecordCap, Request
<1> HIDE DEF size
<1>5. /\ e \in Request /\ e.listed /\ e.holders = requests[m].holders \cup {c}
      /\ e.handles = requests[m].handles
      /\ requests[m].holders = {} => e.record = 1
  BY Zenon, <1>2, <1>4 DEF Request
<1>6. /\ r \in ClientState /\ r.pc = "forward" /\ r.minor = m /\ r.todo = callbacks
      /\ r.result = {}
  BY Zenon, <1>1 DEF ClientState, RequestInv, TypeOK
<1> HIDE DEF e, r
<1>7. OnlyClient(c) /\ cl'[c] = r
  BY Zenon, <1>3, <1>6, SetClient DEF RequestInv
<1>8. /\ requests' \in [ClientMinor -> Request]
      /\ \A k \in ClientMinor : requests'[k] = IF k = m THEN e ELSE requests[k]
  BY Zenon, <1>1, <1>3, <1>5 DEF RequestInv, TypeOK
<1>9. Forwarding(c)' /\ InRecord(c)'
  BY <1>6, <1>7 DEF Forwarding, InRecord
<1>10. UNCHANGED <<recordVars, callbacks, br, conn, sv, interest>>
  BY DEF GetBridgeRequests
<1>11. /\ TypeOK' /\ Clients' /\ Bridges'
       /\ \A d \in Client \ {c} : cl'[d] = cl[d] /\ (Forwarding(d)' <=> Forwarding(d))
       /\ \A b \in Bridge, k \in ClientMinor : WillMeet(b, k)' <=> WillMeet(b, k)
       /\ \A b \in Bridge, k \in ClientMinor : \A d \in Client \ {c} :
            /\ requests'[k].record = requests[k].record =>
                    (WillForward(d, b, k) => WillForward(d, b, k)')
            /\ HasHandle(d, b, k) => HasHandle(d, b, k)'
  BY Zenon, <1>1, <1>6, <1>7, <1>8, <1>9, <1>10, BridgeStepFrame DEF RequestInv, TypeOK
<1>12. Owners'
  <2>1. \A k \in ClientMinor : requests[k].holders \subseteq Client
    BY DEF RequestInv, TypeOK, Request
  <2>2. \A k \in ClientMinor :
            /\ requests'[k].holders # {} => requests'[k].listed
            /\ requests'[k].handles # {} => requests'[k].holders # {}
    <3>1. \A k \in ClientMinor : /\ requests[k].holders # {} => requests[k].listed
                                 /\ requests[k].handles # {} => requests[k].holders # {}
      BY Zenon DEF RequestInv, Owners
    <3>2. requests'[m] = e /\ \A k \in ClientMinor \ {m} : requests'[k] = requests[k]
      BY Zenon, <1>1, <1>8
    <3>3. e.listed /\ e.holders # {}
      BY Zenon, <1>5
    <3> QED
      BY Zenon, <3>1, <3>2, <3>3
  <2>3. \A k \in ClientMinor : \A d \in requests'[k].holders :
            cl'[d].minor = k /\ (Forwarding(d)' \/ cl'[d].pc \in {"live", "unregister", "release"})
    <3>1. \A k \in ClientMinor : \A d \in requests[k].holders :
            cl[d].minor = k /\ (Forwarding(d) \/ cl[d].pc \in {"live", "unregister", "release"})
      BY Zenon DEF RequestInv, Owners
    <3>2. ASSUME NEW k \in ClientMinor, NEW d \in requests'[k].holders
          PROVE  (d = c /\ k = m) \/ d \in requests[k].holders
      BY Zenon, <1>5, <1>8
    <3> QED
      BY <1>1, <1>6, <1>7, <1>9, <1>11, <2>1, <3>1, <3>2
  <2>4. \A d \in Client :
            Forwarding(d)' \/ cl'[d].pc = "release" => d \in requests'[cl'[d].minor].holders
    <3>1. c \in requests'[cl'[c].minor].holders
      BY Zenon, <1>1, <1>5, <1>6, <1>7, <1>8
    <3>2. ASSUME NEW d \in Client \ {c}, Forwarding(d)' \/ cl'[d].pc = "release"
          PROVE  d \in requests'[cl'[d].minor].holders
      <4>1. d \in requests[cl[d].minor].holders /\ cl'[d] = cl[d] /\ cl[d].pc # "absent"
        BY Zenon, <1>11, <3>2 DEF RequestInv, Owners, Forwarding
      <4>2. cl[d].minor \in ClientMinor
        BY <4>1 DEF RequestInv, Clients
      <4> QED
        BY <1>5, <1>8, <4>1, <4>2
    <3> QED
      BY Zenon, <3>1, <3>2
  <2> QED
    BY Zenon, <2>2, <2>3, <2>4 DEF Owners
<1>13. Pending'
  <2> SUFFICES ASSUME NEW k \in ClientMinor, NEW b \in callbacks, requests'[k].holders # {}
               PROVE  \/ b \in requests'[k].handles \/ WillMeet(b, k)'
                      \/ \E d \in Client : WillForward(d, b, k)'
    BY <1>10 DEF Pending
  <2>1. b \in Bridge
    BY DEF RequestInv, TypeOK
  <2>2. CASE k # m \/ requests[m].holders # {}
    <3>1. requests[k].holders # {} /\ requests'[k].handles = requests[k].handles
      BY Zenon, <1>5, <1>8, <2>2
    <3>2. \/ b \in requests[k].handles \/ WillMeet(b, k)
          \/ \E d \in Client : WillForward(d, b, k)
      BY Zenon, <3>1 DEF RequestInv, Pending
    <3>3. ASSUME NEW d \in Client, WillForward(d, b, k) PROVE FALSE
      <4>1. InRecord(d) /\ d # c
        BY Zenon, <1>1, <3>3 DEF WillForward, InRecord
      <4> QED
        BY <1>1, <4>1 DEF RequestInv, Clients
    <3> QED
      BY Zenon, <1>11, <2>1, <3>1, <3>2, <3>3
  <2>3. CASE k = m /\ requests[m].holders = {}
    <3>1. WillForward(c, b, k)'
      BY Zenon, <1>5, <1>6, <1>7, <1>8, <1>9, <2>3 DEF WillForward
    <3> QED
      BY <3>1
  <2> QED
    BY <2>2, <2>3
<1>14. Accounted'
  <2>1. \A b \in Bridge, k \in ClientMinor : ~HasHandle(c, b, k)
    BY <1>1 DEF HasHandle
  <2>2. \A k \in ClientMinor : requests'[k].handles = requests[k].handles
    BY <1>5, <1>8
  <2>3. Accounted /\ interest \in [Bridge -> SUBSET ClientMinor]
    BY Zenon DEF RequestInv, TypeOK
  <2> QED
    BY Zenon, <1>10, <1>11, <2>1, <2>2, <2>3 DEF Accounted
<1> QED
  BY <1>11, <1>12, <1>13, <1>14 DEF RequestInv


\* The owners of the maps stay; their numbers of bridges may change.
LEMMA OwnersKeep ==
    ASSUME RequestInv, NEW c \in Client,
           \A d \in Client \ {c} : cl'[d] = cl[d] /\ (Forwarding(d)' <=> Forwarding(d)),
           cl'[c].minor = cl[c].minor,
           Forwarding(c)' \/ cl'[c].pc \in {"live", "unregister", "release"},
           Forwarding(c)' \/ cl'[c].pc = "release" => c \in requests[cl[c].minor].holders,
           \A m \in ClientMinor :
              /\ requests'[m].holders = requests[m].holders
              /\ requests'[m].listed = requests[m].listed
              /\ requests'[m].handles # {} => requests[m].holders # {},
           \A d \in Client : cl'[d].pc # "absent" => cl'[d].minor \in ClientMinor
    PROVE  Owners'
<1>1. \A k \in ClientMinor : requests[k].holders \subseteq Client
  BY DEF RequestInv, TypeOK, Request
<1>2. \A k \in ClientMinor :
          /\ requests'[k].holders # {} => requests'[k].listed
          /\ requests'[k].handles # {} => requests'[k].holders # {}
  BY DEF RequestInv, Owners
<1>3. \A k \in ClientMinor : \A d \in requests'[k].holders :
          cl'[d].minor = k /\ (Forwarding(d)' \/ cl'[d].pc \in {"live", "unregister", "release"})
  BY <1>1 DEF RequestInv, Owners
<1>4. ASSUME NEW d \in Client, Forwarding(d)' \/ cl'[d].pc = "release"
      PROVE  d \in requests'[cl'[d].minor].holders
  <2>1. cl'[d].minor \in ClientMinor
    BY <1>4 DEF Forwarding
  <2>2. d \in requests[cl'[d].minor].holders
    BY <1>4 DEF RequestInv, Owners
  <2> QED
    BY <2>1, <2>2
<1> QED
  BY <1>2, <1>3, <1>4 DEF Owners

LEMMA ForwardNextKeeps ==
    ASSUME RequestInv, NEW c \in Client, ForwardNext(c)
    PROVE  RequestInv'
<1> DEFINE m == cl[c].minor
<1>1. /\ cl[c].pc = "forward" /\ Forwarding(c) /\ InRecord(c) /\ m \in ClientMinor
      /\ cl[c] \in ClientState /\ c \in requests[m].holders
  BY Zenon DEF ForwardNext, Forwarding, InRecord, RequestInv, Clients, Owners, TypeOK
<1>2. PICK b \in cl[c].todo :
        cl' = IF IsForwardSubscription(requests[m].record)
              THEN [cl EXCEPT ![c].pc = "create_value", ![c].todo = @ \ {b}, ![c].asking = b]
              ELSE [cl EXCEPT ![c].todo = @ \ {b}]
  BY Zenon DEF ForwardNext
<1>3. b \in Bridge
  BY <1>1 DEF ClientState
<1> DEFINE r == IF requests[m].record = 1
                THEN [cl[c] EXCEPT !.pc = "create_value", !.todo = @ \ {b}, !.asking = b]
                ELSE [cl[c] EXCEPT !.todo = @ \ {b}]
<1>4. cl' = [cl EXCEPT ![c] = r]
  BY Zenon, <1>2 DEF IsForwardSubscription, RequestInv, TypeOK
<1>5. /\ r \in ClientState /\ r.minor = m /\ r.todo = cl[c].todo \ {b} /\ r.result = cl[c].result
      /\ r.pc \in {"forward", "create_value"}
      /\ requests[m].record = 1 => r.pc = "create_value"
      /\ r.pc = "create_value" => r.asking = b
  BY Zenon, <1>1, <1>3 DEF ClientState
<1> HIDE DEF r
<1>6. OnlyClient(c) /\ cl'[c] = r
  BY Zenon, <1>4, <1>5, SetClient DEF RequestInv
<1>7. Forwarding(c)' /\ InRecord(c)'
  BY <1>5, <1>6 DEF Forwarding, InRecord
<1>8. UNCHANGED <<recordVars, callbacks, br, conn, sv, interest, requests>>
  BY DEF ForwardNext, bridgeVars
<1>9. /\ TypeOK' /\ Clients' /\ Bridges'
      /\ \A d \in Client \ {c} : cl'[d] = cl[d] /\ (Forwarding(d)' <=> Forwarding(d))
      /\ \A a \in Bridge, k \in ClientMinor : WillMeet(a, k)' <=> WillMeet(a, k)
      /\ \A a \in Bridge, k \in ClientMinor : \A d \in Client \ {c} :
            /\ requests'[k].record = requests[k].record =>
                    (WillForward(d, a, k) => WillForward(d, a, k)')
            /\ HasHandle(d, a, k) => HasHandle(d, a, k)'
  BY Zenon, <1>1, <1>3, <1>5, <1>6, <1>7, <1>8, BridgeStepFrame DEF RequestInv, TypeOK
<1>10. Owners'
  <2>1. /\ \A d \in Client : cl'[d].pc # "absent" => cl'[d].minor \in ClientMinor
        /\ \A k \in ClientMinor : requests[k].handles # {} => requests[k].holders # {}
    BY Zenon, <1>9 DEF RequestInv, Owners, Clients
  <2> QED
    BY Zenon, <1>1, <1>5, <1>6, <1>7, <1>8, <1>9, <2>1, OwnersKeep
<1>11. \A a \in Bridge, k \in ClientMinor : /\ WillForward(c, a, k) => WillForward(c, a, k)'
                                            /\ HasHandle(c, a, k) => HasHandle(c, a, k)'
  BY Zenon, <1>1, <1>5, <1>6, <1>7, <1>8 DEF WillForward, HasHandle
<1>12. Pending'
  <2>1. \A a \in Bridge, k \in ClientMinor, d \in Client :
            WillForward(d, a, k) => WillForward(d, a, k)'
    BY Zenon, <1>8, <1>9, <1>11
  <2> QED
    BY Zenon, <1>8, <1>9, <2>1 DEF RequestInv, TypeOK, Pending
<1>13. Accounted'
  <2>1. \A a \in Bridge, k \in ClientMinor, d \in Client : HasHandle(d, a, k) => HasHandle(d, a, k)'
    BY Zenon, <1>9, <1>11
  <2> QED
    BY Zenon, <1>8, <2>1 DEF RequestInv, TypeOK, Accounted
<1> QED
  BY Zenon, <1>9, <1>10, <1>12, <1>13 DEF RequestInv

LEMMA CreateValueKeeps ==
    ASSUME RequestInv, NEW c \in Client, CreateValue(c)
    PROVE  RequestInv'
<1> DEFINE m == cl[c].minor
           b == cl[c].asking
           r == [cl[c] EXCEPT !.pc = "forward", !.asking = None, !.result = @ \cup {b}]
<1>1. /\ cl[c].pc = "create_value" /\ Forwarding(c) /\ InRecord(c) /\ m \in ClientMinor
      /\ cl[c] \in ClientState /\ c \in requests[m].holders /\ b \in Bridge
  BY Zenon DEF CreateValue, Forwarding, InRecord, RequestInv, Clients, Owners, TypeOK
<1>2. cl' = [cl EXCEPT ![c] = r] /\ interest' = [interest EXCEPT ![b] = @ \cup {m}]
  BY Zenon DEF CreateValue, RequestInv, TypeOK
<1>3. /\ r \in ClientState /\ r.minor = m /\ r.todo = cl[c].todo /\ r.pc = "forward"
      /\ r.result = cl[c].result \cup {b}
  BY Zenon, <1>1 DEF ClientState
<1> HIDE DEF r
<1>4. OnlyClient(c) /\ cl'[c] = r
  BY Zenon, <1>2, <1>3, SetClient DEF RequestInv
<1>5. Forwarding(c)' /\ InRecord(c)'
  BY <1>3, <1>4 DEF Forwarding, InRecord
<1>6. UNCHANGED <<recordVars, callbacks, br, conn, sv, requests>>
  BY DEF CreateValue
<1>7. /\ interest' \in [Bridge -> SUBSET ClientMinor]
      /\ \A a \in Bridge : interest'[a] = IF a = b THEN interest[b] \cup {m} ELSE interest[a]
  BY Zenon, <1>1, <1>2 DEF RequestInv, TypeOK
<1>8. /\ TypeOK' /\ Clients' /\ Bridges'
      /\ \A d \in Client \ {c} : cl'[d] = cl[d] /\ (Forwarding(d)' <=> Forwarding(d))
      /\ \A a \in Bridge, k \in ClientMinor : WillMeet(a, k)' <=> WillMeet(a, k)
      /\ \A a \in Bridge, k \in ClientMinor : \A d \in Client \ {c} :
            /\ requests'[k].record = requests[k].record =>
                    (WillForward(d, a, k) => WillForward(d, a, k)')
            /\ HasHandle(d, a, k) => HasHandle(d, a, k)'
  BY Zenon, <1>1, <1>3, <1>4, <1>5, <1>6, <1>7, BridgeStepFrame DEF RequestInv, TypeOK
<1>9. Owners'
  <2>1. /\ \A d \in Client : cl'[d].pc # "absent" => cl'[d].minor \in ClientMinor
        /\ \A k \in ClientMinor : requests[k].handles # {} => requests[k].holders # {}
    BY Zenon, <1>8 DEF RequestInv, Owners, Clients
  <2> QED
    BY Zenon, <1>1, <1>3, <1>4, <1>5, <1>6, <1>8, <2>1, OwnersKeep
<1>10. \A a \in Bridge, k \in ClientMinor : /\ WillForward(c, a, k) => WillForward(c, a, k)'
                                            /\ HasHandle(c, a, k) => HasHandle(c, a, k)'
                                            /\ a = b /\ k = m => HasHandle(c, a, k)'
  <2>1. ASSUME NEW a \in Bridge, NEW k \in ClientMinor, WillForward(c, a, k)
        PROVE  WillForward(c, a, k)'
    BY Zenon, <1>1, <1>3, <1>4, <1>5, <1>6, <2>1 DEF WillForward
  <2>2. \A a \in Bridge, k \in ClientMinor : HasHandle(c, a, k) => HasHandle(c, a, k)'
    BY Zenon, <1>1, <1>3, <1>4, <1>5 DEF HasHandle
  <2>3. \A a \in Bridge, k \in ClientMinor : a = b /\ k = m => HasHandle(c, a, k)'
    BY Zenon, <1>3, <1>4, <1>5 DEF HasHandle
  <2> QED
    BY Zenon, <2>1, <2>2, <2>3
<1>11. Pending'
  <2>1. \A a \in Bridge, k \in ClientMinor, d \in Client :
            WillForward(d, a, k) => WillForward(d, a, k)'
    BY Zenon, <1>6, <1>8, <1>10
  <2> QED
    BY Zenon, <1>6, <1>8, <2>1 DEF RequestInv, TypeOK, Pending
<1>12. Accounted'
  <2>1. \A a \in Bridge, k \in ClientMinor, d \in Client : HasHandle(d, a, k) => HasHandle(d, a, k)'
    BY Zenon, <1>8, <1>10
  <2> SUFFICES ASSUME NEW a \in Bridge, NEW k \in interest'[a]
               PROVE  \/ a \in requests[k].handles
                      \/ br[a].pc = "registering" /\ k \in br[a].result
                      \/ \E d \in Client : HasHandle(d, a, k)'
    BY <1>6 DEF Accounted
  <2>2. CASE a = b /\ k = m
    BY Zenon, <1>1, <1>10, <2>2
  <2>3. CASE k \in interest[a]
    <3>1. k \in ClientMinor
      BY <2>3 DEF RequestInv, TypeOK
    <3> QED
      BY <2>1, <2>3, <3>1 DEF RequestInv, Accounted
  <2> QED
    BY <1>7, <2>2, <2>3
<1> QED
  BY Zenon, <1>8, <1>9, <1>11, <1>12 DEF RequestInv


LEMMA StoreRequestsKeeps ==
    ASSUME RequestInv, NEW c \in Client, StoreRequests(c)
    PROVE  RequestInv'
<1> DEFINE m == cl[c].minor
           e == [requests[m] EXCEPT !.handles = @ \cup cl[c].result]
           r == [cl[c] EXCEPT !.pc = "live", !.result = {}]
<1>1. /\ cl[c].pc = "forward" /\ Forwarding(c) /\ InRecord(c) /\ m \in ClientMinor
      /\ cl[c] \in ClientState /\ c \in requests[m].holders /\ cl[c].todo = {}
      /\ requests[m] \in Request
  BY DEF StoreRequests, Forwarding, InRecord, RequestInv, Clients, Owners, TypeOK
<1>2. /\ requests' = [requests EXCEPT ![m] = e] /\ cl' = [cl EXCEPT ![c] = r]
      /\ interest' = TakenBack(cl[c].result \cap requests[m].handles, m)
  BY Zenon DEF StoreRequests, RequestInv, TypeOK
<1>3. /\ e \in Request /\ e.listed = requests[m].listed /\ e.holders = requests[m].holders
      /\ e.handles = requests[m].handles \cup cl[c].result /\ e.record = requests[m].record
  BY Zenon, <1>1 DEF Request, ClientState
<1>4. r \in ClientState /\ r.minor = m /\ r.pc = "live" /\ r.result = {}
  BY Zenon, <1>1 DEF ClientState
<1> HIDE DEF e, r
<1>5. OnlyClient(c) /\ cl'[c] = r
  BY Zenon, <1>2, <1>4, SetClient DEF RequestInv
<1>6. /\ requests' \in [ClientMinor -> Request]
      /\ \A k \in ClientMinor : requests'[k] = IF k = m THEN e ELSE requests[k]
  BY Zenon, <1>1, <1>2, <1>3 DEF RequestInv, TypeOK
<1>7. InRecord(c)' /\ ~Forwarding(c)'
  BY <1>4, <1>5 DEF Forwarding, InRecord
<1>8. UNCHANGED <<recordVars, callbacks, br, conn, sv>>
  BY DEF StoreRequests
<1>9. /\ interest' \in [Bridge -> SUBSET ClientMinor]
      /\ \A a \in Bridge : interest'[a] \subseteq interest[a]
  BY Zenon, <1>2 DEF TakenBack, RequestInv, TypeOK
<1>10. /\ TypeOK' /\ Clients' /\ Bridges'
       /\ \A d \in Client \ {c} : cl'[d] = cl[d] /\ (Forwarding(d)' <=> Forwarding(d))
       /\ \A a \in Bridge, k \in ClientMinor : WillMeet(a, k)' <=> WillMeet(a, k)
       /\ \A a \in Bridge, k \in ClientMinor : \A d \in Client \ {c} :
            /\ requests'[k].record = requests[k].record =>
                    (WillForward(d, a, k) => WillForward(d, a, k)')
            /\ HasHandle(d, a, k) => HasHandle(d, a, k)'
  BY Zenon, <1>1, <1>4, <1>5, <1>6, <1>7, <1>8, <1>9, BridgeStepFrame DEF RequestInv, TypeOK
<1>11. \A k \in ClientMinor :
        /\ requests'[k].holders = requests[k].holders
        /\ requests'[k].listed = requests[k].listed
        /\ requests'[k].record = requests[k].record
        /\ requests[k].handles \subseteq requests'[k].handles
        /\ requests'[k].handles # {} => requests[k].holders # {}
  <2>1. Owners
    BY Zenon DEF RequestInv
  <2>2. requests[m].holders # {}
    BY Zenon, <1>1, <2>1 DEF Owners
  <2>3. \A k \in ClientMinor : requests[k].handles # {} => requests[k].holders # {}
    BY Zenon, <2>1 DEF Owners
  <2> QED
    BY Zenon, <1>3, <1>6, <2>2, <2>3
<1>12. Owners'
  BY Zenon, <1>1, <1>4, <1>5, <1>7, <1>10, <1>11, OwnersKeep DEF Clients
<1>13. \A a \in Bridge, k \in ClientMinor :
        WillForward(c, a, k) \/ HasHandle(c, a, k) => a \in requests'[k].handles
  BY Zenon, <1>1, <1>3, <1>6 DEF WillForward, HasHandle
<1>14. Pending'
  <2> SUFFICES ASSUME NEW k \in ClientMinor, NEW a \in callbacks, requests[k].holders # {}
               PROVE  \/ a \in requests'[k].handles \/ WillMeet(a, k)'
                      \/ \E d \in Client : WillForward(d, a, k)'
    BY Zenon, <1>8, <1>11 DEF Pending
  <2>1. a \in Bridge
    BY Zenon DEF RequestInv, TypeOK
  <2>2. a \in requests[k].handles \/ WillMeet(a, k) \/ \E d \in Client : WillForward(d, a, k)
    BY Zenon DEF RequestInv, Pending
  <2> QED
    BY Zenon, <1>10, <1>11, <1>13, <2>1, <2>2
<1>15. Accounted'
  <2> SUFFICES ASSUME NEW a \in Bridge, NEW k \in interest'[a]
               PROVE  \/ a \in requests'[k].handles
                      \/ br[a].pc = "registering" /\ k \in br[a].result
                      \/ \E d \in Client : HasHandle(d, a, k)'
    BY Zenon, <1>8 DEF Accounted
  <2>1. k \in interest[a] /\ k \in ClientMinor
    BY <1>9 DEF RequestInv, TypeOK
  <2>2. \/ a \in requests[k].handles
        \/ br[a].pc = "registering" /\ k \in br[a].result
        \/ \E d \in Client : HasHandle(d, a, k)
    BY <2>1 DEF RequestInv, Accounted
  <2> QED
    BY Zenon, <1>10, <1>11, <1>13, <2>1, <2>2
<1> QED
  BY <1>10, <1>12, <1>14, <1>15 DEF RequestInv

LEMMA ReleaseRequestsKeeps ==
    ASSUME RequestInv, NEW c \in Client, ReleaseRequests(c)
    PROVE  RequestInv'
<1> DEFINE m == cl[c].minor
           last == requests[m].holders = {c}
           hs == IF last THEN {} ELSE requests[m].handles
           td == IF last THEN requests[m].handles ELSE {}
           e == [requests[m] EXCEPT !.holders = @ \ {c}, !.handles = hs]
           r == [cl[c] EXCEPT !.pc = "drop", !.todo = td]
<1>1. /\ cl[c].pc = "release" /\ ~Forwarding(c) /\ ~InRecord(c) /\ m \in ClientMinor
      /\ cl[c] \in ClientState /\ c \in requests[m].holders /\ cl[c].result = {}
      /\ requests[m] \in Request
  BY DEF ReleaseRequests, Forwarding, InRecord, RequestInv, Clients, Owners, TypeOK
<1>2. requests' = [requests EXCEPT ![m] = e] /\ cl' = [cl EXCEPT ![c] = r]
  BY Zenon DEF ReleaseRequests, RequestInv, TypeOK
<1>3. /\ hs \subseteq Bridge /\ td \subseteq Bridge
      /\ requests[m].handles = hs \cup td
      /\ requests[m].holders = {c} => hs = {}
      /\ requests[m].holders # {c} => hs = requests[m].handles
  BY Zenon, <1>1 DEF Request
<1> HIDE DEF hs, td
<1>4. /\ e \in Request /\ e.listed = requests[m].listed /\ e.holders = requests[m].holders \ {c}
      /\ e.handles = hs /\ e.record = requests[m].record
  BY Zenon, <1>1, <1>3 DEF Request
<1>5. r \in ClientState /\ r.minor = m /\ r.pc = "drop" /\ r.result = {} /\ r.todo = td
  BY Zenon, <1>1, <1>3 DEF ClientState
<1> HIDE DEF e, r
<1>6. OnlyClient(c) /\ cl'[c] = r
  BY Zenon, <1>2, <1>5, SetClient DEF RequestInv
<1>7. /\ requests' \in [ClientMinor -> Request]
      /\ \A k \in ClientMinor : requests'[k] = IF k = m THEN e ELSE requests[k]
  BY Zenon, <1>1, <1>2, <1>4 DEF RequestInv, TypeOK
<1>8. ~InRecord(c)' /\ ~Forwarding(c)'
  BY Zenon, <1>5, <1>6 DEF Forwarding, InRecord
<1>9. UNCHANGED <<recordVars, callbacks, interest, br, conn, sv>>
  BY Zenon DEF ReleaseRequests
<1>10. /\ TypeOK' /\ Clients' /\ Bridges'
       /\ \A d \in Client \ {c} : cl'[d] = cl[d] /\ (Forwarding(d)' <=> Forwarding(d))
       /\ \A a \in Bridge, k \in ClientMinor : WillMeet(a, k)' <=> WillMeet(a, k)
       /\ \A a \in Bridge, k \in ClientMinor : \A d \in Client \ {c} :
            /\ requests'[k].record = requests[k].record =>
                    (WillForward(d, a, k) => WillForward(d, a, k)')
            /\ HasHandle(d, a, k) => HasHandle(d, a, k)'
  BY Zenon, <1>1, <1>5, <1>6, <1>7, <1>8, <1>9, BridgeStepFrame DEF RequestInv, TypeOK
<1>11. \A k \in ClientMinor :
        /\ requests'[k].holders = requests[k].holders \ {c}
        /\ requests'[k].listed = requests[k].listed
        /\ requests'[k].record = requests[k].record
        /\ requests'[k].holders # {} => requests'[k].handles = requests[k].handles
        /\ requests'[k].handles # {} => requests'[k].holders # {}
  <2>1. \A k \in ClientMinor \ {m} : c \notin requests[k].holders
    BY Zenon DEF RequestInv, Owners
  <2>2. \A k \in ClientMinor \ {m} :
            requests[k].holders \ {c} = requests[k].holders /\ requests'[k] = requests[k]
    BY <1>7, <2>1
  <2>3. \A k \in ClientMinor : requests[k].handles # {} => requests[k].holders # {}
    BY DEF RequestInv, Owners
  <2>4. /\ requests'[m] = e
        /\ requests[m].holders # {c} => requests[m].holders \ {c} # {}
        /\ requests[m].holders = {c} => requests[m].holders \ {c} = {}
    BY Zenon, <1>1, <1>7
  <2> QED
    BY Zenon, <1>3, <1>4, <2>2, <2>3, <2>4
<1>12. Owners'
  <2>1. \A k \in ClientMinor : requests[k].holders \subseteq Client
    BY DEF RequestInv, TypeOK, Request
  <2>2. \A k \in ClientMinor :
            /\ requests'[k].holders # {} => requests'[k].listed
            /\ requests'[k].handles # {} => requests'[k].holders # {}
    BY Zenon, <1>11 DEF RequestInv, Owners
  <2>3. \A k \in ClientMinor : \A d \in requests'[k].holders :
            cl'[d].minor = k /\ (Forwarding(d)' \/ cl'[d].pc \in {"live", "unregister", "release"})
    <3> SUFFICES ASSUME NEW k \in ClientMinor, NEW d \in requests'[k].holders
                 PROVE  cl'[d].minor = k /\ (Forwarding(d)' \/ cl'[d].pc \in {"live", "unregister", "release"})
      BY Zenon
    <3>1. d \in requests[k].holders /\ d \in Client \ {c}
      BY Zenon, <1>11, <2>1
    <3>2. Owners
      BY Zenon DEF RequestInv
    <3>3. cl[d].minor = k /\ (Forwarding(d) \/ cl[d].pc \in {"live", "unregister", "release"})
      BY Zenon, <3>1, <3>2 DEF Owners
    <3> QED
      BY Zenon, <1>10, <3>1, <3>3
  <2>4. ASSUME NEW d \in Client, Forwarding(d)' \/ cl'[d].pc = "release"
        PROVE  d \in requests'[cl'[d].minor].holders
    <3>1. d # c /\ cl'[d] = cl[d] /\ d \in requests[cl[d].minor].holders
      BY Zenon, <1>5, <1>6, <1>8, <1>10, <2>4 DEF RequestInv, Owners
    <3>2. cl[d].minor \in ClientMinor
      BY Zenon, <1>10, <2>4, <3>1 DEF RequestInv, Clients, Forwarding
    <3> QED
      BY Zenon, <1>11, <3>1, <3>2
  <2> QED
    BY <2>2, <2>3, <2>4 DEF Owners
<1>13. Pending'
  <2> SUFFICES ASSUME NEW k \in ClientMinor, NEW a \in callbacks, requests'[k].holders # {}
               PROVE  \/ a \in requests'[k].handles \/ WillMeet(a, k)'
                      \/ \E d \in Client : WillForward(d, a, k)'
    BY <1>9 DEF Pending
  <2>1. a \in Bridge /\ ~WillForward(c, a, k)
    BY Zenon, <1>1 DEF RequestInv, TypeOK, WillForward
  <2>2. a \in requests[k].handles \/ WillMeet(a, k) \/ \E d \in Client : WillForward(d, a, k)
    BY Zenon, <1>11 DEF RequestInv, Pending
  <2> QED
    BY Zenon, <1>10, <1>11, <2>1, <2>2
<1>14. Accounted'
  <2> SUFFICES ASSUME NEW a \in Bridge, NEW k \in interest[a]
               PROVE  \/ a \in requests'[k].handles
                      \/ br[a].pc = "registering" /\ k \in br[a].result
                      \/ \E d \in Client : HasHandle(d, a, k)'
    BY Zenon, <1>9 DEF Accounted
  <2>1. k \in ClientMinor /\ ~HasHandle(c, a, k)
    BY Zenon, <1>1 DEF RequestInv, TypeOK, HasHandle
  <2>2. \/ a \in requests[k].handles
        \/ br[a].pc = "registering" /\ k \in br[a].result
        \/ \E d \in Client : HasHandle(d, a, k)
    BY DEF RequestInv, Accounted
  <2>3. CASE a \in requests[k].handles
    <3>1. CASE k = m /\ a \in td
      <4>1. HasHandle(c, a, k)'
        BY Zenon, <1>5, <1>6, <3>1 DEF HasHandle
      <4> QED
        BY <4>1
    <3>2. CASE k # m \/ a \notin td
      BY Zenon, <1>3, <1>4, <1>7, <2>1, <2>3, <3>2
    <3> QED
      BY <3>1, <3>2
  <2> QED
    BY Zenon, <1>10, <2>1, <2>2, <2>3
<1> QED
  BY <1>10, <1>12, <1>13, <1>14 DEF RequestInv


\* A client that has given up its request.
LEMMA OwnersLeft ==
    ASSUME RequestInv, NEW c \in Client, cl[c].pc = "drop",
           \A d \in Client \ {c} : cl'[d] = cl[d] /\ (Forwarding(d)' <=> Forwarding(d)),
           ~Forwarding(c)', cl'[c].pc # "release",
           \A m \in ClientMinor :
              /\ requests'[m].holders = requests[m].holders
              /\ requests[m].holders # {} => requests'[m].listed
              /\ requests'[m].handles = requests[m].handles
    PROVE  Owners'
<1>1. \A k \in ClientMinor : requests[k].holders \subseteq Client /\ c \notin requests[k].holders
  BY DEF RequestInv, TypeOK, Request, Owners, Forwarding
<1>2. \A k \in ClientMinor :
          /\ requests'[k].holders # {} => requests'[k].listed
          /\ requests'[k].handles # {} => requests'[k].holders # {}
  <2>1. Owners
    BY Zenon DEF RequestInv
  <2>2. \A k \in ClientMinor : requests[k].handles # {} => requests[k].holders # {}
    BY Zenon, <2>1 DEF Owners
  <2> QED
    BY Zenon, <2>2
<1>3. \A k \in ClientMinor : \A d \in requests'[k].holders :
          cl'[d].minor = k /\ (Forwarding(d)' \/ cl'[d].pc \in {"live", "unregister", "release"})
  BY <1>1 DEF RequestInv, Owners
<1>4. ASSUME NEW d \in Client, Forwarding(d)' \/ cl'[d].pc = "release"
      PROVE  d \in requests'[cl'[d].minor].holders
  <2>1. d # c /\ cl'[d] = cl[d] /\ d \in requests[cl[d].minor].holders
    BY <1>4 DEF RequestInv, Owners
  <2>2. cl[d].minor \in ClientMinor
    BY <1>4, <2>1 DEF RequestInv, Clients, Forwarding
  <2> QED
    BY <2>1, <2>2
<1> QED
  BY Zenon, <1>2, <1>3, <1>4 DEF Owners

LEMMA DropHandleKeeps ==
    ASSUME RequestInv, NEW c \in Client, DropHandle(c)
    PROVE  RequestInv'
<1> DEFINE m == cl[c].minor
<1>1. /\ cl[c].pc = "drop" /\ ~Forwarding(c) /\ ~InRecord(c) /\ m \in ClientMinor
      /\ cl[c] \in ClientState /\ cl[c].result = {}
  BY DEF DropHandle, Forwarding, InRecord, RequestInv, Clients, TypeOK
<1> PICK b \in cl[c].todo :
        /\ interest' = TakenBack({b}, m)
        /\ cl' = [cl EXCEPT ![c].todo = @ \ {b}]
  BY Zenon DEF DropHandle
<1> DEFINE r == [cl[c] EXCEPT !.todo = @ \ {b}]
<1>2. cl' = [cl EXCEPT ![c] = r] /\ b \in Bridge
  BY <1>1 DEF RequestInv, TypeOK, ClientState
<1>3. r \in ClientState /\ r.minor = m /\ r.pc = "drop" /\ r.result = {} /\ r.todo = cl[c].todo \ {b}
  BY <1>1 DEF ClientState
<1> HIDE DEF r
<1>4. OnlyClient(c) /\ cl'[c] = r
  BY Zenon, <1>2, <1>3, SetClient DEF RequestInv
<1>5. ~InRecord(c)' /\ ~Forwarding(c)'
  BY Zenon, <1>3, <1>4 DEF Forwarding, InRecord
<1>6. UNCHANGED <<recordVars, callbacks, requests, br, conn, sv>>
  BY DEF DropHandle
<1>7. /\ interest' \in [Bridge -> SUBSET ClientMinor]
      /\ interest'[b] = interest[b] \ {m}
      /\ \A a \in Bridge \ {b} : interest'[a] = interest[a]
  BY <1>2 DEF TakenBack, RequestInv, TypeOK
<1>8. /\ TypeOK' /\ Clients' /\ Bridges'
      /\ \A d \in Client \ {c} : cl'[d] = cl[d] /\ (Forwarding(d)' <=> Forwarding(d))
      /\ \A a \in Bridge, k \in ClientMinor : WillMeet(a, k)' <=> WillMeet(a, k)
      /\ \A a \in Bridge, k \in ClientMinor : \A d \in Client \ {c} :
           /\ requests'[k].record = requests[k].record =>
                   (WillForward(d, a, k) => WillForward(d, a, k)')
           /\ HasHandle(d, a, k) => HasHandle(d, a, k)'
  BY Zenon, <1>1, <1>3, <1>4, <1>5, <1>6, <1>7, BridgeStepFrame DEF RequestInv, TypeOK
<1>9. Owners'
  BY Zenon, <1>1, <1>3, <1>4, <1>5, <1>6, <1>8, OwnersLeft DEF RequestInv, Owners
<1>10. Pending'
  <2> SUFFICES ASSUME NEW k \in ClientMinor, NEW a \in callbacks, requests[k].holders # {}
               PROVE  \/ a \in requests[k].handles \/ WillMeet(a, k)'
                      \/ \E d \in Client : WillForward(d, a, k)'
    BY <1>6 DEF Pending
  <2>1. a \in Bridge /\ ~WillForward(c, a, k)
    BY <1>1 DEF RequestInv, TypeOK, WillForward
  <2>2. a \in requests[k].handles \/ WillMeet(a, k) \/ \E d \in Client : WillForward(d, a, k)
    BY DEF RequestInv, Pending
  <2> QED
    BY <1>6, <1>8, <2>1, <2>2
<1>11. Accounted'
  <2> SUFFICES ASSUME NEW a \in Bridge, NEW k \in interest'[a]
               PROVE  \/ a \in requests[k].handles
                      \/ br[a].pc = "registering" /\ k \in br[a].result
                      \/ \E d \in Client : HasHandle(d, a, k)'
    BY Zenon, <1>6 DEF Accounted
  <2>1. k \in interest[a] /\ k \in ClientMinor /\ ~(a = b /\ k = m)
    BY Zenon, <1>7 DEF RequestInv, TypeOK
  <2>2. \/ a \in requests[k].handles
        \/ br[a].pc = "registering" /\ k \in br[a].result
        \/ \E d \in Client : HasHandle(d, a, k)
    BY <2>1 DEF RequestInv, Accounted
  <2>3. HasHandle(c, a, k) => HasHandle(c, a, k)'
    BY <1>1, <1>3, <1>4, <2>1 DEF HasHandle
  <2> QED
    BY <1>8, <2>1, <2>2, <2>3
<1> QED
  BY <1>8, <1>9, <1>10, <1>11 DEF RequestInv

LEMMA RemoveFromServiceRequestsKeeps ==
    ASSUME RequestInv, NEW c \in Client, RemoveFromServiceRequests(c)
    PROVE  RequestInv'
<1> DEFINE m == cl[c].minor
<1>1. /\ cl[c].pc = "drop" /\ ~Forwarding(c) /\ ~InRecord(c) /\ m \in ClientMinor
      /\ cl[c].todo = {}
  BY Zenon DEF RemoveFromServiceRequests, Forwarding, InRecord, RequestInv, Clients
<1>2. NoClient \in ClientState /\ NoClient.pc = "absent" /\ NoClient.result = {}
  BY DEF NoClient, ClientState
<1>3. OnlyClient(c) /\ cl'[c] = NoClient
  BY Zenon, <1>2, SetClient DEF RequestInv, RemoveFromServiceRequests
<1>4. ~InRecord(c)' /\ ~Forwarding(c)'
  BY <1>2, <1>3 DEF Forwarding, InRecord
<1>5. UNCHANGED <<recordVars, callbacks, interest, br, conn, sv>>
  BY DEF RemoveFromServiceRequests
<1>6. /\ requests' \in [ClientMinor -> Request]
      /\ \A k \in ClientMinor :
            \/ requests'[k] = requests[k]
            \/ requests'[k] = NoRequest /\ requests[k].holders = {} /\ requests[k].handles = {}
  <2>1. NoRequest \in Request
    BY DEF NoRequest, Request
  <2>2. requests[m].holders = {} => requests[m].handles = {}
    BY <1>1 DEF RequestInv, Owners
  <2> QED
    BY Zenon, <1>1, <2>1, <2>2 DEF RemoveFromServiceRequests, RequestInv, TypeOK
<1>7. /\ TypeOK' /\ Clients' /\ Bridges'
      /\ \A d \in Client \ {c} : cl'[d] = cl[d] /\ (Forwarding(d)' <=> Forwarding(d))
      /\ \A a \in Bridge, k \in ClientMinor : WillMeet(a, k)' <=> WillMeet(a, k)
      /\ \A a \in Bridge, k \in ClientMinor : \A d \in Client \ {c} :
           /\ requests'[k].record = requests[k].record =>
                   (WillForward(d, a, k) => WillForward(d, a, k)')
           /\ HasHandle(d, a, k) => HasHandle(d, a, k)'
  BY Zenon, <1>1, <1>2, <1>3, <1>4, <1>5, <1>6, BridgeStepFrame DEF RequestInv, TypeOK
<1>8. \A k \in ClientMinor :
        /\ requests'[k].holders = requests[k].holders
        /\ requests'[k].handles = requests[k].handles
        /\ requests[k].holders # {} => requests'[k] = requests[k]
  <2>1. NoRequest.holders = {} /\ NoRequest.handles = {}
    BY DEF NoRequest
  <2> QED
    BY Zenon, <1>6, <2>1
<1>9. Owners'
  <2>1. \A k \in ClientMinor : requests[k].holders # {} => requests'[k].listed
    BY Zenon, <1>8 DEF RequestInv, Owners
  <2>2. cl'[c].pc # "release"
    BY Zenon, <1>2, <1>3
  <2> QED
    BY Zenon, <1>1, <1>4, <1>7, <1>8, <2>1, <2>2, OwnersLeft
<1>10. Pending'
  <2> SUFFICES ASSUME NEW k \in ClientMinor, NEW a \in callbacks, requests[k].holders # {}
               PROVE  \/ a \in requests'[k].handles \/ WillMeet(a, k)'
                      \/ \E d \in Client : WillForward(d, a, k)'
    BY Zenon, <1>5, <1>8 DEF Pending
  <2>1. a \in Bridge /\ ~WillForward(c, a, k)
    BY Zenon, <1>1 DEF RequestInv, TypeOK, WillForward
  <2>2. a \in requests[k].handles \/ WillMeet(a, k) \/ \E d \in Client : WillForward(d, a, k)
    BY DEF RequestInv, Pending
  <2> QED
    BY Zenon, <1>7, <1>8, <2>1, <2>2
<1>11. Accounted'
  <2> SUFFICES ASSUME NEW a \in Bridge, NEW k \in interest[a]
               PROVE  \/ a \in requests'[k].handles
                      \/ br[a].pc = "registering" /\ k \in br[a].result
                      \/ \E d \in Client : HasHandle(d, a, k)'
    BY <1>5 DEF Accounted
  <2>1. k \in ClientMinor /\ ~HasHandle(c, a, k)
    BY Zenon, <1>1 DEF RequestInv, TypeOK, HasHandle
  <2>2. \/ a \in requests[k].handles
        \/ br[a].pc = "registering" /\ k \in br[a].result
        \/ \E d \in Client : HasHandle(d, a, k)
    BY DEF RequestInv, Accounted
  <2> QED
    BY Zenon, <1>7, <1>8, <2>1, <2>2
<1> QED
  BY <1>7, <1>9, <1>10, <1>11 DEF RequestInv


-----------------------------------------------------------------------------
(* Steps of a bridge.                                                       *)

\* The clients, and the other bridges, do not notice.
LEMMA BridgeFrame ==
    ASSUME RequestInv, NEW b \in Bridge, OnlyBridge(b),
           UNCHANGED <<recordVars, conn, cl, sv>>,
           requests' \in [ClientMinor -> Request], interest' \in [Bridge -> SUBSET ClientMinor],
           callbacks' \subseteq Bridge,
           \A a \in Bridge \ {b} : a \in callbacks' <=> a \in callbacks,
           b \in callbacks' <=> br'[b].pc \in {"registering", "registered"},
           br'[b].pc # "registering" => br'[b].result = {},
           \A m \in ClientMinor :
              /\ requests'[m].record = requests[m].record
              /\ requests'[m].holders = requests[m].holders
              /\ requests'[m].listed = requests[m].listed
              /\ requests'[m].handles # {} => requests[m].holders # {}
    PROVE  /\ TypeOK' /\ Clients' /\ Owners' /\ Bridges'
           /\ \A a \in Bridge \ {b} : \A m \in ClientMinor : WillMeet(a, m) => WillMeet(a, m)'
           /\ \A a \in Bridge \ {b} : br'[a] = br[a]
           /\ \A a \in Bridge, m \in ClientMinor, c \in Client :
                /\ WillForward(c, a, m) => WillForward(c, a, m)'
                /\ HasHandle(c, a, m) => HasHandle(c, a, m)'
<1>1. TypeOK'
  BY Zenon DEF RequestInv, TypeOK, OnlyBridge, recordVars
<1>2. \A c \in Client : (Forwarding(c)' <=> Forwarding(c)) /\ (InRecord(c)' <=> InRecord(c))
  BY Zenon DEF Forwarding, InRecord
<1>3. Clients'
  BY Zenon, <1>2 DEF RequestInv, Clients, recordVars
<1>4. Owners'
  <2>1. \A k \in ClientMinor : requests[k].holders \subseteq Client
    BY Zenon DEF RequestInv, TypeOK, Request
  <2>2. \A c \in Client : Forwarding(c) \/ cl[c].pc = "release" => cl[c].minor \in ClientMinor
    BY Zenon DEF RequestInv, Clients, Forwarding
  <2>3. \A k \in ClientMinor :
          /\ requests'[k].holders # {} => requests'[k].listed
          /\ requests'[k].handles # {} => requests'[k].holders # {}
    <3>1. Owners
      BY Zenon DEF RequestInv
    <3>2. \A k \in ClientMinor : requests[k].holders # {} => requests[k].listed
      BY Zenon, <3>1 DEF Owners
    <3> QED
      BY Zenon, <3>2
  <2>4. \A k \in ClientMinor : \A c \in requests'[k].holders :
          cl'[c].minor = k /\ (Forwarding(c)' \/ cl'[c].pc \in {"live", "unregister", "release"})
    BY Zenon, <1>2, <2>1 DEF RequestInv, Owners
  <2>5. \A c \in Client :
          Forwarding(c)' \/ cl'[c].pc = "release" => c \in requests'[cl'[c].minor].holders
    BY Zenon, <1>2, <2>2 DEF RequestInv, Owners
  <2> QED
    BY Zenon, <2>3, <2>4, <2>5 DEF Owners
<1>5. Bridges'
  BY Zenon DEF RequestInv, Bridges, OnlyBridge
<1>6. \A a \in Bridge \ {b} : br'[a] = br[a]
  BY DEF OnlyBridge
<1>7. \A a \in Bridge \ {b} : \A m \in ClientMinor : WillMeet(a, m) => WillMeet(a, m)'
  BY Zenon, <1>6 DEF WillMeet
<1>8. \A a \in Bridge, m \in ClientMinor, c \in Client :
        /\ WillForward(c, a, m) => WillForward(c, a, m)'
        /\ HasHandle(c, a, m) => HasHandle(c, a, m)'
  <2> SUFFICES ASSUME NEW a \in Bridge, NEW m \in ClientMinor, NEW c \in Client
               PROVE  /\ WillForward(c, a, m) => WillForward(c, a, m)'
                      /\ HasHandle(c, a, m) => HasHandle(c, a, m)'
    BY Zenon
  <2>1. cl'[c] = cl[c] /\ (Forwarding(c)' <=> Forwarding(c)) /\ requests'[m].record = requests[m].record
    BY Zenon, <1>2
  <2>2. WillForward(c, a, m) => WillForward(c, a, m)'
    BY Zenon, <2>1 DEF WillForward
  <2> QED
    BY Zenon, <2>1, <2>2 DEF HasHandle
<1> QED
  BY Zenon, <1>1, <1>3, <1>4, <1>5, <1>6, <1>7, <1>8

LEMMA RegisterBridgeKeeps ==
    ASSUME RequestInv, NEW b \in Bridge, RegisterBridge(b)
    PROVE  RequestInv'
<1> DEFINE r == [br[b] EXCEPT !.pc = "registering", !.todo = Listed]
<1>1. br[b].pc = "new" /\ br[b] \in BridgeState
  BY DEF RegisterBridge, RequestInv, TypeOK
<1>2. br[b].result = {} /\ br' = [br EXCEPT ![b] = r]
  BY Zenon, <1>1 DEF RequestInv, Bridges, RegisterBridge, TypeOK
<1>3. /\ r \in BridgeState /\ r.pc = "registering" /\ r.todo = Listed /\ r.result = {}
      /\ r.done = br[b].done
  BY Zenon, <1>1, <1>2 DEF BridgeState, Listed
<1> HIDE DEF r
<1>4. OnlyBridge(b) /\ br'[b] = r
  BY Zenon, <1>2, <1>3, SetBridge DEF RequestInv
<1>5. UNCHANGED <<recordVars, requests, interest, conn, cl, sv>> /\ callbacks' = callbacks \cup {b}
  BY DEF RegisterBridge
<1>6. /\ TypeOK' /\ Clients' /\ Owners' /\ Bridges'
      /\ \A a \in Bridge \ {b} : \A m \in ClientMinor : WillMeet(a, m) => WillMeet(a, m)'
      /\ \A a \in Bridge \ {b} : br'[a] = br[a]
      /\ \A a \in Bridge, m \in ClientMinor, c \in Client :
           /\ WillForward(c, a, m) => WillForward(c, a, m)'
           /\ HasHandle(c, a, m) => HasHandle(c, a, m)'
  <2>1. \A m \in ClientMinor : requests[m].handles # {} => requests[m].holders # {}
    BY Zenon DEF RequestInv, Owners
  <2> QED
    BY Zenon, <1>3, <1>4, <1>5, <2>1, BridgeFrame DEF RequestInv, TypeOK
<1>7. Pending'
  <2> SUFFICES ASSUME NEW k \in ClientMinor, NEW a \in callbacks', requests[k].holders # {}
               PROVE  \/ a \in requests[k].handles \/ WillMeet(a, k)'
                      \/ \E d \in Client : WillForward(d, a, k)'
    BY Zenon, <1>5 DEF Pending
  <2>1. CASE a = b
    <3>1. k \in Listed
      BY Zenon DEF RequestInv, Owners, Listed
    <3> QED
      BY <1>3, <1>4, <2>1, <3>1 DEF WillMeet
  <2>2. CASE a # b
    <3>1. a \in Bridge /\ a \in callbacks
      BY Zenon, <1>5, <2>2 DEF RequestInv, TypeOK
    <3>2. a \in requests[k].handles \/ WillMeet(a, k) \/ \E d \in Client : WillForward(d, a, k)
      BY Zenon, <3>1 DEF RequestInv, Pending
    <3> QED
      BY Zenon, <1>6, <2>2, <3>1, <3>2
  <2> QED
    BY Zenon, <2>1, <2>2
<1>8. Accounted'
  <2> SUFFICES ASSUME NEW a \in Bridge, NEW k \in interest[a]
               PROVE  \/ a \in requests[k].handles
                      \/ br'[a].pc = "registering" /\ k \in br'[a].result
                      \/ \E d \in Client : HasHandle(d, a, k)'
    BY Zenon, <1>5 DEF Accounted
  <2>1. k \in ClientMinor
    BY DEF RequestInv, TypeOK
  <2>2. \/ a \in requests[k].handles
        \/ br[a].pc = "registering" /\ k \in br[a].result
        \/ \E d \in Client : HasHandle(d, a, k)
    BY Zenon DEF RequestInv, Accounted
  <2>3. br[a].pc = "registering" => a # b
    BY Zenon, <1>1
  <2> QED
    BY Zenon, <1>6, <2>1, <2>2, <2>3
<1> QED
  BY Zenon, <1>6, <1>7, <1>8 DEF RequestInv

LEMMA CreateRequestKeeps ==
    ASSUME RequestInv, NEW b \in Bridge, CreateRequest(b)
    PROVE  RequestInv'
<1> PICK m \in br[b].todo :
        /\ interest' = [interest EXCEPT ![b] = @ \cup {m}]
        /\ br' = [br EXCEPT ![b].todo = @ \ {m}, ![b].result = @ \cup {m}, ![b].done = @ \cup {m}]
  BY Zenon DEF CreateRequest
<1> DEFINE r == [br[b] EXCEPT !.todo = @ \ {m}, !.result = @ \cup {m}, !.done = @ \cup {m}]
<1>1. br[b].pc = "registering" /\ br[b] \in BridgeState /\ m \in ClientMinor
  BY DEF CreateRequest, RequestInv, TypeOK, BridgeState
<1>2. br' = [br EXCEPT ![b] = r]
  BY Zenon, <1>1 DEF RequestInv, TypeOK
<1>3. /\ r \in BridgeState /\ r.pc = "registering" /\ r.todo = br[b].todo \ {m}
      /\ r.result = br[b].result \cup {m} /\ r.done = br[b].done \cup {m}
  BY Zenon, <1>1 DEF BridgeState
<1> HIDE DEF r
<1>4. OnlyBridge(b) /\ br'[b] = r
  BY Zenon, <1>2, <1>3, SetBridge DEF RequestInv
<1>5. UNCHANGED <<recordVars, callbacks, requests, conn, cl, sv>>
  BY DEF CreateRequest
<1>6. /\ interest' \in [Bridge -> SUBSET ClientMinor]
      /\ interest'[b] = interest[b] \cup {m}
      /\ \A a \in Bridge \ {b} : interest'[a] = interest[a]
  BY <1>1 DEF RequestInv, TypeOK
<1>7. /\ TypeOK' /\ Clients' /\ Owners' /\ Bridges'
      /\ \A a \in Bridge \ {b} : \A k \in ClientMinor : WillMeet(a, k) => WillMeet(a, k)'
      /\ \A a \in Bridge \ {b} : br'[a] = br[a]
      /\ \A a \in Bridge, k \in ClientMinor, c \in Client :
           /\ WillForward(c, a, k) => WillForward(c, a, k)'
           /\ HasHandle(c, a, k) => HasHandle(c, a, k)'
  <2>1. \A k \in ClientMinor : requests[k].handles # {} => requests[k].holders # {}
    BY Zenon DEF RequestInv, Owners
  <2>2. b \in callbacks
    BY <1>1 DEF RequestInv, Bridges
  <2> QED
    BY Zenon, <1>3, <1>4, <1>5, <1>6, <2>1, <2>2, BridgeFrame DEF RequestInv, TypeOK
<1>8. \A k \in ClientMinor : WillMeet(b, k) => WillMeet(b, k)'
  BY <1>3, <1>4 DEF WillMeet
<1>9. Pending'
  <2> SUFFICES ASSUME NEW k \in ClientMinor, NEW a \in callbacks, requests[k].holders # {}
               PROVE  \/ a \in requests[k].handles \/ WillMeet(a, k)'
                      \/ \E d \in Client : WillForward(d, a, k)'
    BY <1>5 DEF Pending
  <2>1. a \in Bridge
    BY DEF RequestInv, TypeOK
  <2>2. a \in requests[k].handles \/ WillMeet(a, k) \/ \E d \in Client : WillForward(d, a, k)
    BY DEF RequestInv, Pending
  <2> QED
    BY <1>7, <1>8, <2>1, <2>2
<1>10. Accounted'
  <2> SUFFICES ASSUME NEW a \in Bridge, NEW k \in interest'[a]
               PROVE  \/ a \in requests[k].handles
                      \/ br'[a].pc = "registering" /\ k \in br'[a].result
                      \/ \E d \in Client : HasHandle(d, a, k)'
    BY Zenon, <1>5 DEF Accounted
  <2>1. CASE a = b /\ k = m
    BY Zenon, <1>3, <1>4, <2>1
  <2>2. CASE ~(a = b /\ k = m)
    <3>1. k \in interest[a] /\ k \in ClientMinor
      BY <1>6, <2>2 DEF RequestInv, TypeOK
    <3>2. \/ a \in requests[k].handles
          \/ br[a].pc = "registering" /\ k \in br[a].result
          \/ \E d \in Client : HasHandle(d, a, k)
      BY <3>1 DEF RequestInv, Accounted
    <3>3. br[a].pc = "registering" /\ k \in br[a].result =>
            br'[a].pc = "registering" /\ k \in br'[a].result
      BY Zenon, <1>3, <1>4, <1>7
    <3> QED
      BY Zenon, <1>7, <3>1, <3>2, <3>3
  <2> QED
    BY Zenon, <2>1, <2>2
<1> QED
  BY Zenon, <1>7, <1>9, <1>10 DEF RequestInv


LEMMA MergeBridgeKeeps ==
    ASSUME RequestInv, NEW b \in Bridge, MergeBridge(b)
    PROVE  RequestInv'
<1> DEFINE stored == {m \in br[b].result \cap Listed :
                        requests[m].holders # {} /\ b \notin requests[m].handles}
           more == Listed \ (br[b].result \cup br[b].done)
           r == IF more = {} THEN [NoBridge EXCEPT !.pc = "registered"]
                ELSE [br[b] EXCEPT !.todo = more, !.result = {}]
<1>1. br[b].pc = "registering" /\ br[b] \in BridgeState /\ br[b].todo = {} /\ b \in callbacks
  BY DEF MergeBridge, RequestInv, TypeOK, Bridges
<1>2. /\ br' = [br EXCEPT ![b] = r]
      /\ requests' = [m \in ClientMinor |-> IF m \in stored
                        THEN [requests[m] EXCEPT !.handles = @ \cup {b}] ELSE requests[m]]
      /\ interest' = [interest EXCEPT ![b] = @ \ (br[b].result \ stored)]
  BY DEF MergeBridge, RequestInv, TypeOK
<1>3. /\ r \in BridgeState /\ r.pc \in {"registering", "registered"} /\ r.result = {}
      /\ \A k \in more : r.pc = "registering" /\ k \in r.todo
  <2>1. CASE more = {}
    <3>1. r = [NoBridge EXCEPT !.pc = "registered"]
      BY <2>1
    <3> QED
      BY <2>1, <3>1 DEF NoBridge, BridgeState
  <2>2. CASE more # {}
    <3>1. r = [br[b] EXCEPT !.todo = more, !.result = {}] /\ more \subseteq ClientMinor
      BY <2>2 DEF Listed
    <3> QED
      BY Zenon, <1>1, <3>1 DEF BridgeState
  <2> QED
    BY <2>1, <2>2
<1> HIDE DEF r
<1>4. OnlyBridge(b) /\ br'[b] = r
  BY Zenon, <1>2, <1>3, SetBridge DEF RequestInv
<1>5. UNCHANGED <<recordVars, callbacks, conn, cl, sv>>
  BY DEF MergeBridge
<1>6. /\ stored \subseteq ClientMinor
      /\ \A k \in stored : requests[k].holders # {}
  BY DEF Listed
<1>7. \A k \in ClientMinor :
        requests[k].holders # {} /\ k \in br[b].result => k \in stored \/ b \in requests[k].handles
  BY Zenon DEF Listed, RequestInv, Owners
<1>8. \A k \in ClientMinor :
        requests[k].holders # {} /\ k \notin br[b].result /\ k \notin br[b].done => k \in more
  BY DEF Listed, RequestInv, Owners
<1> HIDE DEF stored, more
<1>9. /\ interest' \in [Bridge -> SUBSET ClientMinor]
      /\ interest'[b] = interest[b] \ (br[b].result \ stored)
      /\ \A a \in Bridge \ {b} : interest'[a] = interest[a]
  BY <1>2 DEF RequestInv, TypeOK
<1>10. \A k \in ClientMinor :
        /\ requests'[k] \in Request
        /\ requests'[k].record = requests[k].record
        /\ requests'[k].holders = requests[k].holders
        /\ requests'[k].listed = requests[k].listed
        /\ requests'[k].handles = IF k \in stored THEN requests[k].handles \cup {b}
                                  ELSE requests[k].handles
  <2> SUFFICES ASSUME NEW k \in ClientMinor
               PROVE  /\ requests'[k] \in Request
                      /\ requests'[k].record = requests[k].record
                      /\ requests'[k].holders = requests[k].holders
                      /\ requests'[k].listed = requests[k].listed
                      /\ requests'[k].handles = IF k \in stored THEN requests[k].handles \cup {b}
                                                ELSE requests[k].handles
    BY Zenon
  <2>1. requests[k] \in Request
    BY DEF RequestInv, TypeOK
  <2>2. CASE k \in stored
    <3>1. requests'[k] = [requests[k] EXCEPT !.handles = @ \cup {b}]
      BY <1>2, <2>2
    <3> QED
      BY <2>1, <2>2, <3>1 DEF Request
  <2>3. CASE k \notin stored
    BY <1>2, <2>1, <2>3
  <2> QED
    BY Zenon, <2>2, <2>3
<1>11. requests' \in [ClientMinor -> Request]
  BY <1>2, <1>10
<1>12. /\ TypeOK' /\ Clients' /\ Owners' /\ Bridges'
       /\ \A a \in Bridge \ {b} : \A k \in ClientMinor : WillMeet(a, k) => WillMeet(a, k)'
       /\ \A a \in Bridge \ {b} : br'[a] = br[a]
       /\ \A a \in Bridge, k \in ClientMinor, c \in Client :
            /\ WillForward(c, a, k) => WillForward(c, a, k)'
            /\ HasHandle(c, a, k) => HasHandle(c, a, k)'
  <2>1. \A k \in ClientMinor : requests'[k].handles # {} => requests[k].holders # {}
    BY Zenon, <1>6, <1>10 DEF RequestInv, Owners
  <2> QED
    BY Zenon, <1>1, <1>3, <1>4, <1>5, <1>9, <1>10, <1>11, <2>1, BridgeFrame DEF RequestInv, TypeOK
<1>13. \A k \in ClientMinor : WillMeet(b, k) /\ requests[k].holders # {} =>
            b \in requests'[k].handles \/ WillMeet(b, k)'
  <2> SUFFICES ASSUME NEW k \in ClientMinor, WillMeet(b, k), requests[k].holders # {},
                      b \notin requests'[k].handles
               PROVE  WillMeet(b, k)'
    BY Zenon
  <2>1. k \notin br[b].result
    BY Zenon, <1>7, <1>10
  <2>2. k \in more
    BY Zenon, <1>1, <1>8, <2>1 DEF WillMeet
  <2> QED
    BY Zenon, <1>3, <1>4, <2>2 DEF WillMeet
<1>14. Pending'
  <2> SUFFICES ASSUME NEW k \in ClientMinor, NEW a \in callbacks, requests[k].holders # {}
               PROVE  \/ a \in requests'[k].handles \/ WillMeet(a, k)'
                      \/ \E d \in Client : WillForward(d, a, k)'
    BY Zenon, <1>5, <1>10 DEF Pending
  <2>1. a \in Bridge
    BY Zenon DEF RequestInv, TypeOK
  <2>2. a \in requests[k].handles \/ WillMeet(a, k) \/ \E d \in Client : WillForward(d, a, k)
    BY Zenon DEF RequestInv, Pending
  <2> QED
    BY Zenon, <1>10, <1>12, <1>13, <2>1, <2>2
<1>15. Accounted'
  <2> SUFFICES ASSUME NEW a \in Bridge, NEW k \in interest'[a]
               PROVE  \/ a \in requests'[k].handles
                      \/ br'[a].pc = "registering" /\ k \in br'[a].result
                      \/ \E d \in Client : HasHandle(d, a, k)'
    BY Zenon DEF Accounted
  <2>1. k \in interest[a] /\ k \in ClientMinor
    BY Zenon, <1>9 DEF RequestInv, TypeOK
  <2>2. \/ a \in requests[k].handles
        \/ br[a].pc = "registering" /\ k \in br[a].result
        \/ \E d \in Client : HasHandle(d, a, k)
    BY <2>1 DEF RequestInv, Accounted
  <2>3. a = b /\ k \in br[a].result => a \in requests'[k].handles
    BY Zenon, <1>9, <1>10, <2>1
  <2> QED
    BY Zenon, <1>10, <1>12, <2>1, <2>2, <2>3
<1> QED
  BY <1>12, <1>14, <1>15 DEF RequestInv

LEMMA StopRegistrationKeeps ==
    ASSUME RequestInv, NEW b \in Bridge, StopRegistration(b)
    PROVE  RequestInv'
<1> DEFINE stored == {m \in Listed : b \in requests[m].handles}
           r == [br[b] EXCEPT !.pc = "gone"]
<1>1. br[b].pc = "registered" /\ br[b] \in BridgeState /\ br[b].result = {}
  BY Zenon DEF StopRegistration, RequestInv, TypeOK, Bridges
<1>2. /\ br' = [br EXCEPT ![b] = r]
      /\ requests' = [m \in ClientMinor |-> [requests[m] EXCEPT !.handles = @ \ {b}]]
      /\ interest' = [interest EXCEPT ![b] = @ \ stored]
  BY DEF StopRegistration, RequestInv, TypeOK
<1>3. r \in BridgeState /\ r.pc = "gone" /\ r.result = {}
  BY <1>1 DEF BridgeState
<1> HIDE DEF r
<1>4. OnlyBridge(b) /\ br'[b] = r
  BY Zenon, <1>2, <1>3, SetBridge DEF RequestInv
<1>5. UNCHANGED <<recordVars, conn, cl, sv>> /\ callbacks' = callbacks \ {b}
  BY DEF StopRegistration
<1>6. \A k \in ClientMinor : b \in requests[k].handles => k \in stored
  BY DEF Listed, RequestInv, Owners
<1> HIDE DEF stored
<1>7. /\ interest' \in [Bridge -> SUBSET ClientMinor]
      /\ interest'[b] = interest[b] \ stored
      /\ \A a \in Bridge \ {b} : interest'[a] = interest[a]
  BY <1>2 DEF RequestInv, TypeOK
<1>8. \A k \in ClientMinor :
        /\ requests'[k] \in Request
        /\ requests'[k].record = requests[k].record
        /\ requests'[k].holders = requests[k].holders
        /\ requests'[k].listed = requests[k].listed
        /\ requests'[k].handles = requests[k].handles \ {b}
  <2> SUFFICES ASSUME NEW k \in ClientMinor
               PROVE  /\ requests'[k] \in Request
                      /\ requests'[k].record = requests[k].record
                      /\ requests'[k].holders = requests[k].holders
                      /\ requests'[k].listed = requests[k].listed
                      /\ requests'[k].handles = requests[k].handles \ {b}
    BY Zenon
  <2>1. requests[k] \in Request /\ requests'[k] = [requests[k] EXCEPT !.handles = @ \ {b}]
    BY <1>2 DEF RequestInv, TypeOK
  <2> QED
    BY <2>1 DEF Request
<1>9. requests' \in [ClientMinor -> Request]
  BY <1>2, <1>8
<1>10. /\ TypeOK' /\ Clients' /\ Owners' /\ Bridges'
       /\ \A a \in Bridge \ {b} : \A k \in ClientMinor : WillMeet(a, k) => WillMeet(a, k)'
       /\ \A a \in Bridge \ {b} : br'[a] = br[a]
       /\ \A a \in Bridge, k \in ClientMinor, c \in Client :
            /\ WillForward(c, a, k) => WillForward(c, a, k)'
            /\ HasHandle(c, a, k) => HasHandle(c, a, k)'
  <2>1. \A k \in ClientMinor : requests'[k].handles # {} => requests[k].holders # {}
    BY Zenon, <1>8 DEF RequestInv, Owners
  <2> QED
    BY Zenon, <1>3, <1>4, <1>5, <1>7, <1>8, <1>9, <2>1, BridgeFrame DEF RequestInv, TypeOK
<1>11. Pending'
  <2> SUFFICES ASSUME NEW k \in ClientMinor, NEW a \in callbacks', requests[k].holders # {}
               PROVE  \/ a \in requests'[k].handles \/ WillMeet(a, k)'
                      \/ \E d \in Client : WillForward(d, a, k)'
    BY Zenon, <1>8 DEF Pending
  <2>1. a \in Bridge \ {b} /\ a \in callbacks
    BY Zenon, <1>5 DEF RequestInv, TypeOK
  <2>2. a \in requests[k].handles \/ WillMeet(a, k) \/ \E d \in Client : WillForward(d, a, k)
    BY Zenon, <2>1 DEF RequestInv, Pending
  <2> QED
    BY Zenon, <1>8, <1>10, <2>1, <2>2
<1>12. Accounted'
  <2> SUFFICES ASSUME NEW a \in Bridge, NEW k \in interest'[a]
               PROVE  \/ a \in requests'[k].handles
                      \/ br'[a].pc = "registering" /\ k \in br'[a].result
                      \/ \E d \in Client : HasHandle(d, a, k)'
    BY DEF Accounted
  <2>1. k \in interest[a] /\ k \in ClientMinor
    BY <1>7 DEF RequestInv, TypeOK
  <2>2. \/ a \in requests[k].handles
        \/ br[a].pc = "registering" /\ k \in br[a].result
        \/ \E d \in Client : HasHandle(d, a, k)
    BY <2>1 DEF RequestInv, Accounted
  <2>3. a = b => a \notin requests[k].handles /\ br[a].pc # "registering"
    BY Zenon, <1>1, <1>6, <1>7, <2>1
  <2> QED
    BY Zenon, <1>8, <1>10, <2>1, <2>2, <2>3
<1> QED
  BY <1>10, <1>11, <1>12 DEF RequestInv


-----------------------------------------------------------------------------
(* Requests: the theorems.                                                  *)

LEMMA RequestInit ==
    ASSUME Init
    PROVE  RequestInv
<1> USE DEF Init, NoRequest, NoClient, NoServer, NoBridge
<1>1. TypeOK
  BY Zenon DEF TypeOK, Request, ClientState, ServerState, BridgeState
<1>2. Clients /\ Owners /\ Bridges
  BY Zenon, NameAssumption DEF Clients, Owners, Bridges, Forwarding, InRecord
<1>3. Pending /\ Accounted
  BY Zenon DEF Pending, Accounted
<1> QED
  BY Zenon, <1>1, <1>2, <1>3 DEF RequestInv

LEMMA RequestStep ==
    ASSUME RequestInv, [Next]_vars
    PROVE  RequestInv'
<1>1. CASE UNCHANGED vars
  <2> USE <1>1 DEF vars
  <2>1. TypeOK'
    BY Zenon DEF RequestInv, TypeOK
  <2>2. Clients'
    BY Zenon DEF RequestInv, Clients, Forwarding, InRecord
  <2>3. Owners'
    BY Zenon DEF RequestInv, Owners, Forwarding
  <2>4. Bridges'
    BY DEF RequestInv, Bridges
  <2>5. Pending'
    <3>1. Pending
      BY Zenon DEF RequestInv
    <3>2. ASSUME NEW c \in Client, NEW b, NEW m
          PROVE  WillForward(c, b, m) => WillForward(c, b, m)'
      BY Zenon DEF WillForward, Forwarding
    <3>3. ASSUME NEW b, NEW m PROVE WillMeet(b, m) => WillMeet(b, m)'
      BY Zenon DEF WillMeet
    <3>4. callbacks' = callbacks /\ requests' = requests
      BY Zenon
    <3> QED
      BY Zenon, <3>1, <3>2, <3>3, <3>4 DEF Pending
  <2>6. Accounted'
    <3>1. Accounted
      BY Zenon DEF RequestInv
    <3>2. \A c \in Client : \A b, m : HasHandle(c, b, m)' <=> HasHandle(c, b, m)
      BY Zenon DEF HasHandle, Forwarding
    <3> QED
      BY Zenon, <3>1, <3>2 DEF Accounted
  <2> QED
    BY Zenon, <2>1, <2>2, <2>3, <2>4, <2>5, <2>6 DEF RequestInv
<1>2. ASSUME NEW c \in Client, BeginClient(c) \/ ContinueClient(c)
      PROVE  RequestInv'
  BY <1>2, MakeClientKeepsRequests, CloseClientKeepsRequests, ServerUpdateKeepsRequests,
     GetBridgeRequestsKeeps, ForwardNextKeeps, CreateValueKeeps, StoreRequestsKeeps,
     UnregisterClientKeepsRequests, ReleaseRequestsKeeps, DropHandleKeeps,
     RemoveFromServiceRequestsKeeps
  DEF BeginClient, ContinueClient
<1>3. ASSUME NEW s \in Server, BeginServer(s) \/ ContinueServer(s)
      PROVE  RequestInv'
  BY Zenon, <1>3, ServerStepKeepsRequests DEF ServerStep
<1>4. ASSUME NEW b \in Bridge, BeginBridge(b) \/ ContinueBridge(b)
      PROVE  RequestInv'
  BY <1>4, RegisterBridgeKeeps, CreateRequestKeeps, MergeBridgeKeeps, StopRegistrationKeeps
  DEF BeginBridge, ContinueBridge
<1> QED
  BY <1>1, <1>2, <1>3, <1>4 DEF Next

LEMMA RequestsInvariant == Spec => []RequestInv
BY RequestInit, RequestStep, PTL DEF Spec

\* For any number of clients, servers and bridges: once no thread is inside the
\* runtime, a service that is requested has a Service_request of every
\* registered bridge (get_bridge_requests and register_bridge, which both call
\* request_service() with m_bridge_mutex released).
THEOREM RequestsAreEverywhere == Spec => []RequestAtEveryBridge
<1>1. ASSUME RequestInv PROVE RequestAtEveryBridge
  <2> SUFFICES ASSUME Quiet, NEW m \in ClientMinor, NEW b \in callbacks, requests[m].holders # {}
               PROVE  b \in requests[m].handles
    BY Zenon DEF RequestAtEveryBridge
  <2>1. b \in requests[m].handles \/ WillMeet(b, m) \/ \E c \in Client : WillForward(c, b, m)
    BY <1>1 DEF RequestInv, Pending
  <2>2. ~WillMeet(b, m)
    BY <1>1 DEF Quiet, WillMeet, RequestInv, TypeOK
  <2>3. \A c \in Client : ~WillForward(c, b, m)
    BY DEF Quiet, WillForward, Forwarding
  <2> QED
    BY Zenon, <2>1, <2>2, <2>3
<1> QED
  BY <1>1, RequestsInvariant, PTL

\* For any number of clients, servers and bridges: once no thread is inside the
\* runtime, no bridge asks its peer for a service whose last client connector is
\* gone; every handle made twice or for a request that ended meanwhile has been
\* destroyed (get_bridge_requests, register_bridge, stop_registration and the
\* registration handle of a client).
THEOREM InterestIsTakenBack == Spec => []InterestEnds
<1>1. ASSUME RequestInv PROVE InterestEnds
  <2> SUFFICES ASSUME Quiet, NEW m \in ClientMinor, requests[m].holders = {},
                      NEW b \in Bridge, m \in interest[b]
               PROVE  FALSE
    BY Zenon DEF InterestEnds
  <2>1. \/ b \in requests[m].handles
        \/ br[b].pc = "registering" /\ m \in br[b].result
        \/ \E c \in Client : HasHandle(c, b, m)
    BY <1>1 DEF RequestInv, Accounted
  <2>2. b \notin requests[m].handles
    BY <1>1 DEF RequestInv, Owners
  <2> QED
    BY Zenon, <2>1, <2>2 DEF Quiet, HasHandle, Forwarding
<1> QED
  BY <1>1, RequestsInvariant, PTL


-----------------------------------------------------------------------------
(* Connections: the steps.                                                  *)

\* At most one server connector of a service at a time: the record has room for
\* one, and a second one overwrites it (the assertion in register_connector()
\* says that this does not happen).
OneServer == \A s, t \in Server : s = t

\* The steps of a client that only bridges see.
BridgeStep(c) ==
    \/ GetBridgeRequests(c) \/ ForwardNext(c) \/ CreateValue(c) \/ StoreRequests(c)
    \/ ReleaseRequests(c) \/ DropHandle(c) \/ RemoveFromServiceRequests(c)

LEMMA BridgeStepMoves ==
    ASSUME TypeOK, NEW c \in Client, BridgeStep(c)
    PROVE  /\ UNCHANGED <<recordVars, conn, sv>>
           /\ \A d \in Client \ {c} : cl'[d] = cl[d]
           /\ cl[c].pc \notin {"server_update", "unregister"}
           /\ cl'[c].pc \notin {"server_update", "unregister"}
           /\ cl'[c].pc = "absent" \/ cl'[c].minor = cl[c].minor
<1>1. UNCHANGED <<recordVars, conn, sv>> /\ cl[c].pc \notin {"server_update", "unregister"}
  BY Zenon DEF BridgeStep, GetBridgeRequests, ForwardNext, CreateValue, StoreRequests, ReleaseRequests,
         DropHandle, RemoveFromServiceRequests
<1>2. cl[c] \in ClientState /\ cl \in [Client -> ClientState]
  BY DEF TypeOK
<1>3. CASE GetBridgeRequests(c)
  BY <1>1, <1>2, <1>3 DEF GetBridgeRequests, ClientState
<1>4. CASE ForwardNext(c)
  <2> PICK b \in cl[c].todo :
        \/ cl' = [cl EXCEPT ![c].pc = "create_value", ![c].todo = @ \ {b}, ![c].asking = b]
        \/ cl' = [cl EXCEPT ![c].todo = @ \ {b}]
    BY Zenon, <1>4 DEF ForwardNext
  <2> QED
    BY <1>1, <1>2, <1>4 DEF ForwardNext, ClientState
<1>5. CASE CreateValue(c)
  BY <1>1, <1>2, <1>5 DEF CreateValue, ClientState
<1>6. CASE StoreRequests(c)
  BY Zenon, <1>1, <1>2, <1>6 DEF StoreRequests, ClientState
<1>7. CASE ReleaseRequests(c)
  BY Zenon, <1>1, <1>2, <1>7 DEF ReleaseRequests, ClientState
<1>8. CASE DropHandle(c)
  BY <1>1, <1>2, <1>8 DEF DropHandle, ClientState
<1>9. CASE RemoveFromServiceRequests(c)
  BY Zenon, <1>1, <1>2, <1>9 DEF RemoveFromServiceRequests, ClientState, NoClient
<1> QED
  BY Zenon, <1>3, <1>4, <1>5, <1>6, <1>7, <1>8, <1>9 DEF BridgeStep

\* What a client is, as far as connections go, stays.
LEMMA BridgeStepKeepsMatch ==
    ASSUME RequestInv, RequestInv', MatchInv, NEW c \in Client, BridgeStep(c)
    PROVE  MatchInv'
<1>1. /\ UNCHANGED <<recordVars, conn, sv>>
      /\ \A d \in Client \ {c} : cl'[d] = cl[d]
      /\ cl[c].pc \notin {"server_update", "unregister"}
      /\ cl'[c].pc \notin {"server_update", "unregister"}
      /\ cl'[c].pc = "absent" \/ cl'[c].minor = cl[c].minor
  BY Zenon, BridgeStepMoves DEF RequestInv
<1>2. \A d \in Client : InRecord(d)' <=> InRecord(d)
  BY Zenon, <1>1 DEF RequestInv, Clients, recordVars
<1>3. \A d \in Client : InRecord(d) => cl'[d].minor = cl[d].minor
  BY Zenon, <1>1, <1>2 DEF InRecord, Forwarding
<1>4. \A d \in Client : cl'[d].pc \in {"server_update", "unregister"} <=>
                        cl[d].pc \in {"server_update", "unregister"}
  BY <1>1
<1>5. \A d \in Client : cl'[d].pc \in {"server_update", "unregister"} => cl'[d] = cl[d]
  BY <1>1
<1>6. Servers'
  <2>1. \A s \in Server : sv[s].client # None => sv[s].client \in Client
    BY Zenon DEF RequestInv, TypeOK, ServerState
  <2> QED
    BY Zenon, <1>1, <1>2, <1>5, <2>1 DEF MatchInv, Servers, Up, recordVars
<1>7. \A s \in Server : (Up(s)' <=> Up(s)) /\ (Open(s)' <=> Open(s))
  BY <1>1 DEF Up, Open
<1>8. \A s \in Server, d \in Client : InRecord(d) => (Match(s, d)' <=> Match(s, d))
  BY Zenon, <1>1, <1>3 DEF Match
<1>9. Connected'
  <2> SUFFICES ASSUME NEW d \in Client
               PROVE  /\ cl'[d].pc = "server_update" =>
                            /\ cl'[d].server \in Server
                            /\ \A s \in Server : s = cl'[d].server => Open(s)' /\ Match(s, d)'
                      /\ conn[d] # None =>
                            /\ InRecord(d)' /\ cl'[d].pc # "unregister"
                            /\ \A s \in Server : s = conn[d] => Open(s)' /\ Match(s, d)'
                      /\ \A s \in Server :
                            InRecord(d)' /\ cl'[d].pc \notin {"server_update", "unregister"}
                                /\ Up(s)' /\ Match(s, d)' => conn[d] = s \/ sv[s].client = d
    <3>1. \A d \in Client : conn[d] # None => conn[d] \in Server
      BY Zenon DEF RequestInv, TypeOK
    <3> QED
      BY Zenon, <1>1, <3>1 DEF Connected, Open, Up, Match
  <2>1. /\ cl[d].pc = "server_update" =>
              cl[d].server \in Server /\ Open(cl[d].server) /\ Match(cl[d].server, d)
        /\ conn[d] # None =>
              /\ InRecord(d) /\ cl[d].pc # "unregister"
              /\ Open(conn[d]) /\ Match(conn[d], d)
        /\ \A s \in Server :
              InRecord(d) /\ cl[d].pc \notin {"server_update", "unregister"} /\ Up(s) /\ Match(s, d) =>
                  conn[d] = s \/ sv[s].client = d
    BY Zenon DEF MatchInv, Connected
  <2>2. cl[d].pc = "server_update" => InRecord(d)
    BY Zenon DEF InRecord
  <2> QED
    BY Zenon, <1>2, <1>4, <1>5, <1>7, <1>8, <2>1, <2>2
<1> QED
  BY <1>6, <1>9 DEF MatchInv

\* Matching reads nothing of the bridges.
LEMMA ConnectorsUnmoved ==
    ASSUME MatchInv, UNCHANGED <<rec_server, rec_client, conn, cl, sv>>
    PROVE  MatchInv'
<1>1. \A c \in Client : InRecord(c)' <=> InRecord(c)
  BY Zenon DEF Forwarding, InRecord
<1>2. \A s \in Server : (Up(s)' <=> Up(s)) /\ (Open(s)' <=> Open(s))
  BY Zenon DEF Up, Open
<1>3. \A s \in Server, c \in Client : Match(s, c)' <=> Match(s, c)
  BY Zenon DEF Match
<1>4. Servers'
  BY Zenon DEF MatchInv, Servers, Up, InRecord, Forwarding
<1>5. Connected'
  <2>1. Connected
    BY Zenon DEF MatchInv
  <2>2. \A c \in Client : /\ Open(cl[c].server)' <=> Open(cl[c].server)
                          /\ Match(cl[c].server, c)' <=> Match(cl[c].server, c)
                          /\ Open(conn[c])' <=> Open(conn[c])
                          /\ Match(conn[c], c)' <=> Match(conn[c], c)
    BY Zenon DEF Open, Up, Match
  <2> QED
    BY Zenon, <1>1, <1>2, <1>3, <2>1, <2>2 DEF Connected
<1> QED
  BY <1>4, <1>5 DEF MatchInv

LEMMA BridgesKeepMatch ==
    ASSUME RequestInv, MatchInv, NEW b \in Bridge, BeginBridge(b) \/ ContinueBridge(b)
    PROVE  MatchInv'
<1>1. UNCHANGED <<recordVars, conn, cl, sv>>
  BY Zenon DEF BeginBridge, ContinueBridge, RegisterBridge, StopRegistration, CreateRequest, MergeBridge
<1> QED
  BY Zenon, <1>1, ConnectorsUnmoved DEF recordVars


\* Connected, for the client and the server it is about.
LEMMA ConnectedByName ==
    ASSUME TypeOK',
           \A d \in Client : cl'[d].pc = "server_update" => cl'[d].server \in Server,
           \A d \in Client, s \in Server :
              /\ cl'[d].pc = "server_update" /\ cl'[d].server = s => Open(s)' /\ Match(s, d)'
              /\ conn'[d] = s => InRecord(d)' /\ cl'[d].pc # "unregister" /\ Open(s)' /\ Match(s, d)'
              /\ InRecord(d)' /\ cl'[d].pc \notin {"server_update", "unregister"}
                    /\ Up(s)' /\ Match(s, d)' => conn'[d] = s \/ sv'[s].client = d
    PROVE  Connected'
<1>1. \A d \in Client : conn'[d] # None => conn'[d] \in Server
  BY Zenon DEF TypeOK
<1>2. \A d \in Client : cl'[d].pc = "server_update" =>
        cl'[d].server \in Server /\ Open(cl[d].server)' /\ Match(cl[d].server, d)'
  BY Zenon DEF Open, Up, Match
<1>3. \A d \in Client : conn'[d] # None =>
        InRecord(d)' /\ cl'[d].pc # "unregister" /\ Open(conn[d])' /\ Match(conn[d], d)'
  BY Zenon, <1>1 DEF Open, Up, Match
<1> QED
  BY Zenon, <1>2, <1>3 DEF Connected

LEMMA ByName ==
    ASSUME TypeOK, Connected
    PROVE  /\ \A d \in Client : cl[d].pc = "server_update" => cl[d].server \in Server
           /\ \A d \in Client, s \in Server :
              /\ cl[d].pc = "server_update" /\ cl[d].server = s => Open(s) /\ Match(s, d)
              /\ conn[d] = s => InRecord(d) /\ cl[d].pc # "unregister" /\ Open(s) /\ Match(s, d)
              /\ InRecord(d) /\ cl[d].pc \notin {"server_update", "unregister"} /\ Up(s) /\ Match(s, d) =>
                    conn[d] = s \/ sv[s].client = d
<1>1. \A d \in Client : cl[d].pc = "server_update" => cl[d].server \in Server
  BY Zenon DEF Connected
<1>2. \A d \in Client, s \in Server :
        cl[d].pc = "server_update" /\ cl[d].server = s => Open(s) /\ Match(s, d)
  BY Zenon DEF Connected
<1>3. \A d \in Client, s \in Server :
        conn[d] = s => InRecord(d) /\ cl[d].pc # "unregister" /\ Open(s) /\ Match(s, d)
  <2>1. \A s \in Server : s # None
    BY Zenon, NameAssumption
  <2> QED
    BY Zenon, <2>1 DEF Connected
<1>4. \A d \in Client, s \in Server :
        InRecord(d) /\ cl[d].pc \notin {"server_update", "unregister"} /\ Up(s) /\ Match(s, d) =>
            conn[d] = s \/ sv[s].client = d
  BY Zenon DEF Connected
<1> QED
  BY Zenon, <1>1, <1>2, <1>3, <1>4

LEMMA MakeClientKeepsMatch ==
    ASSUME RequestInv, RequestInv', MatchInv, NEW c \in Client, NEW m \in ClientMinor,
           MakeClient(c, m)
    PROVE  MatchInv'
<1>1. /\ OnlyClient(c) /\ cl'[c].minor = m /\ cl'[c].server = rec_server
      /\ cl[c].pc = "absent" /\ rec_client = None /\ rec_client' = c
      /\ cl'[c].pc \in {"bridge", "server_update", "live"}
      /\ cl'[c].pc = "bridge" <=> rec_server = None
      /\ cl'[c].pc = "server_update" => Compatible(sv[rec_server].minor, m)
      /\ cl'[c].pc = "live" => ~Compatible(sv[rec_server].minor, m)
      /\ UNCHANGED <<rec_server, bridgeVars, conn, sv>>
  BY Zenon, MakeClientMoves DEF RequestInv
<1>2. \A d \in Client \ {c} : cl'[d] = cl[d] /\ ~InRecord(d) /\ ~InRecord(d)'
  BY Zenon, <1>1, NameAssumption DEF RequestInv, Clients, OnlyClient
<1>3. ~InRecord(c) /\ conn[c] = None /\ \A s \in Server : sv[s].client # c
  <2>1. ~InRecord(c)
    BY Zenon, <1>1 DEF InRecord, Forwarding
  <2>2. conn[c] = None
    BY Zenon, <2>1 DEF MatchInv, Connected
  <2>3. \A s \in Server : sv[s].client # c
    BY Zenon, <2>1, NameAssumption DEF MatchInv, Servers
  <2> QED
    BY Zenon, <2>1, <2>2, <2>3
<1>4. \A s \in Server : (Up(s)' <=> Up(s)) /\ (Open(s)' <=> Open(s)) /\ (Up(s) => Open(s))
  BY Zenon, <1>1 DEF Up, Open
<1>5. Servers'
  <2>1. \A s \in Server : sv[s].client = None
    BY Zenon, <1>2, <1>3 DEF MatchInv, Servers, RequestInv, TypeOK, ServerState
  <2> QED
    BY Zenon, <1>1, <1>4, <2>1 DEF MatchInv, Servers
<1>6. rec_server # None => rec_server \in Server /\ Up(rec_server)
  BY Zenon DEF RequestInv, TypeOK, MatchInv, Servers
<1>7. \A s \in Server : Up(s) => rec_server = s
  BY Zenon DEF MatchInv, Servers
<1>8. \A d \in Client, s \in Server : conn[d] # s
  BY Zenon, <1>2, <1>3, ByName DEF RequestInv, MatchInv
<1>9. \A d \in Client : cl'[d].pc = "server_update" => d = c
  BY Zenon, <1>2 DEF InRecord
<1>10. \A s \in Server : Match(s, c)' <=> Compatible(sv[s].minor, m)
  BY Zenon, <1>1 DEF Match
<1>11. \A d \in Client : cl'[d].pc = "server_update" => cl'[d].server \in Server
  BY Zenon, <1>1, <1>6, <1>9
<1>12. ASSUME NEW d \in Client, NEW s \in Server
       PROVE  /\ cl'[d].pc = "server_update" /\ cl'[d].server = s => Open(s)' /\ Match(s, d)'
              /\ conn'[d] # s
              /\ ~(InRecord(d)' /\ cl'[d].pc \notin {"server_update", "unregister"}
                    /\ Up(s)' /\ Match(s, d)')
  <2>1. cl'[d].pc = "server_update" /\ cl'[d].server = s => Open(s)' /\ Match(s, d)'
    BY Zenon, <1>1, <1>4, <1>6, <1>9, <1>10
  <2>2. conn'[d] # s
    BY Zenon, <1>1, <1>8
  <2>3. ASSUME InRecord(d)', cl'[d].pc \notin {"server_update", "unregister"}, Up(s)', Match(s, d)'
        PROVE  FALSE
    <3>1. d = c /\ rec_server = s
      BY Zenon, <1>2, <1>4, <1>7, <2>3
    <3>2. cl'[c].pc = "live"
      BY Zenon, <1>1, <2>3, <3>1, NameAssumption
    <3> QED
      BY Zenon, <1>1, <1>10, <2>3, <3>1, <3>2
  <2> QED
    BY Zenon, <2>1, <2>2, <2>3
<1>13. Connected'
  BY Zenon, <1>11, <1>12, ConnectedByName DEF RequestInv
<1> QED
  BY <1>5, <1>13 DEF MatchInv

LEMMA ServerUpdateKeepsMatch ==
    ASSUME OneServer, RequestInv, RequestInv', MatchInv, NEW c \in Client, ServerUpdate(c)
    PROVE  MatchInv'
<1>1. /\ OnlyClient(c) /\ cl[c].pc = "server_update" /\ cl'[c].pc = "live"
      /\ cl'[c].minor = cl[c].minor /\ UNCHANGED <<recordVars, bridgeVars, sv>>
  BY Zenon, ServerUpdateMoves DEF RequestInv
<1>2. \A d \in Client : InRecord(d)' <=> InRecord(d)
  BY Zenon, <1>1 DEF RequestInv, Clients, recordVars
<1>3. \A d \in Client : d # c => cl'[d] = cl[d] /\ conn'[d] = conn[d]
  BY <1>1 DEF OnlyClient, ServerUpdate, RequestInv, TypeOK
<1>4. InRecord(c)
  BY Zenon, <1>1 DEF InRecord
<1>5. \A s \in Server : (Up(s)' <=> Up(s)) /\ (Open(s)' <=> Open(s)) /\ (Up(s) => Open(s))
  BY Zenon, <1>1 DEF Up, Open
<1>6. \A d \in Client, s \in Server : Match(s, d)' <=> Match(s, d)
  BY Zenon, <1>1, <1>3 DEF Match
<1>7. cl[c].server \in Server /\ Open(cl[c].server) /\ Match(cl[c].server, c)
  BY Zenon, <1>1 DEF MatchInv, Connected
<1>8. conn'[c] = IF sv[cl[c].server].pc = "stopping" THEN conn[c] ELSE cl[c].server
  BY DEF ServerUpdate, RequestInv, TypeOK
<1>9. Servers'
  <2>1. \A s \in Server : sv[s].client # None => sv[s].client \in Client
    BY Zenon DEF RequestInv, TypeOK, ServerState
  <2>2. \A d \in Client : cl[d].pc # "unregister" => cl'[d].pc # "unregister"
    BY Zenon, <1>1, <1>3
  <2> QED
    BY Zenon, <1>1, <1>2, <1>5, <2>1, <2>2 DEF MatchInv, Servers, recordVars
<1>10. \A d \in Client : cl'[d].pc = "server_update" => cl'[d] = cl[d] /\ cl[d].server \in Server
  BY Zenon, <1>1, <1>3 DEF MatchInv, Connected
<1>11. ASSUME NEW d \in Client, NEW s \in Server
       PROVE  /\ cl'[d].pc = "server_update" /\ cl'[d].server = s => Open(s)' /\ Match(s, d)'
              /\ conn'[d] = s => InRecord(d)' /\ cl'[d].pc # "unregister" /\ Open(s)' /\ Match(s, d)'
              /\ InRecord(d)' /\ cl'[d].pc \notin {"server_update", "unregister"}
                    /\ Up(s)' /\ Match(s, d)' => conn'[d] = s \/ sv'[s].client = d
  <2>1. /\ cl[d].pc = "server_update" /\ cl[d].server = s => Open(s) /\ Match(s, d)
        /\ conn[d] = s => InRecord(d) /\ cl[d].pc # "unregister" /\ Open(s) /\ Match(s, d)
        /\ InRecord(d) /\ cl[d].pc \notin {"server_update", "unregister"} /\ Up(s) /\ Match(s, d) =>
              conn[d] = s \/ sv[s].client = d
    BY Zenon, ByName DEF RequestInv, MatchInv
  <2>2. CASE d # c
    BY Zenon, <1>1, <1>2, <1>3, <1>5, <1>6, <2>1, <2>2
  <2>3. CASE d = c
    <3>1. s = cl[c].server
      BY Zenon, <1>7 DEF OneServer
    <3>2. Up(s) => conn'[c] = s
      BY Zenon, <1>8, <3>1 DEF Up
    <3> QED
      BY Zenon, <1>1, <1>2, <1>4, <1>5, <1>6, <1>7, <2>3, <3>1, <3>2
  <2> QED
    BY Zenon, <2>2, <2>3
<1>12. Connected'
  BY Zenon, <1>10, <1>11, ConnectedByName DEF RequestInv
<1> QED
  BY Zenon, <1>9, <1>12 DEF MatchInv

LEMMA CloseClientKeepsMatch ==
    ASSUME RequestInv, RequestInv', MatchInv, NEW c \in Client, CloseClient(c)
    PROVE  MatchInv'
<1>1. /\ OnlyClient(c) /\ cl[c].pc = "live" /\ cl'[c].pc = "unregister"
      /\ cl'[c].minor = cl[c].minor /\ UNCHANGED <<recordVars, bridgeVars>>
  BY Zenon, CloseClientMoves DEF RequestInv
<1>2. \A d \in Client : InRecord(d)' <=> InRecord(d)
  BY Zenon, <1>1 DEF RequestInv, Clients, recordVars
<1>3. \A d \in Client : d # c => cl'[d] = cl[d] /\ conn'[d] = conn[d]
  BY <1>1 DEF OnlyClient, CloseClient, RequestInv, TypeOK
<1>4. conn'[c] = None
  BY DEF CloseClient, RequestInv, TypeOK
<1>5. \A s \in Server : /\ sv'[s].pc = sv[s].pc /\ sv'[s].minor = sv[s].minor
                        /\ sv'[s].client = IF sv[s].client = c THEN None ELSE sv[s].client
  BY DEF CloseClient, RequestInv, TypeOK, ServerState
<1>6. \A s \in Server : (Up(s)' <=> Up(s)) /\ (Open(s)' <=> Open(s))
  BY Zenon, <1>5 DEF Up, Open
<1>7. \A d \in Client, s \in Server : Match(s, d)' <=> Match(s, d)
  BY Zenon, <1>1, <1>3, <1>5 DEF Match
<1>8. Servers'
  <2>1. \A s \in Server : sv[s].client # None => sv[s].client \in Client
    BY Zenon DEF RequestInv, TypeOK, ServerState
  <2>2. \A s \in Server : Up(s)' <=> rec_server' = s
    BY Zenon, <1>1, <1>6 DEF MatchInv, Servers, recordVars
  <2>3. ASSUME NEW s \in Server, sv'[s].client # None
        PROVE  /\ sv'[s].pc = "connect_client"
               /\ cl'[sv'[s].client].pc \in
                     {"forward", "create_value", "server_update", "bridge", "live"}
    <3>1. PICK d \in Client : d = sv[s].client
      BY Zenon, <1>5, <2>1, <2>3
    <3>2. d # c /\ sv'[s].client = d /\ cl'[d] = cl[d] /\ sv'[s].pc = sv[s].pc
      BY Zenon, <1>3, <1>5, <2>3, <3>1
    <3>3. sv[s].pc = "connect_client" /\ InRecord(d) /\ cl[d].pc # "unregister"
      BY Zenon, <2>3, <3>1, <3>2 DEF MatchInv, Servers
    <3> QED
      BY Zenon, <3>2, <3>3 DEF InRecord, Forwarding
  <2> QED
    BY Zenon, <2>2, <2>3 DEF Servers, InRecord, Forwarding
<1>9. \A d \in Client : cl'[d].pc = "server_update" => cl'[d] = cl[d] /\ cl[d].server \in Server
  BY Zenon, <1>1, <1>3 DEF MatchInv, Connected
<1>10. ASSUME NEW d \in Client, NEW s \in Server
       PROVE  /\ cl'[d].pc = "server_update" /\ cl'[d].server = s => Open(s)' /\ Match(s, d)'
              /\ conn'[d] = s => InRecord(d)' /\ cl'[d].pc # "unregister" /\ Open(s)' /\ Match(s, d)'
              /\ InRecord(d)' /\ cl'[d].pc \notin {"server_update", "unregister"}
                    /\ Up(s)' /\ Match(s, d)' => conn'[d] = s \/ sv'[s].client = d
  <2>1. /\ cl[d].pc = "server_update" /\ cl[d].server = s => Open(s) /\ Match(s, d)
        /\ conn[d] = s => InRecord(d) /\ cl[d].pc # "unregister" /\ Open(s) /\ Match(s, d)
        /\ InRecord(d) /\ cl[d].pc \notin {"server_update", "unregister"} /\ Up(s) /\ Match(s, d) =>
              conn[d] = s \/ sv[s].client = d
    BY Zenon, ByName DEF RequestInv, MatchInv
  <2>2. CASE d # c
    BY Zenon, <1>2, <1>3, <1>5, <1>6, <1>7, <2>1, <2>2
  <2>3. CASE d = c
    BY Zenon, <1>1, <1>4, <2>3, NameAssumption
  <2> QED
    BY Zenon, <2>2, <2>3
<1>11. Connected'
  BY Zenon, <1>9, <1>10, ConnectedByName DEF RequestInv
<1> QED
  BY <1>8, <1>11 DEF MatchInv

LEMMA UnregisterClientKeepsMatch ==
    ASSUME RequestInv, RequestInv', MatchInv, NEW c \in Client, UnregisterClient(c)
    PROVE  MatchInv'
<1>1. /\ OnlyClient(c) /\ cl[c].pc = "unregister" /\ cl'[c].pc \in {"release", "absent"}
      /\ rec_client' = None /\ UNCHANGED <<rec_server, bridgeVars, conn, sv>>
  BY Zenon, UnregisterClientMoves DEF RequestInv
<1>2. \A d \in Client : d # c => cl'[d] = cl[d]
  BY Zenon, <1>1 DEF OnlyClient
<1>3. \A d \in Client : ~InRecord(d)' /\ (d # c => ~InRecord(d))
  <2>1. rec_client = c
    BY Zenon, <1>1 DEF RequestInv, Clients, InRecord
  <2> QED
    BY Zenon, <1>1, <2>1, NameAssumption DEF RequestInv, Clients
<1>4. \A s \in Server : (Up(s)' <=> Up(s)) /\ sv[s].client = None
  BY Zenon, <1>1, <1>3 DEF Up, MatchInv, Servers, RequestInv, TypeOK, ServerState
<1>5. Servers'
  BY Zenon, <1>1, <1>4 DEF MatchInv, Servers
<1>6. \A d \in Client, s \in Server : conn[d] # s
  BY Zenon, <1>1, <1>3, ByName DEF RequestInv, MatchInv
<1>7. \A d \in Client : cl'[d].pc # "server_update"
  BY Zenon, <1>3 DEF InRecord
<1>8. Connected'
  BY Zenon, <1>1, <1>3, <1>6, <1>7, ConnectedByName DEF RequestInv
<1> QED
  BY <1>5, <1>8 DEF MatchInv


\* A server that nobody is connected to.
LEMMA ClosedServer ==
    ASSUME OneServer, RequestInv, MatchInv, NEW s \in Server, ~Open(s)
    PROVE  /\ sv[s].client = None /\ rec_server # s
           /\ \A d \in Client : conn[d] = None /\ cl[d].pc # "server_update"
<1>1. ~Up(s) /\ sv[s].client = None /\ rec_server # s
  BY Zenon DEF Open, Up, MatchInv, Servers
<1>2. \A d \in Client : conn[d] = None
  <2> SUFFICES ASSUME NEW d \in Client, conn[d] # None
               PROVE  FALSE
    OBVIOUS
  <2>1. conn[d] \in Server /\ Open(conn[d])
    BY Zenon DEF RequestInv, TypeOK, MatchInv, Connected
  <2> QED
    BY Zenon, <2>1 DEF OneServer
<1>3. \A d \in Client : cl[d].pc # "server_update"
  BY Zenon DEF OneServer, MatchInv, Connected
<1> QED
  BY Zenon, <1>1, <1>2, <1>3

\* A server connector is made or destroyed.
LEMMA ClosedKeepsMatch ==
    ASSUME OneServer, RequestInv, RequestInv', MatchInv, NEW s \in Server,
           (\E m \in ServerMinor : MakeServer(s, m)) \/ DestroyServer(s)
    PROVE  MatchInv'
<1>1. /\ OnlyServer(s) /\ sv[s].pc \in {"absent", "disabled"} /\ sv'[s].pc \in {"absent", "disabled"}
      /\ sv'[s].client = None \/ sv'[s].client = sv[s].client
      /\ UNCHANGED <<rec_server, rec_client, bridgeVars, conn, cl>>
  BY Zenon, MakeServerMoves, DestroyServerMoves DEF RequestInv
<1>2. ~Open(s) /\ ~Open(s)' /\ ~Up(s)' /\ \A t \in Server : t = s
  BY Zenon, <1>1 DEF Open, Up, OneServer
<1>3. /\ sv[s].client = None /\ rec_server # s
      /\ \A d \in Client : conn[d] = None /\ cl[d].pc # "server_update"
  BY Zenon, <1>2, ClosedServer
<1>4. Servers'
  BY Zenon, <1>1, <1>2, <1>3 DEF Servers
<1>5. Connected'
  BY Zenon, <1>1, <1>2, <1>3 DEF Connected
<1> QED
  BY <1>4, <1>5 DEF MatchInv

LEMMA RegisterServerKeepsMatch ==
    ASSUME OneServer, RequestInv, RequestInv', MatchInv, NEW s \in Server, RegisterServer(s)
    PROVE  MatchInv'
<1>1. /\ OnlyServer(s) /\ sv[s].pc = "disabled" /\ rec_server' = s
      /\ sv'[s].pc \in {"enabled", "connect_client"}
      /\ sv'[s].pc = "enabled" <=> rec_client = None
      /\ rec_client \in Client /\ cl[rec_client].pc # "unregister" => sv'[s].client = rec_client
      /\ sv'[s].client # None =>
           sv'[s].client = rec_client /\ rec_client \in Client /\ cl[rec_client].pc # "unregister"
      /\ UNCHANGED <<rec_client, bridgeVars, conn, cl>>
  BY Zenon, RegisterServerMoves DEF RequestInv
<1>2. ~Open(s) /\ Up(s)' /\ \A t \in Server : t = s
  BY Zenon, <1>1 DEF Open, Up, OneServer
<1>3. \A d \in Client : conn[d] = None /\ cl[d].pc # "server_update"
  BY Zenon, <1>2, ClosedServer
<1>4. \A d \in Client : (InRecord(d)' <=> InRecord(d)) /\ (InRecord(d) <=> rec_client = d)
  BY Zenon, <1>1 DEF RequestInv, Clients
<1>5. Servers'
  <2>1. sv'[s].client # None => sv'[s].pc = "connect_client"
    BY Zenon, <1>1, NameAssumption
  <2>2. \A d \in Client : sv'[s].client = d => InRecord(d)' /\ cl'[d].pc # "unregister"
    BY Zenon, <1>1, <1>4, NameAssumption
  <2>3. sv'[s].client \in Client \cup {None}
    BY Zenon DEF RequestInv, TypeOK, ServerState
  <2> QED
    BY Zenon, <1>1, <1>2, <2>1, <2>2, <2>3 DEF Servers, InRecord, Forwarding
<1>6. Connected'
  BY Zenon, <1>1, <1>2, <1>3, <1>4 DEF Connected
<1> QED
  BY <1>5, <1>6 DEF MatchInv

LEMMA ConnectClientKeepsMatch ==
    ASSUME OneServer, RequestInv, RequestInv', MatchInv, NEW s \in Server, ConnectClient(s)
    PROVE  MatchInv'
<1>1. /\ OnlyServer(s) /\ sv[s].pc = "connect_client" /\ sv'[s].pc = "enabled"
      /\ sv'[s].minor = sv[s].minor /\ sv'[s].client = None
      /\ \A d \in Client : conn'[d] = IF d = sv[s].client /\ Match(s, d) THEN s ELSE conn[d]
      /\ UNCHANGED <<recordVars, bridgeVars, cl>>
  BY Zenon, ConnectClientMoves DEF RequestInv
<1>2. Up(s) /\ Up(s)' /\ Open(s)' /\ \A t \in Server : t = s
  BY Zenon, <1>1 DEF Up, Open, OneServer
<1>3. \A d \in Client : (InRecord(d)' <=> InRecord(d)) /\ (Match(s, d)' <=> Match(s, d))
  BY Zenon, <1>1 DEF InRecord, Forwarding, Match
<1>4. Servers'
  BY Zenon, <1>1, <1>2 DEF MatchInv, Servers, recordVars
<1>5. \A d \in Client : cl'[d].pc = "server_update" => cl'[d].server \in Server
  BY Zenon, <1>1 DEF MatchInv, Connected
<1>6. ASSUME NEW d \in Client, NEW t \in Server
      PROVE  /\ cl'[d].pc = "server_update" /\ cl'[d].server = t => Open(t)' /\ Match(t, d)'
             /\ conn'[d] = t => InRecord(d)' /\ cl'[d].pc # "unregister" /\ Open(t)' /\ Match(t, d)'
             /\ InRecord(d)' /\ cl'[d].pc \notin {"server_update", "unregister"}
                   /\ Up(t)' /\ Match(t, d)' => conn'[d] = t \/ sv'[t].client = d
  <2>1. t = s
    BY Zenon, <1>2
  <2>2. /\ cl[d].pc = "server_update" /\ cl[d].server = s => Open(s) /\ Match(s, d)
        /\ conn[d] = s => InRecord(d) /\ cl[d].pc # "unregister" /\ Open(s) /\ Match(s, d)
        /\ InRecord(d) /\ cl[d].pc \notin {"server_update", "unregister"} /\ Up(s) /\ Match(s, d) =>
              conn[d] = s \/ sv[s].client = d
    BY Zenon, ByName DEF RequestInv, MatchInv
  <2>3. d = sv[s].client => InRecord(d) /\ cl[d].pc # "unregister"
    BY Zenon, NameAssumption DEF MatchInv, Servers
  <2> QED
    BY Zenon, <1>1, <1>2, <1>3, <2>1, <2>2, <2>3
<1>7. Connected'
  BY Zenon, <1>5, <1>6, ConnectedByName DEF RequestInv
<1> QED
  BY <1>4, <1>7 DEF MatchInv

LEMMA StopServerKeepsMatch ==
    ASSUME OneServer, RequestInv, RequestInv', MatchInv, NEW s \in Server,
           UnregisterServer(s) \/ ResetTokens(s) \/ StopClients(s)
    PROVE  MatchInv'
<1>1. /\ OnlyServer(s) /\ sv'[s].minor = sv[s].minor /\ sv'[s].client = sv[s].client
      /\ sv[s].pc \in {"enabled", "unregistered", "stopping"}
      /\ sv'[s].pc = CASE sv[s].pc = "enabled" -> "unregistered"
                       [] sv[s].pc = "unregistered" -> "stopping"
                       [] OTHER -> "disabled"
      /\ UNCHANGED <<rec_client, bridgeVars, cl>>
  BY StopServerMoves DEF RequestInv
<1>2. /\ sv'[s].pc \in {"unregistered", "stopping", "disabled"}
      /\ sv'[s].pc = "disabled" => sv[s].pc = "stopping"
      /\ \A t \in Server : t = s
  BY <1>1 DEF OneServer
<1>3. ~Up(s)' /\ sv[s].client = None /\ rec_server' # s
  <2>1. ~Up(s)' /\ sv[s].client = None
    BY <1>1, <1>2 DEF Up, MatchInv, Servers
  <2>2. CASE UnregisterServer(s)
    BY <2>1, <2>2, NameAssumption DEF UnregisterServer
  <2>3. CASE ResetTokens(s) \/ StopClients(s)
    BY <2>1, <2>3 DEF ResetTokens, StopClients, recordVars, Up, MatchInv, Servers
  <2> QED
    BY Zenon, <2>1, <2>2, <2>3
<1>4. Servers'
  BY <1>1, <1>2, <1>3 DEF Servers
<1>5. CASE UnregisterServer(s) \/ ResetTokens(s)
  <2>1. UNCHANGED <<conn, cl>>
    BY <1>5 DEF UnregisterServer, ResetTokens
  <2>2. Open(s)'
    BY <1>1, <1>5 DEF Open, UnregisterServer, ResetTokens
  <2>3. \A d \in Client : (InRecord(d)' <=> InRecord(d)) /\ (Match(s, d)' <=> Match(s, d))
    BY <1>1 DEF InRecord, Forwarding, Match
  <2>4. \A d \in Client : cl'[d].pc = "server_update" => cl'[d].server \in Server
    BY Zenon, <2>1 DEF MatchInv, Connected
  <2>5. ASSUME NEW d \in Client, NEW t \in Server
        PROVE  /\ cl'[d].pc = "server_update" /\ cl'[d].server = t => Open(t)' /\ Match(t, d)'
               /\ conn'[d] = t => InRecord(d)' /\ cl'[d].pc # "unregister" /\ Open(t)' /\ Match(t, d)'
               /\ ~Up(t)'
    <3>1. t = s
      BY Zenon, <1>2
    <3>2. /\ cl[d].pc = "server_update" /\ cl[d].server = s => Open(s) /\ Match(s, d)
          /\ conn[d] = s => InRecord(d) /\ cl[d].pc # "unregister" /\ Open(s) /\ Match(s, d)
      BY Zenon, ByName DEF RequestInv, MatchInv
    <3> QED
      BY Zenon, <1>3, <2>1, <2>2, <2>3, <3>1, <3>2
  <2>6. Connected'
    BY Zenon, <2>4, <2>5, ConnectedByName DEF RequestInv
  <2> QED
    BY <1>4, <2>6 DEF MatchInv
<1>6. CASE StopClients(s)
  <2>1. \A d \in Client : conn'[d] = None
    BY <1>2, <1>6 DEF StopClients, RequestInv, TypeOK
  <2>2. \A d \in Client : cl[d].pc # "server_update"
    BY <1>2, <1>6 DEF StopClients, MatchInv, Connected
  <2>3. Connected'
    BY <1>1, <1>2, <1>3, <2>1, <2>2 DEF Connected
  <2> QED
    BY <1>4, <2>3 DEF MatchInv
<1> QED
  BY Zenon, <1>5, <1>6

-----------------------------------------------------------------------------
(* Connections: the theorem.                                                *)

LEMMA MatchInit ==
    ASSUME Init
    PROVE  MatchInv
BY Zenon, NameAssumption
DEF Init, MatchInv, Servers, Connected, NoClient, NoServer, Up, Open, InRecord, Forwarding

LEMMA MatchStep ==
    ASSUME OneServer, RequestInv, RequestInv', MatchInv, [Next]_vars
    PROVE  MatchInv'
<1>1. CASE UNCHANGED vars
  BY Zenon, <1>1, ConnectorsUnmoved DEF vars, recordVars
<1>2. ASSUME NEW c \in Client, BeginClient(c) \/ ContinueClient(c)
      PROVE  MatchInv'
  BY Zenon, <1>2, MakeClientKeepsMatch, CloseClientKeepsMatch, ServerUpdateKeepsMatch,
     UnregisterClientKeepsMatch, BridgeStepKeepsMatch
  DEF BeginClient, ContinueClient, BridgeStep
<1>3. ASSUME NEW s \in Server, BeginServer(s) \/ ContinueServer(s)
      PROVE  MatchInv'
  BY Zenon, <1>3, ClosedKeepsMatch, RegisterServerKeepsMatch, ConnectClientKeepsMatch, StopServerKeepsMatch
  DEF BeginServer, ContinueServer
<1>4. ASSUME NEW b \in Bridge, BeginBridge(b) \/ ContinueBridge(b)
      PROVE  MatchInv'
  BY <1>4, BridgesKeepMatch
<1> QED
  BY Zenon, <1>1, <1>2, <1>3, <1>4 DEF Next

\* For any number of clients and bridges and any minor versions, with one server
\* connector at a time: a client is only ever connected to a compatible server
\* that is enabled or still informs its clients, and once no thread is inside
\* the runtime a client and a server in the record are connected if and only if
\* they are compatible (register_connector, both overloads).
THEOREM ConnectorsAreMatched ==
    ASSUME OneServer
    PROVE  Spec => []Matched
<1>1. ASSUME RequestInv, MatchInv PROVE Matched
  <2>1. ASSUME NEW c \in Client, conn[c] # None
        PROVE  /\ Compatible(sv[conn[c]].minor, cl[c].minor)
               /\ sv[conn[c]].pc \in {"connect_client", "enabled", "unregistered", "stopping"}
    BY Zenon, <1>1, <2>1 DEF MatchInv, Connected, Open, Up, Match
  <2>2. ASSUME Quiet, rec_client # None
        PROVE  conn[rec_client] = IF rec_server # None
                                     /\ Compatible(sv[rec_server].minor, cl[rec_client].minor)
                                  THEN rec_server ELSE None
    <3> DEFINE c == rec_client
    <3>1. c \in Client /\ InRecord(c) /\ cl[c].pc \notin {"server_update", "unregister"}
      BY Zenon, <1>1, <2>2 DEF RequestInv, TypeOK, Clients, Quiet
    <3>2. \A s \in Server : sv[s].client = None
      BY Zenon, <1>1, <2>2 DEF MatchInv, Servers, Quiet
    <3>3. \A s \in Server : Up(s) <=> rec_server = s
      BY Zenon, <1>1 DEF MatchInv, Servers
    <3>4. CASE rec_server # None /\ Compatible(sv[rec_server].minor, cl[c].minor)
      <4>1. rec_server \in Server /\ Up(rec_server) /\ Match(rec_server, c)
        BY Zenon, <1>1, <3>3, <3>4 DEF RequestInv, TypeOK, Match
      <4>2. conn[c] = rec_server \/ sv[rec_server].client = c
        BY Zenon, <1>1, <3>1, <4>1 DEF MatchInv, Connected
      <4> QED
        BY Zenon, <2>2, <3>2, <3>4, <4>1, <4>2
    <3>5. CASE ~(rec_server # None /\ Compatible(sv[rec_server].minor, cl[c].minor))
      <4>1. ASSUME conn[c] # None PROVE FALSE
        <5>1. conn[c] \in Server /\ Open(conn[c]) /\ Match(conn[c], c)
          BY Zenon, <1>1, <3>1, <4>1 DEF RequestInv, TypeOK, MatchInv, Connected
        <5>2. Up(conn[c])
          BY Zenon, <2>2, <5>1 DEF Quiet, Open, Up
        <5>3. rec_server = conn[c]
          BY Zenon, <3>3, <5>1, <5>2
        <5> QED
          BY Zenon, <3>5, <4>1, <5>1, <5>3 DEF Match
      <4> QED
        BY Zenon, <3>5, <4>1
    <3> QED
      BY Zenon, <3>4, <3>5
  <2> QED
    BY Zenon, <2>1, <2>2 DEF Matched
<1>2. Spec => [](RequestInv /\ MatchInv)
  BY RequestInit, RequestStep, MatchInit, MatchStep, PTL DEF Spec
<1> QED
  BY <1>1, <1>2, PTL
=============================================================================
