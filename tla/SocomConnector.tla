--------------------------- MODULE SocomConnector ---------------------------
(***************************************************************************)
(* SOCom connectors of one service in one process: a server connector      *)
(* (socom/impl/server_connector_impl.cpp), client connectors               *)
(* (client_connector_impl.cpp) and the Service_record that introduces them. *)
(*                                                                         *)
(* Threads.  "server" enables and disables the server connector, "events"  *)
(* publishes events and answers method calls, and each client connector    *)
(* has a thread that creates, uses and destroys it.  Callbacks run in the  *)
(* thread that causes them.  A critical section is one step, and so is a   *)
(* callback; m_mutex of a client is held across steps only while m_server  *)
(* is reset, which may run remove_client() of the server connector.        *)
(*                                                                         *)
(* Tokens.  The code blocks disable() and the destructor with shared       *)
(* pointers: the last owner to let go fulfils the promise waited for.  A   *)
(* token is the set of its owners here, and fulfilled when it is empty.    *)
(*                                                                         *)
(* Applications.  Calls on one client connector come one at a time, from   *)
(* its thread or from its availability callback.  No callback destroys the *)
(* connector it belongs to (client_connector.hpp:88, server_connector.hpp: *)
(* 82 forbid it).  Versions and bridges are in SocomRuntime.               *)
(***************************************************************************)
EXTENDS FiniteSets

CONSTANTS Client, Event,
          OverlappingClients   \* may a client connector be made while the
                               \* destructor of another one is waiting?

None == "none"
Thread == {"server", "events"} \cup Client
Call == {"subscribe", "subscribe_field", "unsubscribe", "request_update", "call_method"}

\* No client has the name of a thread or of another owner of a token.
ASSUME NameAssumption ==
    Client \cap {None, "server", "events", "member", "record", "connection"} = {}
ASSUME OverlapAssumption == OverlappingClients \in BOOLEAN

VARIABLES
    \* Service_record
    rec_server,    \* m_server is set
    rec_client,    \* m_client
    \* server connector
    server,        \* disabled, enabling, enabled, disabling
    stop,          \* owners of m_stop_block_token
    all,           \* owners of m_all_clients_disconnected_block_token
    m_client,      \* the connected client
    subscriber, update_requester,   \* per event
    \* client connectors
    client,        \* absent, constructing, live, destructing
    token,         \* owners of a client's m_stop_block_token
    link,          \* owners of the reference token of its connection; the
                   \* member is m_server
    mutex,         \* the thread that holds m_mutex across steps
    reply,         \* a method call of the client is unanswered
    \* what the applications were told
    seen,          \* last on_service_state_change per client
    told,          \* last on_event_subscription_change per event
    asked,         \* on_event_update_request not answered yet
    \* threads
    th             \* [pc, on, op, event, todo, ask, ret]

recordVars == <<rec_server, rec_client>>
serverVars == <<server, stop, all, m_client, subscriber, update_requester>>
clientVars == <<client, token, link, mutex, reply>>
appVars == <<seen, told, asked>>
vars == <<recordVars, serverVars, clientVars, appVars, th>>

IdleThread == [pc |-> "idle", on |-> None, op |-> None, event |-> None,
               todo |-> {}, ask |-> FALSE, ret |-> "idle"]

Init ==
    /\ rec_server = FALSE /\ rec_client = None
    /\ server = "disabled" /\ stop = {} /\ all = {} /\ m_client = None
    /\ subscriber = [e \in Event |-> None]
    /\ update_requester = [e \in Event |-> None]
    /\ client = [c \in Client |-> "absent"]
    /\ token = [c \in Client |-> {}]
    /\ link = [c \in Client |-> {}]
    /\ mutex = [c \in Client |-> None]
    /\ reply = [c \in Client |-> FALSE]
    /\ seen = [c \in Client |-> "not_available"]
    /\ told = [e \in Event |-> FALSE]
    /\ asked = [e \in Event |-> FALSE]
    /\ th = [t \in Thread |-> IdleThread]

At(t, p) == th[t].pc = p
Go(t, p) == th' = [th EXCEPT ![t].pc = p]
Back(t) == th' = [th EXCEPT ![t] = IdleThread]

Own(f, c, o) == [f EXCEPT ![c] = @ \cup {o}]
Disown(f, c, o) == [f EXCEPT ![c] = @ \ {o}]

-----------------------------------------------------------------------------
(* Letting go of a connection.                                              *)

\* Owner o of c's reference token lets go in thread t, which goes on at p. The
\* last owner runs the token's action, remove_client(), first.
LetGo(t, c, o, p) ==
    /\ link' = Disown(link, c, o)
    /\ th' = [th EXCEPT ![t] =
                IF link[c] = {o}
                THEN [@ EXCEPT !.pc = "unsubscribe", !.todo = Event, !.ret = p, !.on = c,
                               !.op = None]
                ELSE IF p = "idle" THEN IdleThread ELSE [@ EXCEPT !.pc = p, !.on = c]]

\* m_server.reset() under m_mutex, in the destructor and on not_available: the
\* mutex stays locked while remove_client() runs.
ResetServer(t, c, p) ==
    IF "member" \in link[c]
    THEN /\ LetGo(t, c, "member", p)
         /\ mutex' = [mutex EXCEPT ![c] = IF link[c] = {"member"} THEN t ELSE None]
    ELSE /\ th' = [th EXCEPT ![t].pc = p, ![t].on = c]
         /\ UNCHANGED <<link, mutex>>

\* Mutant: only the subscription is taken back, not the update request.
UnsubscribeNextOnly(t) ==
    /\ At(t, "unsubscribe")
    /\ \E e \in th[t].todo :
        /\ subscriber' = [subscriber EXCEPT ![e] = None]
        /\ th' = [th EXCEPT ![t].todo = @ \ {e}, ![t].event = e,
                            ![t].pc = IF subscriber[e] = None THEN @ ELSE "tell_unsubscribed"]
    /\ UNCHANGED <<recordVars, server, stop, all, m_client, update_requester, clientVars, appVars>>

\* remove_client(): unsubscribe_event(client), one event after the other.
UnsubscribeNext(t) ==
    /\ At(t, "unsubscribe")
    /\ \E e \in th[t].todo :
        /\ subscriber' = [subscriber EXCEPT ![e] = None]
        /\ update_requester' = [update_requester EXCEPT ![e] = None]
        /\ th' = [th EXCEPT ![t].todo = @ \ {e}, ![t].event = e,
                            ![t].pc = IF subscriber[e] = None THEN @ ELSE "tell_unsubscribed"]
    /\ UNCHANGED <<recordVars, server, stop, all, m_client, clientVars, appVars>>

\* remove_client(): m_client.reset() gives the client's endpoint back. The
\* action's copy of m_all_clients_disconnected_block_token goes with it, and
\* m_mutex of the client is unlocked by the caller.
ForgetClient(t) ==
    /\ At(t, "unsubscribe")
    /\ th[t].todo = {}
    /\ m_client' = None
    /\ token' = IF m_client = None THEN token ELSE Disown(token, m_client, "connection")
    /\ all' = all \ {th[t].on}
    /\ mutex' = [mutex EXCEPT ![th[t].on] = IF @ = t THEN None ELSE @]
    /\ th' = [th EXCEPT ![t] = IF th[t].ret = "idle" THEN IdleThread
                               ELSE [@ EXCEPT !.pc = th[t].ret]]
    /\ UNCHANGED <<recordVars, server, stop, subscriber, update_requester, client, link, reply,
                   appVars>>

-----------------------------------------------------------------------------
(* make_on_server_update_callback(): a client is connected, in the thread    *)
(* that registered the server or the client.                                *)

\* The weak token is locked; a client that is gone ends the callback.
Indicate(t) ==
    /\ At(t, "indicate")
    /\ IF token[th[t].on] = {}
       THEN Go(t, "registered") /\ UNCHANGED token
       ELSE Go(t, "connect") /\ token' = Own(token, th[t].on, t)
    /\ UNCHANGED <<recordVars, serverVars, client, link, mutex, reply, appVars>>

\* receive(Connect) of the server connector: refused once disable() has reset
\* m_stop_block_token. emplace replaces a connection that is still there.
Connect(t) ==
    /\ At(t, "connect")
    /\ LET c == th[t].on IN
        IF "member" \notin stop
        THEN Go(t, "drop") /\ UNCHANGED <<m_client, token, link, all>>
        ELSE /\ m_client' = c
             /\ token' = Own(IF m_client = None THEN token
                             ELSE Disown(token, m_client, "connection"), c, "connection")
             /\ link' = [link EXCEPT ![c] = {t}]
             /\ all' = all \cup {c}
             /\ Go(t, "set_server")
    /\ UNCHANGED <<recordVars, server, stop, subscriber, update_requester, client, mutex, reply,
                   appVars>>

\* Mutant: m_server is set without asking whether the destructor runs.
SetServerAlways(t) ==
    /\ At(t, "set_server")
    /\ mutex[th[t].on] = None
    /\ link' = Own(link, th[t].on, "member")
    /\ Go(t, "available")
    /\ UNCHANGED <<recordVars, serverVars, client, token, mutex, reply, appVars>>

\* set_id_mappings_and_server(): m_server is set unless the destructor has
\* reset the client's token; then the new connection is dropped at once.
SetServer(t) ==
    /\ At(t, "set_server")
    /\ LET c == th[t].on IN
        /\ mutex[c] = None
        /\ IF "member" \in token[c]
           THEN link' = Own(link, c, "member") /\ Go(t, "available")
           ELSE LetGo(t, c, t, "drop")
    /\ UNCHANGED <<recordVars, serverVars, client, token, mutex, reply, appVars>>

\* on_service_state_change(available); the application may call back.
TellAvailable(t) ==
    /\ At(t, "available")
    /\ seen' = [seen EXCEPT ![th[t].on] = "available"]
    /\ Go(t, "callback")
    /\ UNCHANGED <<recordVars, serverVars, clientVars, told, asked>>

\* The callback returns, after at most one call, and connect_return goes.
EndCallback(t) ==
    /\ At(t, "callback") \/ At(t, "called")
    /\ LetGo(t, th[t].on, t, "drop")
    /\ UNCHANGED <<recordVars, serverVars, client, token, mutex, reply, appVars>>

Drop(t) ==
    /\ At(t, "drop")
    /\ token' = Disown(token, th[t].on, t)
    /\ Go(t, "registered")
    /\ UNCHANGED <<recordVars, serverVars, client, link, mutex, reply, appVars>>

\* register_connector() returns: the thread's copy of the listen endpoint goes.
Registered(t) ==
    /\ At(t, "registered")
    /\ stop' = stop \ {t}
    /\ IF t = "server"
       THEN server' = "enabled" /\ UNCHANGED client
       ELSE client' = [client EXCEPT ![t] = "live"] /\ UNCHANGED server
    /\ Back(t)
    /\ UNCHANGED <<recordVars, all, m_client, subscriber, update_requester, token, link, mutex,
                   reply, appVars>>

-----------------------------------------------------------------------------
(* The server connector's owner.                                            *)

\* enable(): fresh tokens, and register_connector(), which hands the listen
\* endpoint to the record and to a client that is waiting.
Enable ==
    /\ server = "disabled"
    /\ At("server", "idle")
    /\ server' = "enabling"
    /\ stop' = {"member", "record", "server"}
    /\ all' = {"member"}
    /\ rec_server' = TRUE
    /\ th' = [th EXCEPT !["server"].pc = IF rec_client = None THEN "registered" ELSE "indicate",
                        !["server"].on = rec_client]
    /\ UNCHANGED <<rec_client, m_client, subscriber, update_requester, clientVars, appVars>>

\* disable(): m_registration.reset() takes the endpoint out of the record.
Disable ==
    /\ server = "enabled"
    /\ At("server", "idle")
    /\ server' = "disabling"
    /\ rec_server' = FALSE
    /\ stop' = stop \ {"record"}
    /\ Go("server", "reset_tokens")
    /\ UNCHANGED <<rec_client, all, m_client, subscriber, update_requester, clientVars, appVars>>

\* disable(), critical section: the own tokens and all subscriptions go. The
\* application is not told of the subscriptions.
ResetTokens ==
    /\ At("server", "reset_tokens")
    /\ stop' = stop \ {"member"}
    /\ all' = all \ {"member"}
    /\ subscriber' = [e \in Event |-> None]
    /\ update_requester' = [e \in Event |-> None]
    /\ Go("server", "wait_connects")
    /\ UNCHANGED <<recordVars, server, m_client, clientVars, appVars>>

\* Mutant: not_available is sent without waiting for connects under way.
WaitForConnectsNot ==
    /\ At("server", "wait_connects")
    /\ IF m_client = None
       THEN Go("server", "wait_clients") /\ UNCHANGED token
       ELSE /\ token' = Own(token, m_client, "server")
            /\ th' = [th EXCEPT !["server"].pc = "not_available", !["server"].on = m_client]
    /\ UNCHANGED <<recordVars, serverVars, client, link, mutex, reply, appVars>>

\* disable() waits for the stop token, and send_all() copies the endpoint of
\* the client.
WaitForConnects ==
    /\ At("server", "wait_connects")
    /\ stop = {}
    /\ IF m_client = None
       THEN Go("server", "wait_clients") /\ UNCHANGED token
       ELSE /\ token' = Own(token, m_client, "server")
            /\ th' = [th EXCEPT !["server"].pc = "not_available", !["server"].on = m_client]
    /\ UNCHANGED <<recordVars, serverVars, client, link, mutex, reply, appVars>>

\* Mutant: the client keeps m_server when the service goes.
NotAvailableKept ==
    /\ At("server", "not_available")
    /\ mutex[th["server"].on] = None
    /\ Go("server", "tell_gone")
    /\ UNCHANGED <<recordVars, serverVars, clientVars, appVars>>

\* receive(Service_state_change) of the client: m_server is reset ...
NotAvailable ==
    /\ At("server", "not_available")
    /\ mutex[th["server"].on] = None
    /\ ResetServer("server", th["server"].on, "tell_gone")
    /\ UNCHANGED <<recordVars, serverVars, client, token, reply, appVars>>

\* ... and on_service_state_change(not_available) called.
TellGone ==
    /\ At("server", "tell_gone")
    /\ seen' = [seen EXCEPT ![th["server"].on] = "not_available"]
    /\ Go("server", "drop_copy")
    /\ UNCHANGED <<recordVars, serverVars, clientVars, told, asked>>

DropCopy ==
    /\ At("server", "drop_copy")
    /\ token' = Disown(token, th["server"].on, "server")
    /\ Go("server", "wait_clients")
    /\ UNCHANGED <<recordVars, serverVars, client, link, mutex, reply, appVars>>

\* disable() returns when no connection is left. The application that disabled
\* the connector takes its events for unsubscribed.
WaitForClients ==
    /\ At("server", "wait_clients")
    /\ all = {}
    /\ server' = "disabled"
    /\ told' = [e \in Event |-> FALSE]
    /\ asked' = [e \in Event |-> FALSE]
    /\ Back("server")
    /\ UNCHANGED <<recordVars, stop, all, m_client, subscriber, update_requester, clientVars, seen>>

-----------------------------------------------------------------------------
(* Client connectors.                                                       *)

\* A name may stand for a new object when nothing refers to the old one.
Unused(c) == client[c] = "absent" /\ ~reply[c] /\ \A t \in Thread : th[t].on # c

\* Mutant: the server that is there already is not asked.
ConstructUnconnected(c) ==
    /\ Unused(c)
    /\ At(c, "idle")
    /\ OverlappingClients \/ \A d \in Client : client[d] = "absent"
    /\ rec_client = None
    /\ client' = [client EXCEPT ![c] = "constructing"]
    /\ token' = [token EXCEPT ![c] = {"member"}]
    /\ rec_client' = c
    /\ th' = [th EXCEPT ![c].pc = "registered", ![c].on = c]
    /\ UNCHANGED <<rec_server, serverVars, link, mutex, reply, appVars>>

\* make_client_connector(): refused as duplicate_client while another client
\* is in the record, else registered, and connected if there is a server.
Construct(c) ==
    /\ Unused(c)
    /\ At(c, "idle")
    /\ OverlappingClients \/ \A d \in Client : client[d] = "absent"
    /\ rec_client = None
    /\ client' = [client EXCEPT ![c] = "constructing"]
    /\ token' = [token EXCEPT ![c] = {"member"}]
    /\ rec_client' = c
    /\ stop' = IF rec_server THEN stop \cup {c} ELSE stop
    /\ th' = [th EXCEPT ![c].pc = IF rec_server THEN "indicate" ELSE "registered", ![c].on = c]
    /\ UNCHANGED <<rec_server, server, all, m_client, subscriber, update_requester, link, mutex,
                   reply, appVars>>

\* ~Impl(), critical section: the own token and m_server are reset.
Destroy(c) ==
    /\ client[c] = "live"
    /\ At(c, "idle")
    /\ mutex[c] = None
    /\ client' = [client EXCEPT ![c] = "destructing"]
    /\ token' = Disown(token, c, "member")
    /\ ResetServer(c, c, "unregister")
    /\ UNCHANGED <<recordVars, serverVars, reply, appVars>>

\* ~Impl(): m_registration.reset() takes the client out of the record.
Unregister(c) ==
    /\ At(c, "unregister")
    /\ rec_client' = None
    /\ Go(c, "wait_stop")
    /\ UNCHANGED <<rec_server, serverVars, clientVars, appVars>>

\* Mutant: the destructor does not wait for callbacks.
WaitForStopNot(c) ==
    /\ At(c, "wait_stop")
    /\ client' = [client EXCEPT ![c] = "absent"]
    /\ seen' = [seen EXCEPT ![c] = "not_available"]
    /\ Back(c)
    /\ UNCHANGED <<recordVars, serverVars, token, link, mutex, reply, told, asked>>

\* ~Impl() returns when nobody owns the token any more.
WaitForStop(c) ==
    /\ At(c, "wait_stop")
    /\ token[c] = {}
    /\ client' = [client EXCEPT ![c] = "absent"]
    /\ seen' = [seen EXCEPT ![c] = "not_available"]
    /\ Back(c)
    /\ UNCHANGED <<recordVars, serverVars, token, link, mutex, reply, told, asked>>

-----------------------------------------------------------------------------
(* Calls of a client's application, and what the server connector does.     *)

Calling(t) ==
    \/ th[t].pc \in {"call", "tell_subscribed", "tell_requested", "return"}
    \/ At(t, "tell_unsubscribed") /\ th[t].op = "unsubscribe"

\* send(): lock_server() copies m_server; without one the call is refused with
\* service_not_available. In the callback it is a subscription, as in both
\* daemons.
BeginCall(t, c, op, e) ==
    /\ \/ t = c /\ At(c, "idle") /\ client[c] = "live"
       \/ At(t, "callback") /\ th[t].on = c /\ op \in {"subscribe", "subscribe_field"}
    /\ \A u \in Thread \ {t} : th[u].on = c => ~Calling(u) /\ ~At(u, "callback")
    /\ op = "call_method" => ~reply[c]
    /\ mutex[c] = None
    /\ "member" \in link[c]
    /\ link' = Own(link, c, t)
    /\ th' = [th EXCEPT ![t] = [@ EXCEPT !.pc = "call", !.on = c, !.op = op, !.event = e,
                                         !.ret = IF At(t, "callback") THEN "called" ELSE "idle"]]
    /\ UNCHANGED <<recordVars, serverVars, client, token, mutex, reply, appVars>>

\* Mutant: already_subscribed is read after set_client().
ReceiveSubscribeLate(t) ==
    /\ At(t, "call")
    /\ th[t].op \in {"subscribe", "subscribe_field"}
    /\ subscriber' = [subscriber EXCEPT ![th[t].event] = th[t].on]
    /\ Go(t, "return")
    /\ UNCHANGED <<recordVars, server, stop, all, m_client, update_requester, clientVars, appVars>>

\* receive(Subscribe_event): the first subscriber and the first requester are
\* told to the application, after the lock is released.
ReceiveSubscribe(t) ==
    /\ At(t, "call")
    /\ th[t].op \in {"subscribe", "subscribe_field"}
    /\ LET e == th[t].event
           field == th[t].op = "subscribe_field"
           ask == field /\ update_requester[e] = None IN
        /\ subscriber' = [subscriber EXCEPT ![e] = th[t].on]
        /\ update_requester' = [update_requester EXCEPT ![e] = IF field THEN th[t].on ELSE @]
        /\ th' = [th EXCEPT ![t].ask = ask,
                            ![t].pc = IF subscriber[e] = None THEN "tell_subscribed"
                                      ELSE IF ask THEN "tell_requested" ELSE "return"]
    /\ UNCHANGED <<recordVars, server, stop, all, m_client, clientVars, appVars>>

\* receive(Unsubscribe_event)
ReceiveUnsubscribe(t) ==
    /\ At(t, "call")
    /\ th[t].op = "unsubscribe"
    /\ LET e == th[t].event IN
        /\ subscriber' = [subscriber EXCEPT ![e] = None]
        /\ update_requester' = [update_requester EXCEPT ![e] = None]
        /\ Go(t, IF subscriber[e] = None THEN "return" ELSE "tell_unsubscribed")
    /\ UNCHANGED <<recordVars, server, stop, all, m_client, clientVars, appVars>>

\* receive(Request_event_update): only the first request is passed on.
ReceiveRequest(t) ==
    /\ At(t, "call")
    /\ th[t].op = "request_update"
    /\ LET e == th[t].event IN
        IF update_requester[e] = None
        THEN /\ update_requester' = [update_requester EXCEPT ![e] = th[t].on]
             /\ Go(t, "tell_requested")
        ELSE Go(t, "return") /\ UNCHANGED update_requester
    /\ UNCHANGED <<recordVars, server, stop, all, m_client, subscriber, clientVars, appVars>>

\* receive(Call_method): the application keeps the reply data, which has a
\* weak reference to the client's token.
ReceiveCall(t) ==
    /\ At(t, "call")
    /\ th[t].op = "call_method"
    /\ reply' = [reply EXCEPT ![th[t].on] = TRUE]
    /\ Go(t, "return")
    /\ UNCHANGED <<recordVars, serverVars, client, token, link, mutex, appVars>>

\* on_event_subscription_change(subscribed)
TellSubscribed(t) ==
    /\ At(t, "tell_subscribed")
    /\ told' = [told EXCEPT ![th[t].event] = TRUE]
    /\ Go(t, IF th[t].ask THEN "tell_requested" ELSE "return")
    /\ UNCHANGED <<recordVars, serverVars, clientVars, seen, asked>>

\* on_event_subscription_change(unsubscribed), for a call or a removed client.
TellUnsubscribed(t) ==
    /\ At(t, "tell_unsubscribed")
    /\ told' = [told EXCEPT ![th[t].event] = FALSE]
    /\ Go(t, IF th[t].op = "unsubscribe" THEN "return" ELSE "unsubscribe")
    /\ UNCHANGED <<recordVars, serverVars, clientVars, seen, asked>>

\* on_event_update_request()
TellRequested(t) ==
    /\ At(t, "tell_requested")
    /\ asked' = [asked EXCEPT ![th[t].event] = TRUE]
    /\ Go(t, "return")
    /\ UNCHANGED <<recordVars, serverVars, clientVars, seen, told>>

\* The call returns and its copy of m_server goes; in the callback
\* connect_return still has one.
Return(t) ==
    /\ At(t, "return")
    /\ IF th[t].ret = "called"
       THEN Go(t, "called") /\ UNCHANGED link
       ELSE LetGo(t, th[t].on, t, "idle")
    /\ UNCHANGED <<recordVars, serverVars, client, token, mutex, reply, appVars>>

-----------------------------------------------------------------------------
(* Events and replies, from the server's application to a client.           *)

\* The endpoint of client c is copied, and its callback runs.
Deliver(c) ==
    /\ token' = Own(token, c, "events")
    /\ th' = [th EXCEPT !["events"].pc = "deliver", !["events"].on = c]

\* update_event(), and allocate_event_payload() likewise: to the subscriber.
\* The application counts a pending update request as answered.
UpdateEvent(e) ==
    /\ At("events", "idle")
    /\ server = "enabled"
    /\ subscriber[e] # None
    /\ Deliver(subscriber[e])
    /\ asked' = [asked EXCEPT ![e] = FALSE]
    /\ UNCHANGED <<recordVars, serverVars, client, link, mutex, reply, seen, told>>

\* update_requested_event(): to the requester, who is taken off the list.
UpdateRequestedEvent(e) ==
    /\ At("events", "idle")
    /\ server = "enabled"
    /\ update_requester[e] # None
    /\ update_requester' = [update_requester EXCEPT ![e] = None]
    /\ Deliver(update_requester[e])
    /\ asked' = [asked EXCEPT ![e] = FALSE]
    /\ UNCHANGED <<recordVars, server, stop, all, m_client, subscriber, client, link, mutex,
                   reply, seen, told>>

\* Method_call_reply_data::reply(): the weak token is locked; a reply to a
\* client that is gone is dropped.
Reply(c) ==
    /\ At("events", "idle")
    /\ reply[c]
    /\ reply' = [reply EXCEPT ![c] = FALSE]
    /\ IF token[c] = {} THEN UNCHANGED <<token, th>> ELSE Deliver(c)
    /\ UNCHANGED <<recordVars, serverVars, client, link, mutex, appVars>>

\* The client's callback returns and the copy of its endpoint goes.
Delivered ==
    /\ At("events", "deliver")
    /\ token' = Disown(token, th["events"].on, "events")
    /\ Back("events")
    /\ UNCHANGED <<recordVars, serverVars, client, link, mutex, reply, appVars>>

-----------------------------------------------------------------------------
\* What applications may begin at any time ...
Begin ==
    \/ Enable
    \/ Disable
    \/ \E c \in Client : Construct(c) \/ Destroy(c) \/ Reply(c)
    \/ \E t \in Thread, c \in Client, op \in Call, e \in Event : BeginCall(t, c, op, e)
    \/ \E e \in Event : UpdateEvent(e) \/ UpdateRequestedEvent(e)

\* ... and what a thread goes on with.
Continue(t) ==
    \/ UnsubscribeNext(t) \/ ForgetClient(t)
    \/ Indicate(t) \/ Connect(t) \/ SetServer(t) \/ TellAvailable(t) \/ EndCallback(t)
    \/ Drop(t) \/ Registered(t)
    \/ ReceiveSubscribe(t) \/ ReceiveUnsubscribe(t) \/ ReceiveRequest(t) \/ ReceiveCall(t)
    \/ TellSubscribed(t) \/ TellUnsubscribed(t) \/ TellRequested(t) \/ Return(t)
    \/ t = "server" /\ (ResetTokens \/ WaitForConnects \/ NotAvailable \/ TellGone \/ DropCopy
                          \/ WaitForClients)
    \/ t \in Client /\ (Unregister(t) \/ WaitForStop(t))
    \/ t = "events" /\ Delivered

Next == Begin \/ \E t \in Thread : Continue(t)

Spec == Init /\ [][Next]_vars
\* Threads are scheduled and callbacks return.
FairSpec == Spec /\ \A t \in Thread : WF_vars(Continue(t))
=============================================================================
