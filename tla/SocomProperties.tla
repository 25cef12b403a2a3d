--------------------------- MODULE SocomProperties ---------------------------
(* What is claimed of the SOCom connectors.                                 *)
EXTENDS SocomConnector

\* A pointer to a client connection is never left behind: subscriptions and
\* update requests belong to the connection in m_client, and m_client is set
\* exactly as long as somebody owns its reference token or the thread that let
\* go last is removing it (remove_client, receive(Connect)).
ConnectionExact ==
    /\ \A e \in Event : {subscriber[e], update_requester[e]} \subseteq {m_client, None}
    /\ \A c \in Client :
        LET removing == \E t \in Thread :
                th[t].pc \in {"unsubscribe", "tell_unsubscribed"} /\ th[t].on = c IN
        /\ m_client = c <=> link[c] # {} \/ removing
        /\ m_client = c <=> "connection" \in token[c]

\* No callback of a client connector runs, or is about to, after its destructor
\* returned, and none of the server connector after disable() returned
\* (client_connector.hpp:126, server_connector.hpp:150).
QuietAfterReturn ==
    \A t \in Thread :
        /\ th[t].pc \in {"connect", "set_server", "available", "callback", "deliver",
                         "not_available", "tell_gone"} => client[th[t].on] # "absent"
        /\ th[t].pc \in {"set_server", "call", "unsubscribe", "tell_subscribed",
                         "tell_unsubscribed", "tell_requested"} => server # "disabled"

\* While the connector is enabled and no callback is under way, the application
\* has been told of exactly the subscriptions there are: callbacks run after
\* the lock is released, but not in another order than the changes.
SubscriptionsTold ==
    server = "enabled"
        /\ (\A t \in Thread : th[t].pc \notin {"tell_subscribed", "tell_unsubscribed"})
        => \A e \in Event : told[e] = (subscriber[e] # None)

\* A request for an update that is on the list has been passed to the
\* application and is not answered yet: a further one may be swallowed
\* (server_connector.hpp:187: update_event() clears the list of requesters).
RequestersAreAsked ==
    server = "enabled"
        /\ (\A t \in Thread : th[t].pc \notin {"tell_subscribed", "tell_requested"})
        => \A e \in Event : update_requester[e] # None => asked[e]

\* The connectors implement ServiceLink.
Phase == [absent |-> "dead", constructing |-> "alive", live |-> "alive",
          destructing |-> "closing"]
Offered == CASE server = "disabled" -> "off"
             [] server = "disabling" -> "stopping"
             [] OTHER -> "on"
User == [c \in Client |-> Phase[client[c]]]
Link == INSTANCE ServiceLink WITH offered <- Offered, user <- User
ImplementsLink == Link!Spec

\* disable() and the destructor of a client connector return.
DisableReturns == server = "disabling" ~> server = "disabled"
DestructorReturns == \A c \in Client : client[c] = "destructing" ~> client[c] = "absent"

\* A client that stays, of a server connector that stays enabled, is told that
\* the service is available, whichever of the two came first and whatever it was
\* told before, and hears nothing else afterwards.
ClientServed ==
    \A c \in Client :
        <>[](server = "enabled" /\ client[c] = "live") => <>[](seen[c] = "available")
=============================================================================
