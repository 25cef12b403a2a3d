-------------------------- MODULE DaemonProperties --------------------------
(***************************************************************************)
(* What is claimed of the two daemons and the events they pass on.          *)
(***************************************************************************)
EXTENDS Daemons

\* A payload on its way comes out as the event it is a sample of, with that
\* event's id in the header - although gatewayd numbers events by counting and
\* leaves some out, and both daemons look them up by number
\* (forward_to_vsomeip, forward_event).
EventsKeepTheirName ==
    \A s \in Service : \A i \in DOMAIN queue[s] :
        LET m == queue[s][i]
            out == IF s \in Local THEN Notified(s, m) ELSE Sent(s, m)
        IN  \A event \in out : event.name = m.name /\ event.event_id = m.method_id

\* The slots gatewayd's main() asks for hold header and data of every event up
\* to the size its serializer declares, whichever daemon publishes: no such
\* sample is dropped in gatewayd, no such message runs over its slot in
\* someipd.  event_slot_size() falls back to 1500 bytes when a size is not
\* known, so this depends on the configuration (SizesKnown in DaemonProofs).
\* Longer messages are another matter: nothing in someipd refuses them.
SlotsHoldDeclared == "declared size" \notin misuse

\* forward_event() indexes event_contexts_ with the id it is given ("TODO:
\* check if the assumption holds"): an event of a service that has an instance
\* in gatewayd always has its context there.
ContextFound == "no context" \notin misuse

\* When the destructor of the binding client has returned, the connection is
\* stopped and its last state reported: no callback reaches a member that is
\* gone.
QuietChannel ==
    pc["gatewayd"] = "ended" /\ state # "off" => state = "stopped" /\ told = state

\* A callback of LocalNetworkService or RemoteServiceInstance never finds
\* client_connector_ unassigned.
ConnectorAssigned == "connector not assigned" \notin misuse

\* No daemon stays asked to terminate for good: it ends from the wait for the
\* handshake, from its main loop, and while the channel is being restarted
\* after a loss, when Stop() has no effect.  (shutdown_requested is only reset
\* by a new start.)
DaemonsEnd == \A d \in Daemon : []<>(shutdown[d] => pc[d] \in Over)

\* Both daemons are up, the channel has not been refused, the consumer exists,
\* and so does the provider, or an application provides the service and the
\* callback has not failed for it.
Wanted(s) ==
    /\ pc["gatewayd"] = "run" /\ pc["someipd"] = "run" /\ reason # "permission"
    /\ consumer[s] = "assigned"
    /\ provider[s] = "stored" \/ s \in offered \ failed

\* As long as they stay so, the consumer ends up subscribed, whatever happened
\* before: the channel is restarted after a loss and the handshake repeated.
ServicesReachable ==
    \A s \in Service : <>[]Wanted(s) => <>[](link[s] = "subscribed")

=============================================================================
