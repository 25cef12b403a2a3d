---------------------------- MODULE ClientChannel ----------------------------
(***************************************************************************)
(* The connection of gatewayd's binding to someipd                          *)
(* (impl/gateway_ipc_binding_client.cpp) on top of a message_passing client *)
(* connection.  The connection is external: an engine thread moves it       *)
(* through its states and reports each one to on_state_change(), while the  *)
(* thread that destroys the binding calls Stop().                          *)
(***************************************************************************)

CONSTANT Denials     \* may the connection be refused for lack of permission?

ASSUME DenialsAssumption == Denials \in BOOLEAN

VARIABLES
    state,       \* state of the connection
    reason,      \* stop_reason_; "none" until something asks it to stop
    told,        \* the state on_state_change() was last called with
    line,        \* does the socket lead to a server that lives?
    handshake,   \* the exchange of Connect and Connect_reply
    connected,   \* m_connected, and the client's entry in the binding base
    stopped      \* m_stopped

channelVars == <<state, reason, told, line, handshake, connected, stopped>>

ChannelInit ==
    /\ state = "off" /\ reason = "none" /\ told = "off"
    /\ line = FALSE /\ handshake = "none"
    /\ connected = FALSE /\ stopped = FALSE

\* The engine reports a state before it moves on to another one.
Reported == told = state

-----------------------------------------------------------------------------
(* The connection and its engine.                                           *)

\* The constructor starts the connection.
Start ==
    /\ state = "off"
    /\ state' = "starting"
    /\ UNCHANGED <<reason, told, line, handshake, connected, stopped>>

\* An attempt to connect succeeds when the server listens; until then the
\* engine tries again.
Accepted(listening) ==
    /\ state = "starting" /\ reason = "none" /\ Reported
    /\ listening
    /\ state' = "ready" /\ line' = TRUE
    /\ UNCHANGED <<reason, told, handshake, connected, stopped>>

Denied ==
    /\ Denials
    /\ state = "starting" /\ reason = "none" /\ Reported
    /\ reason' = "permission"
    /\ UNCHANGED <<state, told, line, handshake, connected, stopped>>

\* The engine finds the socket closed by the server.
Closed ==
    /\ state = "ready" /\ reason = "none" /\ Reported
    /\ ~line
    /\ reason' = "closed"
    /\ UNCHANGED <<state, told, line, handshake, connected, stopped>>

\* A connection with a reason to stop goes through kStopping to kStopped.
Stopping ==
    /\ reason # "none" /\ Reported
    /\ \/ state \in {"starting", "ready"} /\ state' = "stopping"
       \/ state = "stopping" /\ state' = "stopped"
    /\ line' = FALSE /\ handshake' = "none"
    /\ UNCHANGED <<reason, told, connected, stopped>>

\* Stop(): a compare-and-swap on the reason, without effect if there is one.
Stop ==
    /\ reason' = IF reason = "none" THEN "user" ELSE reason
    /\ UNCHANGED <<state, told, line, handshake, connected, stopped>>

-----------------------------------------------------------------------------
(* The callbacks.                                                           *)

\* kReady: Connect is sent.  The result of the send is ignored.
OnReady ==
    /\ state = "ready" /\ ~Reported
    /\ told' = state
    /\ handshake' = IF line THEN "sent" ELSE "none"
    /\ UNCHANGED <<state, reason, line, connected, stopped>>

\* kStarting, kStopping: the client is taken out of the binding base.
OnOther ==
    /\ state \in {"starting", "stopping"} /\ ~Reported
    /\ told' = state
    /\ connected' = FALSE
    /\ UNCHANGED <<state, reason, line, handshake, stopped>>

OnStoppedForGood ==
    /\ told' = state
    /\ stopped' = TRUE
    /\ UNCHANGED <<state, reason, line, handshake, connected>>

Restart ==
    /\ told' = state
    /\ state' = "starting" /\ reason' = "none"
    /\ UNCHANGED <<line, handshake, connected, stopped>>

\* Mutant: every stop is taken to be intentional.
OnStoppedAlways ==
    /\ state = "stopped" /\ ~Reported
    /\ OnStoppedForGood

\* Mutant: the channel is restarted whatever the reason.
OnStoppedNever ==
    /\ state = "stopped" /\ ~Reported
    /\ Restart

\* kStopped: an intentional stop is final, after any other the channel is
\* restarted.
OnStopped ==
    /\ state = "stopped" /\ ~Reported
    /\ IF reason \in {"user", "permission"} THEN OnStoppedForGood ELSE Restart

\* The server's binding answers Connect.
Answered ==
    /\ handshake = "sent" /\ line
    /\ handshake' = "replied"
    /\ UNCHANGED <<state, reason, told, line, connected, stopped>>

\* handle_connect_reply_message(): from here on the binding base may send.
RecvConnectReply ==
    /\ handshake = "replied" /\ state = "ready" /\ Reported /\ ~connected
    /\ connected' = TRUE
    /\ UNCHANGED <<state, reason, told, line, handshake, stopped>>

Engine(listening) ==
    \/ Accepted(listening) \/ Denied \/ Closed \/ Stopping
    \/ OnReady \/ OnOther \/ OnStopped \/ Answered \/ RecvConnectReply

=============================================================================
