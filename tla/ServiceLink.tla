----------------------------- MODULE ServiceLink -----------------------------
(***************************************************************************)
(* What SOCom promises the applications at the two ends of a service       *)
(* (socom/server_connector.hpp, socom/client_connector.hpp): when a client *)
(* may be told that the service is available or not, and what holds when   *)
(* disable() and the destructor of a client connector return.              *)
(***************************************************************************)
CONSTANT Client

VARIABLES offered,   \* off, on, stopping: what the provider has called
          user,      \* dead, alive, closing: a client connector
          seen       \* the last state it was told; not_available at first

vars == <<offered, user, seen>>

Init ==
    /\ offered = "off"
    /\ user = [c \in Client |-> "dead"]
    /\ seen = [c \in Client |-> "not_available"]

Offer == offered = "off" /\ offered' = "on" /\ UNCHANGED <<user, seen>>
Withdraw == offered = "on" /\ offered' = "stopping" /\ UNCHANGED <<user, seen>>

\* disable() returns: no client that stays takes the service for available.
Withdrawn ==
    /\ offered = "stopping"
    /\ \A c \in Client : user[c] = "alive" => seen[c] = "not_available"
    /\ offered' = "off"
    /\ UNCHANGED <<user, seen>>

Create(c) ==
    /\ user[c] = "dead"
    /\ user' = [user EXCEPT ![c] = "alive"]
    /\ UNCHANGED <<offered, seen>>

Close(c) ==
    /\ user[c] = "alive"
    /\ user' = [user EXCEPT ![c] = "closing"]
    /\ UNCHANGED <<offered, seen>>

\* The destructor returns; the name may be used for a new connector.
Closed(c) ==
    /\ user[c] = "closing"
    /\ user' = [user EXCEPT ![c] = "dead"]
    /\ seen' = [seen EXCEPT ![c] = "not_available"]
    /\ UNCHANGED offered

\* available is told once per offer, never after disable() returned.
SeeAvailable(c) ==
    /\ user[c] # "dead"
    /\ offered # "off"
    /\ seen[c] = "not_available"
    /\ seen' = [seen EXCEPT ![c] = "available"]
    /\ UNCHANGED <<offered, user>>

\* not_available is told only by disable().
SeeGone(c) ==
    /\ user[c] # "dead"
    /\ offered = "stopping"
    /\ seen' = [seen EXCEPT ![c] = "not_available"]
    /\ UNCHANGED <<offered, user>>

Next ==
    \/ Offer \/ Withdraw \/ Withdrawn
    \/ \E c \in Client : Create(c) \/ Close(c) \/ Closed(c) \/ SeeAvailable(c) \/ SeeGone(c)

Spec == Init /\ [][Next]_vars
=============================================================================
