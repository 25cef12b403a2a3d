--------------------------- MODULE SocomStepProofs ---------------------------
(***************************************************************************)
(* The connectors for any clients and events, when client connectors are   *)
(* made one after the other: the inductive invariant, and the steps that   *)
(* are taken inside calls, callbacks and introductions.                    *)
(*                                                                         *)
(* The tokens are what the proof is about.  A thread owns the reference    *)
(* token of a connection exactly while it is Linked to it, and the stop     *)
(* token of a client at least while it is Holding the client; a thread that *)
(* introduces a server and a client to each other owns the stop token of    *)
(* the server (Introducing).  So whoever waits until a token has no owner   *)
(* knows that no thread is at such a place.                                *)
(***************************************************************************)
EXTENDS SocomConnector, TLAPS

-----------------------------------------------------------------------------
(* Places in the code.                                                      *)

\* remove_client() runs in t.
Removing(t) == th[t].pc \in {"unsubscribe", "tell_unsubscribed"} /\ th[t].op # "unsubscribe"

\* t introduces client th[t].on to the server and has locked the client's token.
Connecting(t) ==
    \/ th[t].pc \in {"connect", "set_server", "available", "callback", "called", "drop"}
    \/ Calling(t) /\ th[t].ret = "called"
    \/ Removing(t) /\ th[t].ret = "drop"
Introducing(t) == th[t].pc = "indicate" \/ Connecting(t)

\* disable() tells the client that the service goes.
Leaving(t) ==
    \/ th[t].pc \in {"not_available", "tell_gone", "drop_copy"}
    \/ Removing(t) /\ th[t].ret = "tell_gone"

Linked(t) == th[t].pc \in {"set_server", "available", "callback", "called"} \/ Calling(t)
Holding(t) == Connecting(t) \/ Leaving(t) \/ th[t].pc = "deliver"

Pc == {"idle", "indicate", "connect", "set_server", "available", "callback", "called", "drop",
       "registered", "reset_tokens", "wait_connects", "not_available", "tell_gone", "drop_copy",
       "wait_clients", "unregister", "wait_stop", "call", "tell_subscribed",
       "tell_unsubscribed", "tell_requested", "return", "unsubscribe", "deliver"}
ThreadState ==
    [pc : Pc, on : Client \cup {None}, op : Call \cup {None}, event : Event \cup {None},
     todo : SUBSET Event, ask : BOOLEAN,
     ret : {"idle", "called", "drop", "tell_gone", "unregister"}]

-----------------------------------------------------------------------------
(* The inductive invariant.                                                 *)

TypeOK ==
    /\ rec_server \in BOOLEAN /\ rec_client \in Client \cup {None}
    /\ server \in {"disabled", "enabling", "enabled", "disabling"}
    /\ stop \subseteq {"member", "record"} \cup Thread
    /\ all \subseteq {"member"} \cup Client
    /\ m_client \in Client \cup {None}
    /\ subscriber \in [Event -> Client \cup {None}]
    /\ update_requester \in [Event -> Client \cup {None}]
    /\ client \in [Client -> {"absent", "constructing", "live", "destructing"}]
    /\ token \in [Client -> SUBSET ({"member", "connection"} \cup Thread)]
    /\ link \in [Client -> SUBSET ({"member"} \cup Thread)]
    /\ seen \in [Client -> {"available", "not_available"}]
    /\ told \in [Event -> BOOLEAN]
    /\ th \in [Thread -> ThreadState]

\* Where the threads are.
WellFormed(t) ==
    /\ th[t].pc = "indicate" \/ Holding(t) \/ Linked(t) \/ Removing(t) => th[t].on \in Client
    /\ Calling(t) \/ th[t].pc = "tell_unsubscribed" => th[t].event \in Event
    /\ th[t].pc = "unsubscribe" => th[t].op # "unsubscribe"
EventsPlace == th["events"].pc \in {"idle", "deliver"}
ServerPlace ==
    \/ server \in {"disabled", "enabled"} /\ th["server"].pc = "idle"
    \/ server = "enabling" /\ (th["server"].pc = "registered" \/ Introducing("server"))
    \/ server = "disabling" /\ \/ th["server"].pc \in {"reset_tokens", "wait_connects", "wait_clients"}
                               \/ Leaving("server")
ClientPlace(c) ==
    /\ th[c].pc # "idle" => th[c].on = c
    /\ \/ client[c] \in {"absent", "live"} /\ th[c].pc = "idle"
       \/ client[c] = "live" /\ (Calling(c) \/ Removing(c)) /\ th[c].ret = "idle"
       \/ client[c] = "constructing" /\ (th[c].pc = "registered" \/ Introducing(c))
       \/ client[c] = "destructing" /\ \/ th[c].pc \in {"unregister", "wait_stop"}
                                       \/ Removing(c) /\ th[c].ret = "unregister"
Places ==
    /\ \A t \in Thread : WellFormed(t)
    /\ EventsPlace
    /\ ServerPlace
    /\ \A c \in Client : ClientPlace(c)

\* The stop token of the server; a client is introduced by one thread.
Introductions ==
    /\ "member" \in stop <=> server \in {"enabling", "enabled"} \/ th["server"].pc = "reset_tokens"
    /\ rec_server <=> server \in {"enabling", "enabled"}
    /\ \A t \in Thread : Introducing(t) => t \in stop
    /\ server = "disabled" \/ th["server"].pc = "wait_clients" \/ Leaving("server") => stop = {}
    /\ \A t, u \in Thread :
        Introducing(t) /\ Introducing(u) /\ th[t].on = th[u].on => t = u
    /\ \A t \in Thread : th[t].pc \in {"indicate", "connect"} => m_client # th[t].on

\* One client at a time, and its token.
Tokens ==
    /\ \A c, d \in Client : client[c] # "absent" /\ client[d] # "absent" => c = d
    /\ \A c \in Client :
        /\ client[c] = "absent" => token[c] = {}
        /\ "member" \in token[c] <=> client[c] \in {"constructing", "live"}
        /\ "connection" \in token[c] <=> m_client = c
    /\ \A t \in Thread : Holding(t) => t \in token[th[t].on]

\* The connection and its reference token.
Links ==
    /\ \A c \in Client :
        /\ c \in all <=> m_client = c
        /\ m_client = c <=> link[c] # {} \/ \E t \in Thread : Removing(t) /\ th[t].on = c
    /\ server = "disabled" => all = {}
    /\ "member" \in all => "member" \in stop
    /\ \A t \in Thread : Linked(t) => t \in link[th[t].on]
    /\ \A t \in Thread : Removing(t) => link[th[t].on] = {}
    /\ \A t, u \in Thread : Removing(t) /\ Removing(u) => t = u
    /\ \A t, u \in Thread : Calling(t) /\ Calling(u) => t = u

Subscriptions ==
    /\ \A e \in Event : {subscriber[e], update_requester[e]} \subseteq {m_client, None}
    /\ \A t \in Thread : Removing(t) =>
          \A e \in Event \ th[t].todo : subscriber[e] = None /\ update_requester[e] = None

Telling(t, e) == th[t].pc \in {"tell_subscribed", "tell_unsubscribed"} /\ th[t].event = e
Announcements ==
    server # "disabling" =>
        /\ \A e \in Event : (\A t \in Thread : ~Telling(t, e)) => (told[e] <=> subscriber[e] # None)
        /\ \A t \in Thread :
            /\ th[t].pc = "tell_subscribed" => subscriber[th[t].event] # None
            /\ th[t].pc = "tell_unsubscribed" => subscriber[th[t].event] = None

\* disable() is about to tell client c.
Parting(c) ==
    /\ th["server"].on = c
    /\ \/ th["server"].pc = "tell_gone"
       \/ Removing("server") /\ th["server"].ret = "tell_gone"
Sights ==
    /\ \A c \in Client :
        /\ client[c] = "absent" => seen[c] = "not_available"
        /\ client[c] \in {"constructing", "live"} /\ seen[c] = "available" =>
              "member" \in link[c] \/ Parting(c)
    /\ \A t \in Thread :
        /\ th[t].pc \in {"indicate", "connect", "set_server"} =>
              seen[th[t].on] = "not_available" \/ client[th[t].on] = "destructing"
        /\ th[t].pc = "available" =>
              /\ seen[th[t].on] = "not_available"
              /\ "member" \in link[th[t].on] \/ client[th[t].on] = "destructing"

IInv == /\ TypeOK /\ Places /\ Introductions /\ Tokens /\ Links
        /\ Subscriptions /\ Announcements /\ Sights


-----------------------------------------------------------------------------
(* Steps of one thread.                                                     *)

Only(t) == th' \in [Thread -> ThreadState] /\ \A u \in Thread \ {t} : th'[u] = th[u]

LEMMA GoOnly ==
    ASSUME TypeOK, NEW t \in Thread, NEW p \in Pc, Go(t, p)
    PROVE  /\ Only(t)
           /\ th'[t] = [th[t] EXCEPT !.pc = p]
           /\ th'[t].pc = p /\ th'[t].on = th[t].on /\ th'[t].op = th[t].op
           /\ th'[t].event = th[t].event /\ th'[t].todo = th[t].todo
           /\ th'[t].ask = th[t].ask /\ th'[t].ret = th[t].ret
<1>1. th[t] \in ThreadState
  BY DEF TypeOK
<1>2. [th[t] EXCEPT !.pc = p] \in ThreadState
  BY <1>1 DEF ThreadState
<1>3. th' = [th EXCEPT ![t] = [th[t] EXCEPT !.pc = p]]
  BY DEF Go, TypeOK
<1>4. Only(t) /\ th'[t] = [th[t] EXCEPT !.pc = p]
  BY <1>2, <1>3 DEF TypeOK, Only
<1> QED
  BY <1>1, <1>4 DEF ThreadState

LEMMA BackOnly ==
    ASSUME TypeOK, NEW t \in Thread, Back(t)
    PROVE  Only(t) /\ th'[t] = IdleThread /\ th'[t].pc = "idle"
<1>1. IdleThread \in ThreadState
  BY DEF IdleThread, ThreadState, Pc
<1> QED
  BY <1>1 DEF Back, TypeOK, Only, IdleThread

\* What LetGo(t, c, o, p) does to its thread and to the references.
LetGoDone(t, c, o, p) ==
    /\ Only(t)
    /\ link' = [link EXCEPT ![c] = @ \ {o}]
    /\ link[c] = {o} => /\ th'[t].pc = "unsubscribe" /\ th'[t].todo = Event
                        /\ th'[t].ret = p /\ th'[t].on = c /\ th'[t].op = None
    /\ link[c] # {o} /\ p = "idle" => th'[t].pc = "idle"
    /\ link[c] # {o} /\ p # "idle" => th'[t].pc = p /\ th'[t].on = c /\ th'[t].ret = th[t].ret

LEMMA LetGoOnly ==
    ASSUME TypeOK, NEW t \in Thread, NEW c \in Client, NEW o,
           NEW p \in {"idle", "drop", "tell_gone", "unregister"}, LetGo(t, c, o, p)
    PROVE  LetGoDone(t, c, o, p)
<1>1. th[t] \in ThreadState
  BY DEF TypeOK
<1>2. CASE link[c] = {o}
  <2> DEFINE r == [th[t] EXCEPT !.pc = "unsubscribe", !.todo = Event, !.ret = p, !.on = c,
                                !.op = None]
  <2>1. r \in ThreadState
    BY Zenon, <1>1 DEF ThreadState, Pc
  <2>2. th' = [th EXCEPT ![t] = r]
    BY <1>2 DEF LetGo
  <2>3. /\ r.pc = "unsubscribe" /\ r.todo = Event
        /\ r.ret = p /\ r.on = c /\ r.op = None
    BY <1>1 DEF ThreadState
  <2> HIDE DEF r
  <2>4. Only(t) /\ th'[t] = r
    BY <2>1, <2>2 DEF TypeOK, Only
  <2> QED
    BY <1>2, <2>3, <2>4 DEF LetGo, Disown, LetGoDone
<1>3. CASE link[c] # {o} /\ p = "idle"
  <2>1. Back(t)
    BY <1>3 DEF LetGo, Back
  <2> QED
    BY <1>3, <2>1, BackOnly DEF LetGo, Disown, LetGoDone
<1>4. CASE link[c] # {o} /\ p # "idle"
  <2> DEFINE r == [th[t] EXCEPT !.pc = p, !.on = c]
  <2>1. r \in ThreadState
    BY Zenon, <1>1, <1>4 DEF ThreadState, Pc
  <2>2. th' = [th EXCEPT ![t] = r]
    BY <1>4 DEF LetGo
  <2>3. r.pc = p /\ r.on = c /\ r.ret = th[t].ret
    BY <1>1 DEF ThreadState
  <2> HIDE DEF r
  <2>4. Only(t) /\ th'[t] = r
    BY <2>1, <2>2 DEF TypeOK, Only
  <2> QED
    BY <1>4, <2>3, <2>4 DEF LetGo, Disown, LetGoDone
<1> QED
  BY <1>2, <1>3, <1>4

\* A thread that does not move stays where it is.
LEMMA Unmoved ==
    ASSUME NEW u, th'[u] = th[u]
    PROVE  /\ Calling(u)' <=> Calling(u)
           /\ Removing(u)' <=> Removing(u)
           /\ Connecting(u)' <=> Connecting(u)
           /\ Introducing(u)' <=> Introducing(u)
           /\ Leaving(u)' <=> Leaving(u)
           /\ Linked(u)' <=> Linked(u)
           /\ Holding(u)' <=> Holding(u)
BY DEF Calling, Removing, Connecting, Introducing, Leaving, Linked, Holding, At


LEMMA SetOnly ==
    ASSUME TypeOK, NEW t \in Thread, NEW r \in ThreadState, th' = [th EXCEPT ![t] = r]
    PROVE  Only(t) /\ th'[t] = r
BY DEF TypeOK, Only

connVars == <<rec_server, server, stop, all, m_client, client, token, link, seen>>

\* A step inside a call, or inside remove_client(), that only changes
\* subscriptions and what the server's application is told.
LEMMA StaysThere ==
    ASSUME IInv, NEW t \in Thread, Only(t), UNCHANGED connVars,
           \/ Calling(t) /\ Calling(t)'
           \/ Removing(t) /\ Removing(t)',
           th'[t].on = th[t].on, th'[t].ret = th[t].ret, th'[t].event \in Event
    PROVE  Places' /\ Introductions' /\ Tokens' /\ Links' /\ Sights'
<1> USE DEF IInv, Only, connVars
<1>1. \A u \in Thread \ {t} : th'[u] = th[u]
  OBVIOUS
<1>2. /\ Calling(t)' <=> Calling(t)
      /\ Removing(t)' <=> Removing(t)
      /\ Connecting(t)' <=> Connecting(t)
      /\ Introducing(t)' <=> Introducing(t)
      /\ Leaving(t)' <=> Leaving(t)
      /\ Linked(t)' <=> Linked(t)
      /\ Holding(t)' <=> Holding(t)
  BY Zenon DEF Calling, Removing, Connecting, Introducing, Leaving, Linked, Holding, At
<1>3. \A u \in Thread : /\ Calling(u)' <=> Calling(u)
                        /\ Removing(u)' <=> Removing(u)
                        /\ Connecting(u)' <=> Connecting(u)
                        /\ Introducing(u)' <=> Introducing(u)
                        /\ Leaving(u)' <=> Leaving(u)
                        /\ Linked(u)' <=> Linked(u)
                        /\ Holding(u)' <=> Holding(u)
                        /\ th'[u].on = th[u].on /\ th'[u].ret = th[u].ret
  BY <1>1, <1>2, Unmoved
<1>4. {th[t].pc, th'[t].pc} \subseteq {"call", "tell_subscribed", "tell_requested", "return",
                                       "tell_unsubscribed", "unsubscribe"}
  BY DEF Calling, Removing, At
<1>5. \A u \in Thread :
        th'[u].pc = th[u].pc \/ {th[u].pc, th'[u].pc} \subseteq
            {"call", "tell_subscribed", "tell_requested", "return", "tell_unsubscribed",
             "unsubscribe"}
  BY <1>1, <1>4
<1>6. Places'
  <2>1. th'[t].pc = "unsubscribe" => th'[t].op # "unsubscribe"
    BY Zenon DEF Calling, Removing, At
  <2>2. ASSUME NEW u \in Thread PROVE WellFormed(u)'
    BY Zenon, <1>1, <1>3, <1>5, <2>1 DEF Places, WellFormed
  <2>3. EventsPlace'
    BY Zenon, <1>1, <1>4 DEF Places, EventsPlace, Thread
  <2>4. ServerPlace'
    BY Zenon, <1>3, <1>5 DEF Places, ServerPlace, Thread
  <2>5. ASSUME NEW c \in Client PROVE ClientPlace(c)'
    <3>1. c \in Thread /\ ClientPlace(c) /\ client'[c] = client[c]
      BY Zenon DEF Places, Thread
    <3>2. CASE th'[c].pc = th[c].pc
      BY Zenon, <1>3, <3>1, <3>2 DEF ClientPlace
    <3>3. CASE {th[c].pc, th'[c].pc} \subseteq {"call", "tell_subscribed", "tell_requested",
                                               "return", "tell_unsubscribed", "unsubscribe"}
      BY Zenon, <1>3, <3>1, <3>3 DEF ClientPlace
    <3> QED
      BY Zenon, <1>5, <3>1, <3>2, <3>3
  <2> QED
    BY <2>2, <2>3, <2>4, <2>5 DEF Places
<1>p. \A u \in Thread :
        /\ th'[u].pc = "reset_tokens" <=> th[u].pc = "reset_tokens"
        /\ th'[u].pc = "wait_clients" <=> th[u].pc = "wait_clients"
        /\ th'[u].pc = "tell_gone" <=> th[u].pc = "tell_gone"
        /\ th'[u].pc = "available" <=> th[u].pc = "available"
        /\ th'[u].pc \in {"indicate", "connect"} <=> th[u].pc \in {"indicate", "connect"}
        /\ th'[u].pc \in {"indicate", "connect", "set_server"} <=>
              th[u].pc \in {"indicate", "connect", "set_server"}
  BY <1>5
<1>s. "server" \in Thread
  BY Zenon DEF Thread
<1>7. Introductions'
  <2>1. /\ "member" \in stop' <=> server' \in {"enabling", "enabled"} \/ th'["server"].pc = "reset_tokens"
        /\ rec_server' <=> server' \in {"enabling", "enabled"}
        /\ server' = "disabled" \/ th'["server"].pc = "wait_clients" \/ Leaving("server")' => stop' = {}
    BY Zenon, <1>3, <1>p, <1>s DEF Introductions
  <2>2. /\ \A u \in Thread : Introducing(u)' => u \in stop'
        /\ \A u \in Thread : th'[u].pc \in {"indicate", "connect"} => m_client' # th'[u].on
    <3>1. /\ \A u \in Thread : Introducing(u) => u \in stop
          /\ \A u \in Thread : th[u].pc \in {"indicate", "connect"} => m_client # th[u].on
      BY Zenon DEF Introductions
    <3> QED
      BY Zenon, <1>3, <1>p, <3>1
  <2>3. \A u, v \in Thread : Introducing(u)' /\ Introducing(v)' /\ th'[u].on = th'[v].on => u = v
    <3>1. \A u, v \in Thread : Introducing(u) /\ Introducing(v) /\ th[u].on = th[v].on => u = v
      BY Zenon DEF Introductions
    <3> QED
      BY Zenon, <1>3, <3>1
  <2> QED
    BY Zenon, <2>1, <2>2, <2>3 DEF Introductions
<1>8. Tokens'
  BY Zenon, <1>3 DEF Tokens
<1>9. Links'
  <2>1. /\ \A c \in Client :
            /\ c \in all' <=> m_client' = c
            /\ m_client' = c <=> link'[c] # {} \/ \E u \in Thread : Removing(u)' /\ th'[u].on = c
        /\ server' = "disabled" => all' = {}
        /\ "member" \in all' => "member" \in stop'
    <3>1. /\ \A c \in Client :
              /\ c \in all <=> m_client = c
              /\ m_client = c <=> link[c] # {} \/ \E u \in Thread : Removing(u) /\ th[u].on = c
          /\ server = "disabled" => all = {}
          /\ "member" \in all => "member" \in stop
      BY Zenon DEF Links
    <3>2. \A c \in Client : (\E u \in Thread : Removing(u)' /\ th'[u].on = c) <=>
                              (\E u \in Thread : Removing(u) /\ th[u].on = c)
      BY Zenon, <1>3
    <3> QED
      BY Zenon, <3>1, <3>2
  <2>2. /\ \A u \in Thread : Linked(u)' => u \in link'[th'[u].on]
        /\ \A u \in Thread : Removing(u)' => link'[th'[u].on] = {}
    BY Zenon, <1>3 DEF Links
  <2>3. /\ \A u, v \in Thread : Removing(u)' /\ Removing(v)' => u = v
        /\ \A u, v \in Thread : Calling(u)' /\ Calling(v)' => u = v
    BY Zenon, <1>3 DEF Links
  <2> QED
    BY Zenon, <2>1, <2>2, <2>3 DEF Links
<1>10. Sights'
  <2>1. \A c \in Client : Parting(c)' <=> Parting(c)
    BY Zenon, <1>3, <1>p, <1>s DEF Parting
  <2>2. \A c \in Client :
          /\ client'[c] = "absent" => seen'[c] = "not_available"
          /\ client'[c] \in {"constructing", "live"} /\ seen'[c] = "available" =>
                "member" \in link'[c] \/ Parting(c)'
    BY Zenon, <2>1 DEF Sights
  <2>3. \A u \in Thread :
          /\ th'[u].pc \in {"indicate", "connect", "set_server"} =>
                seen'[th'[u].on] = "not_available" \/ client'[th'[u].on] = "destructing"
          /\ th'[u].pc = "available" =>
                /\ seen'[th'[u].on] = "not_available"
                /\ "member" \in link'[th'[u].on] \/ client'[th'[u].on] = "destructing"
    <3>1. \A u \in Thread :
            /\ th[u].pc \in {"indicate", "connect", "set_server"} =>
                  seen[th[u].on] = "not_available" \/ client[th[u].on] = "destructing"
            /\ th[u].pc = "available" =>
                  /\ seen[th[u].on] = "not_available"
                  /\ "member" \in link[th[u].on] \/ client[th[u].on] = "destructing"
      BY Zenon DEF Sights
    <3>2. ASSUME NEW u \in Thread, th'[u].pc \in {"indicate", "connect", "set_server"}
          PROVE  seen'[th'[u].on] = "not_available" \/ client'[th'[u].on] = "destructing"
      <4>1. th[u].pc \in {"indicate", "connect", "set_server"} /\ th'[u].on = th[u].on
        BY Zenon, <1>3, <1>p, <3>2
      <4> QED
        BY Zenon, <3>1, <4>1
    <3>3. ASSUME NEW u \in Thread, th'[u].pc = "available"
          PROVE  /\ seen'[th'[u].on] = "not_available"
                 /\ "member" \in link'[th'[u].on] \/ client'[th'[u].on] = "destructing"
      <4>1. th[u].pc = "available" /\ th'[u].on = th[u].on
        BY Zenon, <1>3, <1>p, <3>3
      <4> QED
        BY Zenon, <3>1, <4>1
    <3> QED
      BY Zenon, <3>2, <3>3
  <2> QED
    BY Zenon, <2>2, <2>3 DEF Sights
<1> QED
  BY <1>6, <1>7, <1>8, <1>9, <1>10


-----------------------------------------------------------------------------
(* Calls and remove_client().                                               *)

\* Only one thread at a time changes subscriptions on behalf of a client: the
\* one that calls or removes the client that is connected.
LEMMA OneAtWork ==
    ASSUME IInv, NEW t \in Thread, Calling(t) \/ Removing(t)
    PROVE  /\ th[t].on \in Client /\ m_client = th[t].on
           /\ \A u \in Thread : Calling(u) \/ Removing(u) => u = t
           /\ \A u \in Thread : \A e : Telling(u, e) => u = t
           /\ Calling(t) => ~Removing(t)
<1> USE DEF IInv
<1>1. \A u \in Thread : Calling(u) => Linked(u)
  BY DEF Linked
<1>2. \A u \in Thread : Calling(u) \/ Removing(u) => th[u].on \in Client /\ m_client = th[u].on
  BY <1>1 DEF Places, WellFormed, Links
<1>3. \A u \in Thread : Calling(u) \/ Removing(u) => u = t
  BY <1>1, <1>2 DEF Links
<1>4. \A u \in Thread : \A e : Telling(u, e) => Calling(u) \/ Removing(u)
  BY DEF Telling, Calling, Removing, At
<1>5. Calling(t) => ~Removing(t)
  BY DEF Calling, Removing, At
<1> QED
  BY <1>2, <1>3, <1>4, <1>5

LEMMA ReceiveSubscribeKeeps ==
    ASSUME IInv, NEW t \in Thread, ReceiveSubscribe(t)
    PROVE  IInv'
<1> DEFINE e == th[t].event
           field == th[t].op = "subscribe_field"
           ask == field /\ update_requester[e] = None
           p == IF subscriber[e] = None THEN "tell_subscribed"
                ELSE IF ask THEN "tell_requested" ELSE "return"
           r == [th[t] EXCEPT !.ask = ask, !.pc = p]
<1>1. /\ th[t] \in ThreadState /\ th[t].pc = "call" /\ Calling(t)
      /\ e \in Event /\ th[t].on \in Client /\ m_client = th[t].on
      /\ \A u \in Thread : Calling(u) \/ Removing(u) => u = t
      /\ \A u \in Thread : \A k : Telling(u, k) => u = t
      /\ ~Removing(t)
  BY Zenon, OneAtWork DEF ReceiveSubscribe, Calling, At, IInv, TypeOK, Places, WellFormed
<1>2. /\ th' = [th EXCEPT ![t] = r]
      /\ subscriber' = [subscriber EXCEPT ![e] = th[t].on]
      /\ update_requester' = [update_requester EXCEPT ![e] = IF field THEN th[t].on ELSE @]
      /\ UNCHANGED <<connVars, rec_client, told>>
  BY Zenon DEF ReceiveSubscribe, recordVars, clientVars, appVars, connVars, TypeOK, IInv
<1>3. r \in ThreadState
  <2>1. p \in Pc
    BY Zenon DEF Pc
  <2> HIDE DEF p
  <2> QED
    BY Zenon, <1>1, <2>1 DEF ThreadState
<1>4. /\ r.pc = p /\ r.on = th[t].on /\ r.ret = th[t].ret /\ r.event = e /\ r.op = th[t].op
  BY <1>1 DEF ThreadState
<1>5. p \in {"tell_subscribed", "tell_requested", "return"}
      /\ (p = "tell_subscribed" <=> subscriber[e] = None)
  OBVIOUS
<1> HIDE DEF r, p, ask, field
<1>6. Only(t) /\ th'[t] = r
  BY Zenon, <1>2, <1>3, SetOnly DEF IInv
<1>7. Calling(t)' /\ ~Removing(t)'
  BY <1>4, <1>5, <1>6 DEF Calling, Removing, At
<1>8. Places' /\ Introductions' /\ Tokens' /\ Links' /\ Sights'
  BY Zenon, <1>1, <1>2, <1>4, <1>6, <1>7, StaysThere DEF e
<1>9. TypeOK'
  BY <1>1, <1>2, <1>6 DEF IInv, TypeOK, Only, connVars
<1>10. Subscriptions'
  <2>1. \A u \in Thread : ~Removing(u)'
    BY Zenon, <1>1, <1>6, <1>7, Unmoved DEF Only
  <2> QED
    BY Zenon, <1>1, <1>2, <2>1 DEF IInv, TypeOK, Subscriptions, connVars
<1>11. Announcements'
  <2>1. \A u \in Thread \ {t} : th[u].pc \notin {"tell_subscribed", "tell_unsubscribed"}
    BY <1>1 DEF Telling
  <2>2. \A u \in Thread : \A k : Telling(u, k)' <=> u = t /\ k = e /\ p = "tell_subscribed"
    BY <1>4, <1>5, <1>6, <2>1 DEF Telling, Only
  <2>3. \A u \in Thread : \A k : ~Telling(u, k)
    BY <1>1 DEF Telling
  <2>4. th[t].on # None
    BY <1>1, NameAssumption
  <2>5. ASSUME NEW k \in Event, server' # "disabling", \A u \in Thread : ~Telling(u, k)'
        PROVE  told'[k] <=> subscriber'[k] # None
    <3>1. told[k] <=> subscriber[k] # None
      BY Zenon, <1>2, <2>3, <2>5 DEF IInv, Announcements, connVars
    <3> QED
      BY Zenon, <1>1, <1>2, <1>5, <2>2, <2>4, <2>5, <3>1 DEF IInv, TypeOK
  <2>6. ASSUME NEW u \in Thread, th'[u].pc \in {"tell_subscribed", "tell_unsubscribed"}
        PROVE  /\ u = t /\ th'[u].pc = "tell_subscribed"
               /\ subscriber'[th'[u].event] # None
    <3>1. u = t /\ th'[u] = r
      BY Zenon, <1>6, <2>1, <2>6 DEF Only
    <3>2. p # "tell_unsubscribed" /\ p \in {"tell_subscribed", "tell_unsubscribed"}
      BY Zenon, <1>4, <1>5, <2>6, <3>1
    <3>3. subscriber'[e] = th[t].on
      BY Zenon, <1>1, <1>2 DEF IInv, TypeOK
    <3> QED
      BY Zenon, <1>4, <2>4, <3>1, <3>2, <3>3
  <2> QED
    BY Zenon, <2>5, <2>6 DEF Announcements
<1> QED
  BY <1>8, <1>9, <1>10, <1>11 DEF IInv


\* While t is at work no other thread has something to announce.
LEMMA AnnouncedBy ==
    ASSUME IInv, NEW t \in Thread, Calling(t) \/ Removing(t), Only(t), server' = server,
           server # "disabling" =>
              /\ \A k \in Event : ~Telling(t, k)' => (told'[k] <=> subscriber'[k] # None)
              /\ th'[t].pc = "tell_subscribed" => subscriber'[th'[t].event] # None
              /\ th'[t].pc = "tell_unsubscribed" => subscriber'[th'[t].event] = None
    PROVE  Announcements'
<1>1. \A u \in Thread \ {t} : th[u].pc \notin {"tell_subscribed", "tell_unsubscribed"}
  BY Zenon, OneAtWork DEF Telling
<1>2. \A u \in Thread \ {t} : th'[u].pc \notin {"tell_subscribed", "tell_unsubscribed"}
  BY Zenon, <1>1 DEF Only
<1> QED
  BY Zenon, <1>2 DEF Announcements

LEMMA AnnouncedBefore ==
    ASSUME IInv, NEW t \in Thread, Calling(t) \/ Removing(t), server # "disabling"
    PROVE  \A k \in Event : ~Telling(t, k) => (told[k] <=> subscriber[k] # None)
BY Zenon, OneAtWork DEF IInv, Announcements

\* Nobody is left to remove while a call is under way.
LEMMA CalledSubscriptions ==
    ASSUME IInv, NEW t \in Thread, Calling(t), Only(t), ~Removing(t)', m_client' = m_client,
           \A k \in Event : /\ subscriber'[k] \in {subscriber[k], th[t].on, None}
                            /\ update_requester'[k] \in {update_requester[k], th[t].on, None}
    PROVE  Subscriptions'
<1>1. \A u \in Thread : ~Removing(u)'
  BY Zenon, OneAtWork, Unmoved DEF Only
<1> QED
  BY Zenon, <1>1, OneAtWork DEF IInv, Subscriptions

LEMMA ReceiveUnsubscribeKeeps ==
    ASSUME IInv, NEW t \in Thread, ReceiveUnsubscribe(t)
    PROVE  IInv'
<1> DEFINE e == th[t].event
           p == IF subscriber[e] = None THEN "return" ELSE "tell_unsubscribed"
<1>1. Calling(t) /\ e \in Event /\ th[t].op = "unsubscribe" /\ th[t].pc = "call"
  BY Zenon DEF ReceiveUnsubscribe, Calling, At, IInv, Places, WellFormed
<1>2. /\ subscriber' = [subscriber EXCEPT ![e] = None]
      /\ update_requester' = [update_requester EXCEPT ![e] = None]
      /\ Go(t, p)
      /\ UNCHANGED <<connVars, rec_client, told>>
  BY Zenon DEF ReceiveUnsubscribe, recordVars, clientVars, appVars, connVars
<1>3. p \in Pc /\ p \in {"return", "tell_unsubscribed"} /\ (p = "return" <=> subscriber[e] = None)
  BY DEF Pc
<1> HIDE DEF p
<1>4. /\ Only(t) /\ th'[t].pc = p /\ th'[t].on = th[t].on /\ th'[t].ret = th[t].ret
      /\ th'[t].event = e /\ th'[t].op = "unsubscribe"
  BY Zenon, <1>1, <1>2, <1>3, GoOnly DEF IInv
<1>5. Calling(t)' /\ ~Removing(t)'
  BY Zenon, <1>3, <1>4 DEF Calling, Removing, At
<1>6. Places' /\ Introductions' /\ Tokens' /\ Links' /\ Sights'
  BY Zenon, <1>1, <1>2, <1>4, <1>5, StaysThere
<1>7. TypeOK'
  BY Zenon, <1>2, <1>4 DEF IInv, TypeOK, Only, connVars
<1>8. Subscriptions'
  BY Zenon, <1>1, <1>2, <1>4, <1>5, CalledSubscriptions DEF connVars, IInv, TypeOK
<1>9. Announcements'
  <2>1. \A k : ~Telling(t, k)
    BY Zenon, <1>1 DEF Telling
  <2>2. \A k : Telling(t, k)' <=> k = e /\ subscriber[e] # None
    BY Zenon, <1>3, <1>4 DEF Telling
  <2>3. subscriber'[e] = None /\ \A k \in Event \ {e} : subscriber'[k] = subscriber[k]
    BY Zenon, <1>1, <1>2 DEF IInv, TypeOK
  <2>4. server # "disabling" => \A k \in Event : ~Telling(t, k)' => (told'[k] <=> subscriber'[k] # None)
    BY Zenon, <1>1, <1>2, <2>1, <2>2, <2>3, AnnouncedBefore
  <2> QED
    BY Zenon, <1>1, <1>2, <1>3, <1>4, <2>3, <2>4, AnnouncedBy DEF connVars
<1> QED
  BY <1>6, <1>7, <1>8, <1>9 DEF IInv

LEMMA ReceiveRequestKeeps ==
    ASSUME IInv, NEW t \in Thread, ReceiveRequest(t) \/ ReceiveCall(t)
    PROVE  IInv'
<1>1. Calling(t) /\ th[t].event \in Event /\ th[t].on \in Client /\ th[t].pc = "call"
  BY Zenon, OneAtWork DEF ReceiveRequest, ReceiveCall, Calling, At, IInv, Places, WellFormed
<1>2. PICK p \in {"return", "tell_requested"} : Go(t, p)
  BY DEF ReceiveRequest, ReceiveCall
<1>3. /\ update_requester' \in [Event -> Client \cup {None}]
      /\ \A k \in Event : update_requester'[k] \in {update_requester[k], th[t].on}
      /\ UNCHANGED <<connVars, rec_client, told, subscriber>>
  BY Zenon, <1>1 DEF ReceiveRequest, ReceiveCall, recordVars, serverVars, clientVars, appVars, connVars,
              IInv, TypeOK
<1>4. /\ Only(t) /\ th'[t].pc = p /\ th'[t].on = th[t].on /\ th'[t].ret = th[t].ret
      /\ th'[t].event = th[t].event
  <2>1. p \in Pc
    BY Zenon DEF Pc
  <2> QED
    BY Zenon, <1>2, <2>1, GoOnly DEF IInv
<1>5. Calling(t)' /\ ~Removing(t)'
  BY <1>4 DEF Calling, Removing, At
<1>6. Places' /\ Introductions' /\ Tokens' /\ Links' /\ Sights'
  BY <1>1, <1>3, <1>4, <1>5, StaysThere
<1>7. TypeOK'
  BY Zenon, <1>3, <1>4 DEF IInv, TypeOK, Only, connVars
<1>8. Subscriptions'
  BY Zenon, <1>1, <1>3, <1>4, <1>5, CalledSubscriptions DEF connVars
<1>9. Announcements'
  <2>1. \A k : ~Telling(t, k) /\ ~Telling(t, k)'
    BY Zenon, <1>1, <1>4 DEF Telling
  <2> QED
    BY Zenon, <1>1, <1>3, <1>4, <2>1, AnnouncedBefore, AnnouncedBy DEF connVars
<1> QED
  BY <1>6, <1>7, <1>8, <1>9 DEF IInv


LEMMA TellsKeep ==
    ASSUME IInv, NEW t \in Thread, TellSubscribed(t) \/ TellRequested(t)
    PROVE  IInv'
<1>1. /\ Calling(t) /\ th[t].event \in Event /\ th[t].pc \in {"tell_subscribed", "tell_requested"}
  BY Zenon DEF TellSubscribed, TellRequested, Calling, At, IInv, Places, WellFormed
<1>2. PICK p \in {"return", "tell_requested"} : Go(t, p)
  BY DEF TellSubscribed, TellRequested
<1>3. UNCHANGED <<connVars, rec_client, subscriber, update_requester>>
  BY Zenon DEF TellSubscribed, TellRequested, recordVars, serverVars, clientVars, connVars
<1>4. /\ Only(t) /\ th'[t].pc = p /\ th'[t].on = th[t].on /\ th'[t].ret = th[t].ret
      /\ th'[t].event = th[t].event
  <2>1. p \in Pc
    BY Zenon DEF Pc
  <2> QED
    BY Zenon, <1>2, <2>1, GoOnly DEF IInv
<1>5. Calling(t)' /\ ~Removing(t)'
  BY <1>4 DEF Calling, Removing, At
<1>6. Places' /\ Introductions' /\ Tokens' /\ Links' /\ Sights'
  BY <1>1, <1>3, <1>4, <1>5, StaysThere
<1>7. /\ th[t].pc = "tell_subscribed" => told' = [told EXCEPT ![th[t].event] = TRUE]
      /\ th[t].pc = "tell_requested" => told' = told
  BY Zenon DEF TellSubscribed, TellRequested, At
<1>8. TypeOK'
  BY Zenon, <1>1, <1>3, <1>4, <1>7 DEF IInv, TypeOK, Only, connVars
<1>9. Subscriptions'
  BY Zenon, <1>1, <1>3, <1>4, <1>5, CalledSubscriptions DEF connVars
<1>10. Announcements'
  <2>1. \A k : Telling(t, k) <=> th[t].pc = "tell_subscribed" /\ k = th[t].event
    BY <1>1 DEF Telling
  <2>2. server # "disabling" /\ th[t].pc = "tell_subscribed" => subscriber[th[t].event] # None
    BY DEF IInv, Announcements
  <2>3. ASSUME NEW k \in Event, server # "disabling" PROVE told'[k] <=> subscriber'[k] # None
    <3>1. CASE Telling(t, k)
      BY <1>1, <1>3, <1>7, <2>1, <2>2, <2>3, <3>1 DEF IInv, TypeOK
    <3>2. CASE ~Telling(t, k)
      <4>1. told[k] <=> subscriber[k] # None
        BY <1>1, <2>3, <3>2, AnnouncedBefore
      <4>2. told'[k] = told[k]
        BY Zenon, <1>1, <1>7, <2>1, <3>2 DEF IInv, TypeOK
      <4> QED
        BY Zenon, <1>3, <4>1, <4>2
    <3> QED
      BY <3>1, <3>2
  <2> QED
    BY Zenon, <1>1, <1>3, <1>4, <2>3, AnnouncedBy DEF connVars
<1> QED
  BY <1>6, <1>8, <1>9, <1>10 DEF IInv

LEMMA TellUnsubscribedKeeps ==
    ASSUME IInv, NEW t \in Thread, TellUnsubscribed(t)
    PROVE  IInv'
<1> DEFINE e == th[t].event
           p == IF th[t].op = "unsubscribe" THEN "return" ELSE "unsubscribe"
<1>1. /\ Calling(t) \/ Removing(t)
      /\ e \in Event /\ th[t].pc = "tell_unsubscribed" /\ Telling(t, e)
  BY Zenon DEF TellUnsubscribed, Calling, Removing, At, IInv, Places, WellFormed, Telling
<1>2. /\ Go(t, p) /\ told' = [told EXCEPT ![e] = FALSE]
      /\ UNCHANGED <<connVars, rec_client, subscriber, update_requester>>
  BY Zenon DEF TellUnsubscribed, recordVars, serverVars, clientVars, connVars
<1>3. /\ Only(t) /\ th'[t].pc = p /\ th'[t].on = th[t].on /\ th'[t].ret = th[t].ret
      /\ th'[t].event = th[t].event /\ th'[t].op = th[t].op /\ th'[t].todo = th[t].todo
  BY Zenon, <1>2, GoOnly DEF IInv, Pc
<1>4. /\ (Calling(t)' <=> Calling(t)) /\ (Removing(t)' <=> Removing(t))
  BY Zenon, <1>1, <1>3 DEF Calling, Removing, At
<1>5. Places' /\ Introductions' /\ Tokens' /\ Links' /\ Sights'
  BY Zenon, <1>1, <1>2, <1>3, <1>4, StaysThere
<1>6. TypeOK'
  BY Zenon, <1>1, <1>2, <1>3 DEF IInv, TypeOK, Only, connVars
<1>7. Subscriptions'
  <2>1. \A u \in Thread : Removing(u)' => Removing(u) /\ th'[u].todo = th[u].todo
    BY Zenon, <1>3, <1>4, Unmoved DEF Only
  <2> QED
    BY Zenon, <1>2, <2>1 DEF IInv, Subscriptions, connVars
<1>8. Announcements'
  <2>1. \A k : Telling(t, k) <=> k = e
    BY Zenon, <1>1 DEF Telling
  <2>2. server # "disabling" => subscriber[e] = None
    BY <1>1 DEF IInv, Announcements
  <2>3. ASSUME NEW k \in Event, server # "disabling" PROVE told'[k] <=> subscriber'[k] # None
    <3>1. CASE k = e
      BY Zenon, <1>1, <1>2, <2>2, <2>3, <3>1 DEF IInv, TypeOK
    <3>2. CASE k # e
      <4>1. told[k] <=> subscriber[k] # None
        BY Zenon, <1>1, <2>1, <2>3, <3>2, AnnouncedBefore
      <4>2. told'[k] = told[k]
        BY Zenon, <1>1, <1>2, <3>2 DEF IInv, TypeOK
      <4> QED
        BY Zenon, <1>2, <4>1, <4>2
    <3> QED
      BY <3>1, <3>2
  <2>4. th'[t].pc \notin {"tell_subscribed", "tell_unsubscribed"}
    BY Zenon, <1>3
  <2> QED
    BY Zenon, <1>1, <1>2, <1>3, <2>3, <2>4, AnnouncedBy DEF connVars
<1> QED
  BY Zenon, <1>5, <1>6, <1>7, <1>8 DEF IInv

LEMMA UnsubscribeNextKeeps ==
    ASSUME IInv, NEW t \in Thread, UnsubscribeNext(t)
    PROVE  IInv'
<1>1. th[t].pc = "unsubscribe" /\ Removing(t) /\ th[t] \in ThreadState
  BY Zenon DEF UnsubscribeNext, Removing, At, IInv, Places, WellFormed, TypeOK
<1>2. PICK e \in th[t].todo :
        /\ subscriber' = [subscriber EXCEPT ![e] = None]
        /\ update_requester' = [update_requester EXCEPT ![e] = None]
        /\ th' = [th EXCEPT ![t].todo = @ \ {e}, ![t].event = e,
                            ![t].pc = IF subscriber[e] = None THEN @ ELSE "tell_unsubscribed"]
  BY Zenon DEF UnsubscribeNext
<1>3. UNCHANGED <<connVars, rec_client, told>>
  BY DEF UnsubscribeNext, recordVars, clientVars, appVars, connVars
<1> DEFINE p == IF subscriber[e] = None THEN "unsubscribe" ELSE "tell_unsubscribed"
           r == [th[t] EXCEPT !.todo = th[t].todo \ {e}, !.event = e, !.pc = p]
<1>4. e \in Event
  BY <1>1, <1>2 DEF ThreadState
<1>5. th' = [th EXCEPT ![t] = r]
  BY Zenon, <1>1, <1>2 DEF IInv, TypeOK
<1>6. r \in ThreadState
  <2>1. p \in Pc /\ th[t].todo \ {e} \in SUBSET Event
    BY Zenon, <1>1 DEF ThreadState, Pc
  <2> HIDE DEF p
  <2> QED
    BY Zenon, <1>1, <1>4, <2>1 DEF ThreadState
<1>7. /\ r.pc = p /\ r.on = th[t].on /\ r.ret = th[t].ret /\ r.event = e /\ r.op = th[t].op
      /\ r.todo = th[t].todo \ {e}
  BY <1>1 DEF ThreadState
<1>8. /\ p \in {"unsubscribe", "tell_unsubscribed"}
      /\ (p = "unsubscribe" <=> subscriber[e] = None)
  OBVIOUS
<1> HIDE DEF r, p
<1>9. Only(t) /\ th'[t] = r
  BY Zenon, <1>5, <1>6, SetOnly DEF IInv
<1>10. Removing(t)'
  BY <1>1, <1>7, <1>8, <1>9 DEF Removing
<1>11. Places' /\ Introductions' /\ Tokens' /\ Links' /\ Sights'
  BY Zenon, <1>1, <1>3, <1>4, <1>7, <1>9, <1>10, StaysThere
<1>12. TypeOK'
  BY Zenon, <1>2, <1>3, <1>4, <1>9 DEF IInv, TypeOK, Only, connVars
<1>13. Subscriptions'
  <2>1. \A k \in Event : /\ subscriber'[k] \in {subscriber[k], None}
                         /\ update_requester'[k] \in {update_requester[k], None}
                         /\ k = e => subscriber'[k] = None /\ update_requester'[k] = None
    BY Zenon, <1>2, <1>4 DEF IInv, TypeOK
  <2>2. \A u \in Thread : Removing(u)' => Removing(u) /\ Event \ th'[u].todo \subseteq (Event \ th[u].todo) \cup {e}
    BY Zenon, <1>1, <1>7, <1>9, Unmoved DEF Only
  <2>3. m_client' = m_client
    BY <1>3 DEF connVars
  <2> QED
    BY Zenon, <2>1, <2>2, <2>3 DEF IInv, Subscriptions
<1>14. Announcements'
  <2>1. \A k : ~Telling(t, k)
    BY Zenon, <1>1 DEF Telling
  <2>2. \A k : Telling(t, k)' <=> k = e /\ subscriber[e] # None
    BY <1>7, <1>8, <1>9 DEF Telling
  <2>3. subscriber'[e] = None /\ \A k \in Event \ {e} : subscriber'[k] = subscriber[k]
    BY Zenon, <1>2, <1>4 DEF IInv, TypeOK
  <2>4. server # "disabling" => \A k \in Event : ~Telling(t, k)' => (told'[k] <=> subscriber'[k] # None)
    BY <1>1, <1>3, <2>1, <2>2, <2>3, AnnouncedBefore
  <2> QED
    BY Zenon, <1>1, <1>3, <1>7, <1>8, <1>9, <2>3, <2>4, AnnouncedBy DEF connVars
<1> QED
  BY <1>11, <1>12, <1>13, <1>14 DEF IInv


-----------------------------------------------------------------------------
(* What a step of one thread has to show.                                   *)

\* The places of the thread that moves, and of it alone, are at stake.
LEMMA PlacesKeep ==
    ASSUME IInv, NEW t \in Thread, Only(t), WellFormed(t)',
           \A c \in Client \ {t} : client'[c] = client[c],
           t # "server" => server' = server,
           t = "server" => ServerPlace',
           t = "events" => EventsPlace',
           t \in Client => ClientPlace(t)'
    PROVE  Places'
<1>1. Places /\ Only(t)
  BY DEF IInv
<1>2. ASSUME NEW u \in Thread PROVE WellFormed(u)'
  BY Zenon, <1>1, Unmoved DEF Places, WellFormed, Only
<1>3. EventsPlace'
  BY <1>1 DEF Places, EventsPlace, Only, Thread
<1>4. ServerPlace'
  <2>1. CASE t # "server"
    <3>1. "server" \in Thread \ {t}
      BY <2>1 DEF Thread
    <3>2. th'["server"] = th["server"] /\ server' = server /\ ServerPlace
      BY <1>1, <2>1, <3>1 DEF Only, Places
    <3>3. (Introducing("server")' <=> Introducing("server")) /\ (Leaving("server")' <=> Leaving("server"))
      BY Zenon, <3>2, Unmoved
    <3> QED
      BY Zenon, <3>2, <3>3 DEF ServerPlace
  <2> QED
    BY <2>1
<1>5. ASSUME NEW c \in Client PROVE ClientPlace(c)'
  <2>1. CASE c # t
    <3>1. c \in Thread \ {t}
      BY <2>1 DEF Thread
    <3>2. th'[c] = th[c] /\ client'[c] = client[c] /\ ClientPlace(c)
      BY <1>1, <2>1, <3>1 DEF Only, Places
    <3>3. /\ Introducing(c)' <=> Introducing(c)
          /\ Calling(c)' <=> Calling(c)
          /\ Removing(c)' <=> Removing(c)
      BY Zenon, <3>2, Unmoved
    <3> QED
      BY Zenon, <3>2, <3>3 DEF ClientPlace
  <2> QED
    BY <2>1
<1> QED
  BY Zenon, <1>2, <1>3, <1>4, <1>5 DEF Places

\* The subscriptions and the thread are not about each other.
LEMMA NothingAnnounced ==
    ASSUME IInv, NEW t \in Thread, Only(t), UNCHANGED <<subscriber, told>>,
           {th[t].pc, th'[t].pc} \cap {"tell_subscribed", "tell_unsubscribed"} = {},
           server' # "disabling" => server # "disabling"
    PROVE  Announcements'
<1>1. \A u \in Thread : th'[u].pc \in {"tell_subscribed", "tell_unsubscribed"} =>
                            th'[u].pc = th[u].pc /\ th'[u].event = th[u].event
  BY Zenon DEF Only
<1>2. \A u \in Thread, e \in Event : Telling(u, e)' <=> Telling(u, e)
  BY Zenon DEF Only, Telling
<1> QED
  BY Zenon, <1>1, <1>2 DEF IInv, Announcements

LEMMA SubscriptionsKeep ==
    ASSUME IInv, NEW t \in Thread, Only(t), ~Removing(t)', m_client' = m_client,
           \A k \in Event : /\ subscriber'[k] \in {subscriber[k], None}
                            /\ update_requester'[k] \in {update_requester[k], None}
    PROVE  Subscriptions'
<1>1. \A u \in Thread : Removing(u)' => Removing(u) /\ th'[u] = th[u]
  BY Unmoved DEF Only
<1> QED
  BY <1>1 DEF IInv, Subscriptions

LEMMA IntroductionsKeep ==
    ASSUME IInv, NEW t \in Thread, Only(t), UNCHANGED <<rec_server, server, stop>>,
           Introducing(t)' => Introducing(t) /\ th'[t].on = th[t].on,
           t = "server" => /\ th'[t].pc = "reset_tokens" <=> th[t].pc = "reset_tokens"
                           /\ th'[t].pc = "wait_clients" \/ Leaving(t)' => stop = {},
           \A u \in Thread : th'[u].pc \in {"indicate", "connect"} => m_client' # th'[u].on
    PROVE  Introductions'
<1>1. \A u \in Thread \ {t} : th'[u] = th[u]
  BY Zenon DEF Only
<1>2. \A u \in Thread : Introducing(u)' => Introducing(u) /\ th'[u].on = th[u].on
  BY Zenon, <1>1, Unmoved
<1>3. /\ th'["server"].pc = "reset_tokens" <=> th["server"].pc = "reset_tokens"
      /\ server = "disabled" \/ th'["server"].pc = "wait_clients" \/ Leaving("server")' => stop = {}
  BY Zenon, <1>1, Unmoved DEF IInv, Introductions, Thread
<1> QED
  BY Zenon, <1>2, <1>3 DEF IInv, Introductions

LEMMA TokensKeep ==
    ASSUME IInv, NEW t \in Thread, Only(t), UNCHANGED <<client, m_client>>,
           \A c \in Client : /\ token'[c] \ {t} = token[c] \ {t}
                             /\ client[c] = "absent" => token'[c] = {},
           Holding(t)' => t \in token'[th'[t].on]
    PROVE  Tokens'
<1>1. t # "member" /\ t # "connection"
  BY NameAssumption DEF Thread
<1>2. \A c \in Client : /\ "member" \in token'[c] <=> "member" \in token[c]
                        /\ "connection" \in token'[c] <=> "connection" \in token[c]
  BY <1>1
<1>3. \A u \in Thread \ {t} : Holding(u)' => u \in token'[th'[u].on]
  <2>1. \A u \in Thread \ {t} : th'[u] = th[u] /\ (Holding(u)' <=> Holding(u))
    BY Zenon, Unmoved DEF Only
  <2>2. \A u \in Thread : Holding(u) => u \in token[th[u].on] /\ th[u].on \in Client
    BY Zenon DEF IInv, Tokens, Places, WellFormed
  <2> QED
    BY <2>1, <2>2
<1> QED
  BY <1>2, <1>3 DEF IInv, Tokens

LEMMA TokensSame ==
    ASSUME IInv, NEW t \in Thread, Only(t), UNCHANGED <<client, m_client, token>>,
           Holding(t)' => t \in token[th'[t].on]
    PROVE  Tokens'
<1>1. \A c \in Client : client[c] = "absent" => token[c] = {}
  BY Zenon DEF IInv, Tokens
<1>2. \A c \in Client : /\ token'[c] \ {t} = token[c] \ {t}
                        /\ client[c] = "absent" => token'[c] = {}
  BY Zenon, <1>1
<1> QED
  BY Zenon, <1>2, TokensKeep

LEMMA OwnAdds ==
    ASSUME IInv, NEW c \in Client, token[c] # {}, NEW x \in {"member", "connection"} \cup Thread,
           token' = [token EXCEPT ![c] = @ \cup {x}]
    PROVE  /\ token' \in [Client -> SUBSET ({"member", "connection"} \cup Thread)]
           /\ \A d \in Client : /\ token'[d] \ {x} = token[d] \ {x}
                                /\ client[d] = "absent" => token'[d] = {}
           /\ x \in token'[c]
<1>1. /\ \A d \in Client : d # c => token'[d] = token[d]
      /\ token'[c] = token[c] \cup {x}
  BY Zenon DEF IInv, TypeOK
<1>2. token[c] \cup {x} \in SUBSET ({"member", "connection"} \cup Thread)
  BY Zenon DEF IInv, TypeOK
<1>3. token' \in [Client -> SUBSET ({"member", "connection"} \cup Thread)]
  BY Zenon, <1>2 DEF IInv, TypeOK
<1>4. \A d \in Client : token'[d] \ {x} = token[d] \ {x}
  BY Zenon, <1>1
<1>5. \A d \in Client : client[d] = "absent" => token'[d] = {}
  BY Zenon, <1>1 DEF IInv, Tokens
<1> QED
  BY Zenon, <1>1, <1>3, <1>4, <1>5

LEMMA DisownDrops ==
    ASSUME IInv, NEW c \in Client, NEW x \in Thread, token' = [token EXCEPT ![c] = @ \ {x}]
    PROVE  \A d \in Client : /\ token'[d] \ {x} = token[d] \ {x}
                             /\ client[d] = "absent" => token'[d] = {}
<1>1. /\ \A d \in Client : d # c => token'[d] = token[d]
      /\ token'[c] = token[c] \ {x}
  BY Zenon DEF IInv, TypeOK
<1>2. \A d \in Client : token'[d] \ {x} = token[d] \ {x}
  BY Zenon, <1>1
<1>3. \A d \in Client : client[d] = "absent" => token[d] = {}
  BY Zenon DEF IInv, Tokens
<1>4. \A d \in Client : client[d] = "absent" => token'[d] = {}
  BY Zenon, <1>1, <1>3
<1> QED
  BY Zenon, <1>2, <1>4

LEMMA LinksKeep ==
    ASSUME IInv, NEW t \in Thread, Only(t), UNCHANGED <<all, m_client, link>>,
           server' = "disabled" => all = {},
           "member" \in all => "member" \in stop',
           ~Removing(t), ~Removing(t)',
           Linked(t)' => Linked(t) /\ th'[t].on = th[t].on,
           Calling(t)' => Calling(t)
    PROVE  Links'
<1>1. \A u \in Thread \ {t} : th'[u] = th[u]
  BY DEF Only
<1>2. \A u \in Thread : /\ Removing(u)' <=> Removing(u)
                        /\ Removing(u) => th'[u].on = th[u].on
                        /\ Calling(u)' => Calling(u)
                        /\ Linked(u)' => Linked(u) /\ th'[u].on = th[u].on
  BY Zenon, <1>1, Unmoved
<1>3. Links
  BY Zenon DEF IInv
<1>4. /\ \A c \in Client :
            /\ c \in all <=> m_client = c
            /\ m_client = c <=> link[c] # {} \/ \E u \in Thread : Removing(u) /\ th[u].on = c
      /\ \A u \in Thread : Linked(u) => u \in link[th[u].on]
      /\ \A u \in Thread : Removing(u) => link[th[u].on] = {}
      /\ \A u, v \in Thread : Removing(u) /\ Removing(v) => u = v
      /\ \A u, v \in Thread : Calling(u) /\ Calling(v) => u = v
  BY Zenon, <1>3 DEF Links
<1>5. \A c \in Client : (\E u \in Thread : Removing(u)' /\ th'[u].on = c) <=>
                          (\E u \in Thread : Removing(u) /\ th[u].on = c)
  BY Zenon, <1>2
<1>6. \A c \in Client :
        /\ c \in all' <=> m_client' = c
        /\ m_client' = c <=> link'[c] # {} \/ \E u \in Thread : Removing(u)' /\ th'[u].on = c
  BY Zenon, <1>4, <1>5
<1>7. /\ \A u \in Thread : Linked(u)' => u \in link'[th'[u].on]
      /\ \A u \in Thread : Removing(u)' => link'[th'[u].on] = {}
  BY Zenon, <1>2, <1>4
<1>8. /\ \A u, v \in Thread : Removing(u)' /\ Removing(v)' => u = v
      /\ \A u, v \in Thread : Calling(u)' /\ Calling(v)' => u = v
  BY Zenon, <1>2, <1>4
<1> QED
  BY Zenon, <1>6, <1>7, <1>8 DEF Links

LEMMA SightsKeep ==
    ASSUME IInv, NEW t \in Thread, Only(t), UNCHANGED <<client, seen>>,
           \A c \in Client : "member" \in link[c] => "member" \in link'[c],
           t = "server" => \A c \in Client : Parting(c) => Parting(c)',
           th'[t].pc \in {"indicate", "connect", "set_server"} =>
              seen[th'[t].on] = "not_available" \/ client[th'[t].on] = "destructing",
           th'[t].pc = "available" =>
              /\ seen[th'[t].on] = "not_available"
              /\ "member" \in link'[th'[t].on] \/ client[th'[t].on] = "destructing"
    PROVE  Sights'
<1>1. \A u \in Thread \ {t} : th'[u] = th[u]
  BY Zenon DEF Only
<1>2. \A c \in Client : Parting(c) => Parting(c)'
  BY Zenon, <1>1, Unmoved DEF Parting, Thread
<1>3. \A u \in Thread : th[u].pc = "available" => th[u].on \in Client
  BY Zenon DEF IInv, Places, WellFormed, Linked
<1>4. /\ \A c \in Client :
            /\ client[c] = "absent" => seen[c] = "not_available"
            /\ client[c] \in {"constructing", "live"} /\ seen[c] = "available" =>
                  "member" \in link[c] \/ Parting(c)
      /\ \A u \in Thread :
            /\ th[u].pc \in {"indicate", "connect", "set_server"} =>
                  seen[th[u].on] = "not_available" \/ client[th[u].on] = "destructing"
            /\ th[u].pc = "available" =>
                  /\ seen[th[u].on] = "not_available"
                  /\ "member" \in link[th[u].on] \/ client[th[u].on] = "destructing"
  BY Zenon DEF IInv, Sights
<1>5. \A c \in Client :
        /\ client'[c] = "absent" => seen'[c] = "not_available"
        /\ client'[c] \in {"constructing", "live"} /\ seen'[c] = "available" =>
              "member" \in link'[c] \/ Parting(c)'
  BY Zenon, <1>2, <1>4
<1>6. ASSUME NEW u \in Thread, th'[u].pc \in {"indicate", "connect", "set_server"}
      PROVE  seen'[th'[u].on] = "not_available" \/ client'[th'[u].on] = "destructing"
  <2>1. CASE u = t
    BY Zenon, <1>6, <2>1
  <2>2. CASE u # t
    <3>1. th'[u] = th[u]
      BY Zenon, <1>1, <2>2
    <3> QED
      BY Zenon, <1>4, <1>6, <3>1
  <2> QED
    BY Zenon, <2>1, <2>2
<1>7. ASSUME NEW u \in Thread, th'[u].pc = "available"
      PROVE  /\ seen'[th'[u].on] = "not_available"
             /\ "member" \in link'[th'[u].on] \/ client'[th'[u].on] = "destructing"
  <2>1. CASE u = t
    BY Zenon, <1>7, <2>1
  <2>2. CASE u # t
    <3>1. th'[u] = th[u]
      BY Zenon, <1>1, <2>2
    <3> QED
      BY Zenon, <1>3, <1>4, <1>7, <3>1
  <2> QED
    BY Zenon, <2>1, <2>2
<1> QED
  BY Zenon, <1>5, <1>6, <1>7 DEF Sights

LEMMA SightsMove ==
    ASSUME IInv,
           \A c \in Client :
              /\ client'[c] = "absent" => seen'[c] = "not_available"
              /\ client'[c] \in {"constructing", "live"} /\ seen'[c] = "available" =>
                    "member" \in link'[c] \/ Parting(c)',
           \A u \in Thread : th'[u].pc \in {"indicate", "connect", "set_server", "available"} =>
              /\ th'[u] = th[u]
              /\ seen[th[u].on] = "not_available" => seen'[th[u].on] = "not_available"
              /\ \/ client[th[u].on] = "destructing" => client'[th[u].on] = "destructing"
                 \/ th[u].pc = "indicate" /\ seen'[th[u].on] = "not_available"
              /\ th[u].pc = "available" /\ "member" \in link[th[u].on] =>
                    "member" \in link'[th[u].on] \/ client'[th[u].on] = "destructing"
    PROVE  Sights'
<1>1. \A u \in Thread :
        /\ th[u].pc \in {"indicate", "connect", "set_server"} =>
              seen[th[u].on] = "not_available" \/ client[th[u].on] = "destructing"
        /\ th[u].pc = "available" =>
              /\ seen[th[u].on] = "not_available"
              /\ "member" \in link[th[u].on] \/ client[th[u].on] = "destructing"
  BY Zenon DEF IInv, Sights
<1>2. ASSUME NEW u \in Thread, th'[u].pc \in {"indicate", "connect", "set_server"}
      PROVE  seen'[th'[u].on] = "not_available" \/ client'[th'[u].on] = "destructing"
  <2>1. th'[u].pc \in {"indicate", "connect", "set_server", "available"}
    BY Zenon, <1>2
  <2>2. /\ th'[u] = th[u]
        /\ seen[th[u].on] = "not_available" => seen'[th[u].on] = "not_available"
        /\ \/ client[th[u].on] = "destructing" => client'[th[u].on] = "destructing"
           \/ seen'[th[u].on] = "not_available"
    BY Zenon, <2>1
  <2>3. seen[th[u].on] = "not_available" \/ client[th[u].on] = "destructing"
    BY Zenon, <1>1, <1>2, <2>2
  <2> QED
    BY Zenon, <2>2, <2>3
<1>3. ASSUME NEW u \in Thread, th'[u].pc = "available"
      PROVE  /\ seen'[th'[u].on] = "not_available"
             /\ "member" \in link'[th'[u].on] \/ client'[th'[u].on] = "destructing"
  <2>1. th'[u].pc \in {"indicate", "connect", "set_server", "available"} /\ th'[u].pc # "indicate"
    BY Zenon, <1>3
  <2>2. /\ th'[u] = th[u]
        /\ seen[th[u].on] = "not_available" => seen'[th[u].on] = "not_available"
    BY Zenon, <2>1
  <2>3. th[u].pc = "available" /\ th[u].pc # "indicate"
    BY Zenon, <1>3, <2>1, <2>2
  <2>4. /\ client[th[u].on] = "destructing" => client'[th[u].on] = "destructing"
        /\ "member" \in link[th[u].on] =>
              "member" \in link'[th[u].on] \/ client'[th[u].on] = "destructing"
    BY Zenon, <2>1, <2>3
  <2>5. /\ seen[th[u].on] = "not_available"
        /\ "member" \in link[th[u].on] \/ client[th[u].on] = "destructing"
    BY Zenon, <1>1, <2>3
  <2> QED
    BY Zenon, <2>2, <2>4, <2>5
<1> QED
  BY Zenon, <1>2, <1>3 DEF Sights

iinvVars == <<connVars, rec_client, subscriber, update_requester, told, th>>

LEMMA SameState ==
    ASSUME IInv, UNCHANGED iinvVars
    PROVE  IInv'
<1>1. \A t : th'[t] = th[t]
  BY Zenon DEF iinvVars
<1>2. TypeOK'
  BY DEF IInv, TypeOK, iinvVars, connVars
<1>3. Places'
  BY Zenon, <1>1, Unmoved
  DEF IInv, Places, WellFormed, EventsPlace, ServerPlace, ClientPlace, iinvVars, connVars
<1>4. UNCHANGED <<rec_server, server, stop, all, m_client, subscriber, update_requester, client,
                  token, link, seen, told>>
  BY Zenon DEF iinvVars, connVars
<1>5. \A t : /\ Introducing(t)' <=> Introducing(t)
             /\ Holding(t)' <=> Holding(t)
             /\ Linked(t)' <=> Linked(t)
             /\ Removing(t)' <=> Removing(t)
             /\ Calling(t)' <=> Calling(t)
             /\ Leaving(t)' <=> Leaving(t)
  BY Zenon, <1>1, Unmoved
<1>6. Introductions'
  BY Zenon, <1>1, <1>4, <1>5 DEF IInv, Introductions
<1>7. Tokens'
  BY Zenon, <1>1, <1>4, <1>5 DEF IInv, Tokens
<1>8. Links'
  <2>1. Links
    BY Zenon DEF IInv
  <2>2. \A c : (\E u \in Thread : Removing(u)' /\ th'[u].on = c) <=>
               (\E u \in Thread : Removing(u) /\ th[u].on = c)
    BY Zenon, <1>1, <1>5
  <2> QED
    BY Zenon, <1>1, <1>4, <1>5, <2>1, <2>2 DEF Links
<1>9. Subscriptions'
  BY Zenon, <1>1, <1>4, <1>5 DEF IInv, Subscriptions
<1>10. Announcements'
  BY Zenon, <1>1, <1>4 DEF IInv, Announcements, Telling
<1>11. Sights'
  <2>1. \A c : Parting(c)' <=> Parting(c)
    BY Zenon, <1>1, <1>5 DEF Parting
  <2>2. Sights
    BY Zenon DEF IInv
  <2> QED
    BY Zenon, <1>1, <1>4, <2>1, <2>2 DEF Sights
<1> QED
  BY Zenon, <1>2, <1>3, <1>6, <1>7, <1>8, <1>9, <1>10, <1>11 DEF IInv

-----------------------------------------------------------------------------
(* Events and replies.                                                      *)

LEMMA DeliverKeeps ==
    ASSUME IInv, NEW c \in Client, th["events"].pc = "idle", token[c] # {}, Deliver(c),
           \A k \in Event : update_requester'[k] \in {update_requester[k], None},
           update_requester' \in [Event -> Client \cup {None}],
           UNCHANGED <<rec_server, rec_client, server, stop, all, m_client, subscriber, client,
                       link, seen, told>>
    PROVE  IInv'
<1> DEFINE t == "events"
           r == [th[t] EXCEPT !.pc = "deliver", !.on = c]
<1>1. t \in Thread /\ th[t] \in ThreadState
  BY Zenon DEF Thread, IInv, TypeOK
<1>2. r \in ThreadState /\ r.pc = "deliver" /\ r.on = c
  BY Zenon, <1>1 DEF ThreadState, Pc
<1>3. th' = [th EXCEPT ![t] = r]
  BY Zenon, <1>1 DEF Deliver, IInv, TypeOK
<1>4. Only(t) /\ th'[t] = r
  BY Zenon, <1>1, <1>2, <1>3, SetOnly DEF IInv
<1> HIDE DEF r
<1>5. token' = [token EXCEPT ![c] = @ \cup {t}]
  BY DEF Deliver, Own
<1>6. /\ ~Calling(t)' /\ ~Removing(t)' /\ ~Introducing(t)' /\ ~Leaving(t)' /\ ~Linked(t)'
      /\ Holding(t)' /\ ~Connecting(t)'
      /\ ~Removing(t) /\ ~Calling(t)
  BY Zenon, <1>2, <1>4 DEF Calling, Removing, Introducing, Connecting, Leaving, Linked, Holding, At
<1>7. t \notin Client /\ t # "server" /\ t # "member" /\ t # "connection"
  BY NameAssumption
<1>8. \A u \in Thread \ {t} : th'[u] = th[u]
  BY <1>4 DEF Only
<1>9. TypeOK'
  BY <1>1, <1>4, <1>5 DEF IInv, TypeOK, Only
<1>10. Places'
  <2>1. WellFormed(t)' /\ EventsPlace'
    BY Zenon, <1>2, <1>4, <1>6 DEF WellFormed, EventsPlace
  <2> QED
    BY Zenon, <1>1, <1>4, <1>7, <2>1, PlacesKeep
<1>11. Introductions'
  <2>1. th'[t].pc \notin {"indicate", "connect"}
    BY Zenon, <1>2, <1>4
  <2>2. \A u \in Thread : th'[u].pc \in {"indicate", "connect"} => m_client' # th'[u].on
    BY Zenon, <1>8, <2>1 DEF IInv, Introductions
  <2> QED
    BY Zenon, <1>1, <1>4, <1>6, <1>7, <2>2, IntroductionsKeep
<1>12. Tokens'
  <2>1. \A d \in Client : /\ d # c => token'[d] = token[d]
                          /\ token'[c] = token[c] \cup {t}
    BY Zenon, <1>5 DEF IInv, TypeOK
  <2>2. \A d \in Client : token'[d] \ {t} = token[d] \ {t}
    BY Zenon, <2>1
  <2>3. \A d \in Client : client[d] = "absent" => token'[d] = {}
    BY Zenon, <2>1 DEF IInv, Tokens
  <2>4. t \in token'[th'[t].on]
    BY Zenon, <1>2, <1>4, <2>1
  <2> QED
    BY Zenon, <1>1, <1>4, <2>2, <2>3, <2>4, TokensKeep
<1>13. Links'
  <2>1. /\ server = "disabled" => all = {}
        /\ "member" \in all => "member" \in stop
    BY Zenon DEF IInv, Links
  <2> QED
    BY Zenon, <1>1, <1>4, <1>6, <2>1, LinksKeep
<1>14. Subscriptions'
  BY Zenon, <1>1, <1>4, <1>6, SubscriptionsKeep
<1>15. Announcements'
  BY Zenon, <1>1, <1>2, <1>4, NothingAnnounced
<1>16. Sights'
  <2>1. th'[t].pc \notin {"indicate", "connect", "set_server"} /\ th'[t].pc # "available"
    BY Zenon, <1>2, <1>4
  <2> QED
    BY Zenon, <1>1, <1>4, <1>7, <2>1, SightsKeep
<1> QED
  BY <1>9, <1>10, <1>11, <1>12, <1>13, <1>14, <1>15, <1>16 DEF IInv

LEMMA EventsKeep ==
    ASSUME IInv, \/ \E e \in Event : UpdateEvent(e) \/ UpdateRequestedEvent(e)
                 \/ \E c \in Client : Reply(c)
    PROVE  IInv'
<1> USE DEF recordVars, serverVars, clientVars, appVars
<1>1. ASSUME NEW e \in Event, UpdateEvent(e) PROVE IInv'
  <2>1. subscriber[e] \in Client /\ token[subscriber[e]] # {}
    <3>1. subscriber[e] # None
      BY Zenon, <1>1 DEF UpdateEvent
    <3>2. subscriber[e] \in Client /\ subscriber[e] = m_client
      <4>1. subscriber[e] \in Client \cup {None}
        BY Zenon DEF IInv, TypeOK
      <4>2. subscriber[e] \in {m_client, None}
        BY Zenon DEF IInv, Subscriptions
      <4> QED
        BY Zenon, <3>1, <4>1, <4>2
    <3> QED
      BY Zenon, <3>2 DEF IInv, Tokens
  <2> QED
    BY Zenon, <1>1, <2>1, DeliverKeeps DEF UpdateEvent, At, IInv, TypeOK
<1>2. ASSUME NEW e \in Event, UpdateRequestedEvent(e) PROVE IInv'
  <2>1. update_requester[e] \in Client /\ token[update_requester[e]] # {}
    <3>1. update_requester[e] # None
      BY Zenon, <1>2 DEF UpdateRequestedEvent
    <3>2. update_requester[e] \in Client /\ update_requester[e] = m_client
      <4>1. update_requester[e] \in Client \cup {None}
        BY Zenon DEF IInv, TypeOK
      <4>2. update_requester[e] \in {m_client, None}
        BY Zenon DEF IInv, Subscriptions
      <4> QED
        BY Zenon, <3>1, <4>1, <4>2
    <3> QED
      BY Zenon, <3>2 DEF IInv, Tokens
  <2>2. /\ update_requester' \in [Event -> Client \cup {None}]
        /\ \A k \in Event : update_requester'[k] \in {update_requester[k], None}
    BY Zenon, <1>2 DEF UpdateRequestedEvent, IInv, TypeOK
  <2> QED
    BY Zenon, <1>2, <2>1, <2>2, DeliverKeeps DEF UpdateRequestedEvent, At
<1>3. ASSUME NEW c \in Client, Reply(c) PROVE IInv'
  <2>1. CASE token[c] = {}
    BY Zenon, <1>3, <2>1, SameState DEF Reply, iinvVars, connVars
  <2>2. CASE token[c] # {}
    BY Zenon, <1>3, <2>2, DeliverKeeps DEF Reply, At, IInv, TypeOK
  <2> QED
    BY <2>1, <2>2
<1> QED
  BY <1>1, <1>2, <1>3


LEMMA DeliveredKeeps ==
    ASSUME IInv, Delivered
    PROVE  IInv'
<1> DEFINE t == "events"
           c == th[t].on
<1>1. t \in Thread /\ Holding(t) /\ c \in Client /\ th[t].pc = "deliver"
  BY Zenon DEF Delivered, At, Thread, Holding, IInv, Places, WellFormed
<1>2. /\ Only(t) /\ th'[t].pc = "idle"
      /\ token' = [token EXCEPT ![c] = @ \ {t}]
      /\ UNCHANGED <<rec_server, rec_client, server, stop, all, m_client, subscriber,
                     update_requester, client, link, seen, told>>
  BY Zenon, <1>1, BackOnly DEF Delivered, Disown, recordVars, serverVars, appVars, IInv
<1>3. /\ ~Calling(t)' /\ ~Removing(t)' /\ ~Introducing(t)' /\ ~Leaving(t)' /\ ~Linked(t)'
      /\ ~Holding(t)' /\ ~Removing(t)
  BY Zenon, <1>1, <1>2 DEF Calling, Removing, Introducing, Connecting, Leaving, Linked, Holding, At
<1>4. t \notin Client /\ t # "server"
  BY NameAssumption
<1>5. TypeOK'
  BY Zenon, <1>1, <1>2 DEF IInv, TypeOK, Only
<1>6. Places'
  BY Zenon, <1>1, <1>2, <1>3, <1>4, PlacesKeep DEF WellFormed, EventsPlace
<1>7. Introductions'
  <2>1. \A u \in Thread : th'[u].pc \in {"indicate", "connect"} => m_client' # th'[u].on
    BY Zenon, <1>2 DEF IInv, Introductions, Only
  <2> QED
    BY Zenon, <1>1, <1>2, <1>3, <1>4, <2>1, IntroductionsKeep
<1>8. Tokens'
  <2>1. \A d \in Client : /\ token'[d] \ {t} = token[d] \ {t}
                          /\ client[d] = "absent" => token'[d] = {}
    <3>1. c \in Client /\ token' = [token EXCEPT ![c] = @ \ {t}]
      BY Zenon, <1>1, <1>2
    <3> QED
      BY Zenon, <1>1, <3>1, DisownDrops
  <2> QED
    BY Zenon, <1>1, <1>2, <1>3, <2>1, TokensKeep
<1>9. Links'
  BY Zenon, <1>1, <1>2, <1>3, LinksKeep DEF IInv, Links
<1>10. Subscriptions' /\ Announcements' /\ Sights'
  BY Zenon, <1>1, <1>2, <1>3, <1>4, SubscriptionsKeep, NothingAnnounced, SightsKeep
<1> QED
  BY <1>5, <1>6, <1>7, <1>8, <1>9, <1>10 DEF IInv

\* A thread that introduces belongs to enable() or to make_client_connector().
LEMMA Introducer ==
    ASSUME IInv, NEW t \in Thread,
           Introducing(t) \/ th[t].pc = "registered"
    PROVE  /\ t # "events"
           /\ t = "server" => server = "enabling"
           /\ t \in Client => client[t] = "constructing" /\ th[t].on = t
<1>1. t = "events" => FALSE
  BY Zenon DEF IInv, Places, EventsPlace, Introducing, Connecting, Calling, Removing, At
<1>2. ASSUME t = "server" PROVE server = "enabling"
  BY Zenon, <1>2 DEF IInv, Places, ServerPlace, Introducing, Connecting, Calling, Removing, At, Leaving
<1>3. ASSUME t \in Client PROVE client[t] = "constructing" /\ th[t].on = t
  <2>1. ClientPlace(t)
    BY <1>3 DEF IInv, Places
  <2> QED
    BY Zenon, <2>1 DEF ClientPlace, Introducing, Connecting, Calling, Removing, At
<1> QED
  BY Zenon, <1>1, <1>2, <1>3

\* A step of an introduction that ends it or goes on with it.
LEMMA IntroducerPlaces ==
    ASSUME IInv, NEW t \in Thread, Introducing(t), Only(t), th'[t].on = th[t].on,
           Introducing(t)' \/ th'[t].pc = "registered", WellFormed(t)',
           UNCHANGED <<server, client>>
    PROVE  Places'
<1>1. /\ t # "events"
      /\ t = "server" => server = "enabling"
      /\ t \in Client => client[t] = "constructing" /\ th[t].on = t
  BY Zenon, Introducer
<1> QED
  BY Zenon, <1>1, PlacesKeep DEF ServerPlace, ClientPlace

LEMMA TellAvailableKeeps ==
    ASSUME IInv, NEW t \in Thread, TellAvailable(t)
    PROVE  IInv'
<1> DEFINE c == th[t].on
<1>1. /\ th[t].pc = "available" /\ Go(t, "callback")
      /\ seen' = [seen EXCEPT ![c] = "available"]
      /\ UNCHANGED <<rec_server, rec_client, server, stop, all, m_client, subscriber,
                     update_requester, client, link, token, told>>
  BY Zenon DEF TellAvailable, At, recordVars, serverVars, clientVars
<1>2. Only(t) /\ th'[t].pc = "callback" /\ th'[t].on = c
  BY Zenon, <1>1, GoOnly DEF IInv, Pc
<1>3. /\ Introducing(t) /\ Linked(t) /\ Holding(t) /\ ~Removing(t)
      /\ Introducing(t)' /\ Linked(t)' /\ Holding(t)' /\ ~Removing(t)'
      /\ ~Calling(t)' /\ ~Leaving(t)'
  BY Zenon, <1>1, <1>2 DEF Calling, Removing, Introducing, Connecting, Leaving, Linked, Holding, At
<1>4. c \in Client /\ t \in token[c] /\ client[c] # "absent"
  BY Zenon, <1>3 DEF IInv, Places, WellFormed, Tokens
<1>5. TypeOK'
  BY Zenon, <1>1, <1>2, <1>4 DEF IInv, TypeOK, Only
<1>6. Places'
  BY Zenon, <1>1, <1>2, <1>3, <1>4, IntroducerPlaces DEF WellFormed
<1>7. Introductions'
  <2>1. \A u \in Thread : th'[u].pc \in {"indicate", "connect"} => m_client' # th'[u].on
    BY Zenon, <1>1, <1>2 DEF IInv, Introductions, Only
  <2> QED
    BY Zenon, <1>1, <1>2, <1>3, <2>1, IntroductionsKeep
<1>8. Tokens'
  BY Zenon, <1>1, <1>2, <1>3, <1>4, TokensSame
<1>9. Links'
  BY Zenon, <1>1, <1>2, <1>3, LinksKeep DEF IInv, Links
<1>10. Subscriptions' /\ Announcements'
  BY Zenon, <1>1, <1>2, <1>3, SubscriptionsKeep, NothingAnnounced
<1>11. Sights'
  <2>1. \A u \in Thread \ {t} : th'[u] = th[u]
    BY Zenon, <1>2 DEF Only
  <2>2. \A d \in Client : Parting(d) => Parting(d)'
    BY Zenon, <1>1, <2>1, Unmoved DEF Parting, Thread, Removing
  <2>3. ASSUME NEW u \in Thread, th'[u].pc \in {"indicate", "connect", "set_server", "available"}
        PROVE  u # t /\ th[u].on # c /\ th[u].on \in Client /\ th'[u] = th[u]
    <3>1. u # t /\ th'[u] = th[u]
      BY Zenon, <1>2, <2>1, <2>3
    <3>2. Introducing(u) /\ th[u].on \in Client
      BY Zenon, <2>3, <3>1 DEF Introducing, Connecting, IInv, Places, WellFormed, Holding
    <3> QED
      BY Zenon, <1>3, <3>1, <3>2 DEF IInv, Introductions
  <2>4. \A d \in Client : d # c => seen'[d] = seen[d]
    BY Zenon, <1>1 DEF IInv, TypeOK
  <2>5. "member" \in link[c] \/ client[c] = "destructing"
    BY Zenon, <1>1 DEF IInv, Sights
  <2>6. \A d \in Client :
          /\ client'[d] = "absent" => seen'[d] = "not_available"
          /\ client'[d] \in {"constructing", "live"} /\ seen'[d] = "available" =>
                "member" \in link'[d] \/ Parting(d)'
    BY Zenon, <1>1, <1>4, <2>2, <2>4, <2>5 DEF IInv, Sights
  <2>7. \A u \in Thread :
          /\ th'[u].pc \in {"indicate", "connect", "set_server"} =>
                seen'[th'[u].on] = "not_available" \/ client'[th'[u].on] = "destructing"
          /\ th'[u].pc = "available" =>
                /\ seen'[th'[u].on] = "not_available"
                /\ "member" \in link'[th'[u].on] \/ client'[th'[u].on] = "destructing"
    <3>1. \A u \in Thread :
            /\ th[u].pc \in {"indicate", "connect", "set_server"} =>
                  seen[th[u].on] = "not_available" \/ client[th[u].on] = "destructing"
            /\ th[u].pc = "available" =>
                  /\ seen[th[u].on] = "not_available"
                  /\ "member" \in link[th[u].on] \/ client[th[u].on] = "destructing"
      BY Zenon DEF IInv, Sights
    <3>2. client' = client /\ link' = link
      BY Zenon, <1>1
    <3>3. \A u \in Thread : th'[u].pc \in {"indicate", "connect", "set_server", "available"} =>
              th'[u] = th[u] /\ seen'[th'[u].on] = seen[th[u].on]
      BY Zenon, <2>3, <2>4
    <3>4. \A x : /\ x \in {"indicate", "connect", "set_server"} =>
                       x \in {"indicate", "connect", "set_server", "available"}
                 /\ x = "available" => x \in {"indicate", "connect", "set_server", "available"}
      BY Zenon
    <3>5. \A u \in Thread : th'[u].pc \in {"indicate", "connect", "set_server"} =>
              seen'[th'[u].on] = "not_available" \/ client'[th'[u].on] = "destructing"
      <4>1. SUFFICES ASSUME NEW u \in Thread, th'[u].pc \in {"indicate", "connect", "set_server"}
                     PROVE  seen'[th'[u].on] = "not_available" \/ client'[th'[u].on] = "destructing"
        BY Zenon
      <4>2. th'[u] = th[u] /\ seen'[th'[u].on] = seen[th[u].on]
        BY Zenon, <3>3, <3>4, <4>1
      <4> QED
        BY Zenon, <3>1, <3>2, <4>1, <4>2
    <3>6. \A u \in Thread : th'[u].pc = "available" =>
              /\ seen'[th'[u].on] = "not_available"
              /\ "member" \in link'[th'[u].on] \/ client'[th'[u].on] = "destructing"
      <4>1. SUFFICES ASSUME NEW u \in Thread, th'[u].pc = "available"
                     PROVE  /\ seen'[th'[u].on] = "not_available"
                            /\ "member" \in link'[th'[u].on] \/ client'[th'[u].on] = "destructing"
        BY Zenon
      <4>2. th'[u] = th[u] /\ seen'[th'[u].on] = seen[th[u].on]
        BY Zenon, <3>3, <3>4, <4>1
      <4> QED
        BY Zenon, <3>1, <3>2, <4>1, <4>2
    <3> QED
      BY Zenon, <3>5, <3>6
  <2> QED
    BY Zenon, <2>6, <2>7 DEF Sights
<1> QED
  BY <1>5, <1>6, <1>7, <1>8, <1>9, <1>10, <1>11 DEF IInv


-----------------------------------------------------------------------------
(* Letting go of a connection.                                              *)

\* What a thread that let go of a connection is doing, and what it leaves.
LetGoKept(t, c, o, p) ==
    /\ Only(t) /\ ~Linked(t)' /\ ~Calling(t)'
    /\ Removing(t)' <=> link[c] = {o}
    /\ Removing(t)' => th'[t].ret = p /\ th'[t].on = c /\ th'[t].pc = "unsubscribe"
                         /\ th'[t].op = None
    /\ ~Removing(t)' => th'[t].pc = p /\ (p # "idle" => th'[t].on = c)
    /\ link' \in [Client -> SUBSET ({"member"} \cup Thread)]
    /\ \A d \in Client : link'[d] = IF d = c THEN link[c] \ {o} ELSE link[d]
    /\ Links' /\ Subscriptions'

LEMMA LetGoLinks ==
    ASSUME IInv, NEW t \in Thread, NEW c \in Client, NEW o \in {"member", t}, o \in link[c],
           NEW p \in {"idle", "drop", "tell_gone", "unregister"}, LetGo(t, c, o, p),
           ~Removing(t), Linked(t) => o = t,
           UNCHANGED <<all, m_client, server, stop, subscriber, update_requester>>
    PROVE  LetGoKept(t, c, o, p)
<1>1. /\ Only(t)
      /\ link' = [link EXCEPT ![c] = @ \ {o}]
      /\ link[c] = {o} => /\ th'[t].pc = "unsubscribe" /\ th'[t].todo = Event
                          /\ th'[t].ret = p /\ th'[t].on = c /\ th'[t].op = None
      /\ link[c] # {o} => th'[t].pc = p /\ (p # "idle" => th'[t].on = c)
  <2>1. TypeOK
    BY Zenon DEF IInv
  <2>2. LetGoDone(t, c, o, p)
    BY Zenon, <2>1, LetGoOnly
  <2> QED
    BY Zenon, <2>2 DEF LetGoDone
<1> USE DEF IInv
<1>2. /\ link' \in [Client -> SUBSET ({"member"} \cup Thread)]
      /\ \A d \in Client : link'[d] = IF d = c THEN link[c] \ {o} ELSE link[d]
  BY Zenon, <1>1 DEF TypeOK
<1>3. /\ ~Linked(t)' /\ ~Calling(t)'
      /\ Removing(t)' <=> link[c] = {o}
  BY Zenon, <1>1 DEF Calling, Removing, Linked, At, None
<1>4. m_client = c /\ \A u \in Thread : ~Removing(u)
  BY Zenon DEF Links, Places, WellFormed
<1>5. \A u \in Thread \ {t} : /\ th'[u] = th[u]
                              /\ ~Removing(u)'
                              /\ Linked(u)' <=> Linked(u)
                              /\ Calling(u)' <=> Calling(u)
  BY Zenon, <1>1, <1>4, Unmoved DEF Only
<1>6. \A u \in Thread \ {t} : u # o
  BY Zenon, NameAssumption DEF Thread
<1>7. Links'
  <2>1. \A u \in Thread : Linked(u)' => u \in link'[th'[u].on]
    <3>1. \A u \in Thread \ {t} : Linked(u) => u \in link[th[u].on] /\ th[u].on \in Client
      BY Zenon DEF Links, Places, WellFormed
    <3>2. ASSUME NEW u \in Thread \ {t}, Linked(u)
          PROVE  u \in link'[th[u].on]
      <4>1. th[u].on \in Client /\ u \in link[th[u].on] /\ u # o
        BY Zenon, <1>6, <3>1, <3>2
      <4> QED
        BY <1>2, <4>1
    <3> QED
      BY Zenon, <1>3, <1>5, <3>2
  <2>2. \A u \in Thread : Removing(u)' => u = t /\ link'[th'[u].on] = {}
    <3>1. \A u \in Thread : Removing(u)' => u = t
      BY Zenon, <1>5
    <3>2. Removing(t)' => th'[t].on = c /\ link'[c] = {}
      <4>1. link[c] = {o} => link[c] \ {o} = {}
        BY Zenon
      <4>2. link'[c] = link[c] \ {o}
        BY Zenon, <1>2
      <4> QED
        BY Zenon, <1>1, <1>3, <4>1, <4>2
    <3> QED
      BY Zenon, <3>1, <3>2
  <2>3. \A d \in Client :
          m_client' = d <=> link'[d] # {} \/ \E u \in Thread : Removing(u)' /\ th'[u].on = d
    <3>1. \A d \in Client \ {c} : link'[d] = {}
      BY Zenon, <1>2, <1>4 DEF Links
    <3>2. CASE link[c] = {o}
      <4>1. link'[c] = {}
        BY Zenon, <1>1, <1>2, <3>2
      <4>2. Removing(t)' /\ th'[t].on = c
        BY Zenon, <1>1, <1>3, <3>2
      <4>3. \A u \in Thread : Removing(u)' => u = t
        BY Zenon, <1>5
      <4> QED
        BY Zenon, <1>4, <3>1, <4>1, <4>2, <4>3
    <3>3. CASE link[c] # {o}
      <4>1. link'[c] # {}
        BY Zenon, <1>2, <3>3
      <4>2. \A u \in Thread : ~Removing(u)'
        BY Zenon, <1>3, <1>5, <3>3
      <4> QED
        BY Zenon, <1>4, <3>1, <4>1, <4>2
    <3> QED
      BY Zenon, <3>2, <3>3
  <2>4. \A u, v \in Thread : Calling(u)' /\ Calling(v)' => u = v
    BY Zenon, <1>3, <1>5 DEF Links
  <2>5. /\ \A d \in Client : d \in all' <=> m_client' = d
        /\ server' = "disabled" => all' = {}
        /\ "member" \in all' => "member" \in stop'
    BY Zenon DEF Links
  <2>6. \A u, v \in Thread : Removing(u)' /\ Removing(v)' => u = v
    BY Zenon, <2>2
  <2> QED
    BY Zenon, <2>1, <2>2, <2>3, <2>4, <2>5, <2>6 DEF Links
<1>8. Subscriptions'
  <2>1. \A u \in Thread : Removing(u)' => th'[u].todo = Event
    BY Zenon, <1>1, <1>3, <1>5
  <2> QED
    BY Zenon, <2>1 DEF Subscriptions
<1> QED
  BY Zenon, <1>1, <1>2, <1>3, <1>7, <1>8 DEF LetGoKept

\* connect_return goes, in the callback or because the client is destructed.
LEMMA DropConnection ==
    ASSUME IInv, NEW t \in Thread,
           th[t].pc \in {"set_server", "callback", "called"}, LetGo(t, th[t].on, t, "drop"),
           UNCHANGED <<recordVars, serverVars, client, token, appVars>>
    PROVE  IInv'
<1> DEFINE c == th[t].on
<1>1. UNCHANGED <<rec_server, rec_client, server, stop, all, m_client, subscriber,
                  update_requester, client, token, seen, told>>
  BY Zenon DEF recordVars, serverVars, appVars
<1>2. /\ Introducing(t) /\ Linked(t) /\ Holding(t) /\ ~Removing(t)
  BY Zenon DEF Calling, Removing, Introducing, Connecting, Linked, Holding, At
<1>3. c \in Client /\ t \in link[c] /\ t \in token[c]
  BY Zenon, <1>2 DEF IInv, Places, WellFormed, Links, Tokens
<1>4. /\ Only(t) /\ ~Linked(t)' /\ ~Calling(t)'
      /\ Removing(t)' => th'[t].ret = "drop" /\ th'[t].on = c /\ th'[t].pc = "unsubscribe"
                           /\ th'[t].op = None
      /\ ~Removing(t)' => th'[t].pc = "drop" /\ th'[t].on = c
      /\ link' \in [Client -> SUBSET ({"member"} \cup Thread)]
      /\ \A d \in Client : link'[d] = IF d = c THEN link[c] \ {t} ELSE link[d]
      /\ Links' /\ Subscriptions'
  <2>1. LetGoKept(t, c, t, "drop")
    BY Zenon, <1>1, <1>2, <1>3, LetGoLinks
  <2> QED
    BY Zenon, <2>1 DEF LetGoKept
<1>5. /\ th'[t].on = c /\ th'[t].pc \in {"unsubscribe", "drop"}
      /\ Introducing(t)' /\ Holding(t)' /\ ~Leaving(t)'
  BY Zenon, <1>4 DEF Introducing, Connecting, Holding, Leaving
<1>6. TypeOK'
  BY Zenon, <1>1, <1>4 DEF IInv, TypeOK, Only
<1>7. Places'
  <2>1. WellFormed(t)'
    BY Zenon, <1>3, <1>4, <1>5 DEF WellFormed, None
  <2> QED
    BY Zenon, <1>1, <1>2, <1>4, <1>5, <2>1, IntroducerPlaces
<1>8. Introductions'
  <2>1. \A u \in Thread : th'[u].pc \in {"indicate", "connect"} => m_client' # th'[u].on
    <3>1. \A u \in Thread : th[u].pc \in {"indicate", "connect"} => m_client # th[u].on
      BY Zenon DEF IInv, Introductions
    <3>2. \A u \in Thread \ {t} : th'[u] = th[u]
      BY Zenon, <1>4 DEF Only
    <3>3. th'[t].pc \notin {"indicate", "connect"}
      BY <1>5
    <3> QED
      BY Zenon, <1>1, <3>1, <3>2, <3>3
  <2> QED
    BY Zenon, <1>1, <1>2, <1>4, <1>5, <2>1, IntroductionsKeep
<1>9. Tokens'
  <2>1. \A d \in Client : client[d] = "absent" => token[d] = {}
    BY Zenon DEF IInv, Tokens
  <2> QED
    BY Zenon, <1>1, <1>3, <1>4, <1>5, <2>1, TokensKeep
<1>10. Announcements'
  BY Zenon, <1>1, <1>4, <1>5, NothingAnnounced
<1>11. Sights'
  <2>1. t # "member"
    BY Zenon, NameAssumption DEF Thread
  <2>2. \A d \in Client : ~(t = "server" /\ Parting(d))
    BY <1>2 DEF Parting
  <2> QED
    BY Zenon, <1>1, <1>4, <1>5, <2>1, <2>2, SightsKeep
<1> QED
  BY Zenon, <1>4, <1>6, <1>7, <1>8, <1>9, <1>10, <1>11 DEF IInv


\* A call outside of a callback comes from the client's own thread.
LEMMA OwnCall ==
    ASSUME IInv, NEW t \in Thread, Calling(t) \/ Removing(t)
    PROVE  /\ Calling(t) /\ th[t].ret # "called" =>
                t \in Client /\ client[t] = "live" /\ th[t].ret = "idle" /\ th[t].on = t
           /\ t = "server" => Introducing(t) \/ Leaving(t)
<1>1. t # "events"
  BY Zenon DEF IInv, Places, EventsPlace, Calling, Removing, At
<1>2. th[t].pc \in {"call", "tell_subscribed", "tell_requested", "return",
                    "tell_unsubscribed", "unsubscribe"}
  BY DEF Calling, Removing, At
<1>3. CASE t = "server"
  <2>1. ServerPlace
    BY DEF IInv, Places
  <2>2. Introducing(t) \/ Leaving(t)
    BY <1>2, <1>3, <2>1 DEF ServerPlace
  <2>3. Calling(t) => th[t].ret = "called"
    BY Zenon, <1>2, <2>2 DEF Introducing, Connecting, Leaving, Calling, Removing, At
  <2> QED
    BY <1>3, <2>2, <2>3
<1>4. CASE t \in Client
  <2>1. ClientPlace(t) /\ t # "server"
    BY Zenon, <1>4, NameAssumption DEF IInv, Places
  <2>2. Calling(t) /\ th[t].ret # "called" => ~Introducing(t) /\ ~Removing(t)
    BY Zenon, <1>2 DEF Introducing, Connecting, Calling, Removing, At
  <2> QED
    BY Zenon, <1>2, <1>4, <2>1, <2>2 DEF ClientPlace
<1> QED
  BY <1>1, <1>3, <1>4 DEF Thread

LEMMA SetServerKeeps ==
    ASSUME IInv, NEW t \in Thread, SetServer(t)
    PROVE  IInv'
<1> DEFINE c == th[t].on
<1>1. th[t].pc = "set_server" /\ UNCHANGED <<recordVars, serverVars, client, token, appVars>>
  BY Zenon DEF SetServer, At
<1>2. CASE "member" \notin token[c]
  BY Zenon, <1>1, <1>2, DropConnection DEF SetServer
<1>3. CASE "member" \in token[c]
  <2>1. link' = [link EXCEPT ![c] = @ \cup {"member"}] /\ Go(t, "available")
    BY Zenon, <1>3 DEF SetServer, Own
  <2>2. UNCHANGED <<rec_server, rec_client, server, stop, all, m_client, subscriber,
                    update_requester, client, token, seen, told>>
    BY Zenon, <1>1 DEF recordVars, serverVars, appVars
  <2>3. Only(t) /\ th'[t].pc = "available" /\ th'[t].on = c
    BY Zenon, <2>1, GoOnly DEF IInv, Pc
  <2>4. /\ Introducing(t) /\ Linked(t) /\ Holding(t) /\ ~Removing(t) /\ ~Calling(t)
        /\ Introducing(t)' /\ Linked(t)' /\ Holding(t)' /\ ~Removing(t)' /\ ~Calling(t)'
        /\ ~Leaving(t)'
    BY Zenon, <1>1, <2>3 DEF Calling, Removing, Introducing, Connecting, Linked, Holding, Leaving, At
  <2>5. c \in Client /\ t \in link[c] /\ t \in token[c]
    BY Zenon, <2>4 DEF IInv, Places, WellFormed, Links, Tokens
  <2>6. /\ link' \in [Client -> SUBSET ({"member"} \cup Thread)]
        /\ \A d \in Client : link'[d] = IF d = c THEN link[c] \cup {"member"} ELSE link[d]
    BY Zenon, <2>1, <2>5 DEF IInv, TypeOK
  <2>7. TypeOK'
    BY Zenon, <2>2, <2>3, <2>6 DEF IInv, TypeOK, Only
  <2>8. Places'
    BY Zenon, <2>2, <2>3, <2>4, <2>5, IntroducerPlaces DEF WellFormed
  <2>9. Introductions'
    <3>1. \A u \in Thread : th'[u].pc \in {"indicate", "connect"} => m_client' # th'[u].on
      BY Zenon, <2>2, <2>3 DEF IInv, Introductions, Only
    <3> QED
      BY Zenon, <1>1, <2>2, <2>3, <2>4, <3>1, IntroductionsKeep
  <2>10. Tokens'
    BY Zenon, <2>2, <2>3, <2>4, <2>5, TokensSame
  <2>11. Links'
    <3>1. \A u \in Thread \ {t} : th'[u] = th[u]
      BY Zenon, <2>3 DEF Only
    <3>2. \A u \in Thread : /\ Removing(u)' <=> Removing(u)
                            /\ Linked(u)' <=> Linked(u)
                            /\ Calling(u)' <=> Calling(u)
                            /\ th'[u].on = th[u].on
      BY Zenon, <2>3, <2>4, <3>1, Unmoved
    <3>3. m_client = c /\ \A u \in Thread : ~Removing(u)
      <4>1. m_client = c
        BY Zenon, <2>5 DEF IInv, Links
      <4>2. \A u \in Thread : Removing(u) => th[u].on = c /\ link[th[u].on] = {}
        <5>1. \A u \in Thread : Removing(u) => th[u].on \in Client /\ link[th[u].on] = {}
          BY Zenon DEF IInv, Links, Places, WellFormed
        <5>2. \A u \in Thread : Removing(u) => \A d \in Client : th[u].on = d => m_client = d
          BY Zenon DEF IInv, Links
        <5> QED
          BY Zenon, <4>1, <5>1, <5>2
      <4> QED
        BY Zenon, <2>5, <4>1, <4>2
    <3>4. \A d \in Client : link'[d] # {} <=> link[d] # {}
      BY Zenon, <2>5, <2>6
    <3>5. \A u \in Thread : Linked(u) => th[u].on \in Client
      BY Zenon DEF IInv, Places, WellFormed
    <3>6. \A d \in Client :
            /\ d \in all' <=> m_client' = d
            /\ m_client' = d <=> link'[d] # {} \/ \E u \in Thread : Removing(u)' /\ th'[u].on = d
      <4>1. \A d \in Client :
              /\ d \in all <=> m_client = d
              /\ m_client = d <=> link[d] # {} \/ \E u \in Thread : Removing(u) /\ th[u].on = d
        BY Zenon DEF IInv, Links
      <4> QED
        BY Zenon, <2>2, <3>2, <3>4, <4>1
    <3>7. \A u \in Thread : Linked(u)' => u \in link'[th'[u].on]
      <4>1. \A u \in Thread : Linked(u) => u \in link[th[u].on]
        BY Zenon DEF IInv, Links
      <4>2. \A d \in Client : link[d] \subseteq link'[d]
        BY <2>6
      <4> QED
        BY Zenon, <3>2, <3>5, <4>1, <4>2
    <3>8. /\ server' = "disabled" => all' = {}
          /\ "member" \in all' => "member" \in stop'
          /\ \A u, v \in Thread : Calling(u)' /\ Calling(v)' => u = v
      BY Zenon, <2>2, <3>2 DEF IInv, Links
    <3> QED
      BY Zenon, <3>2, <3>3, <3>6, <3>7, <3>8 DEF Links
  <2>12. Subscriptions' /\ Announcements'
    BY Zenon, <1>1, <2>2, <2>3, <2>4, SubscriptionsKeep, NothingAnnounced
  <2>13. Sights'
    <3>1. seen[c] = "not_available"
      BY Zenon, <1>1, <1>3, <2>5 DEF IInv, Tokens, Sights
    <3>2. \A d \in Client : ~(t = "server" /\ Parting(d))
      BY Zenon, <1>1, <2>4 DEF Parting
    <3> QED
      BY Zenon, <2>2, <2>3, <2>5, <2>6, <3>1, <3>2, SightsKeep
  <2> QED
    BY Zenon, <2>7, <2>8, <2>9, <2>10, <2>11, <2>12, <2>13 DEF IInv
<1> QED
  BY <1>2, <1>3

LEMMA EndCallbackKeeps ==
    ASSUME IInv, NEW t \in Thread, EndCallback(t)
    PROVE  IInv'
BY Zenon, DropConnection DEF EndCallback, At


LEMMA ReturnKeeps ==
    ASSUME IInv, NEW t \in Thread, Return(t)
    PROVE  IInv'
<1> DEFINE c == th[t].on
<1>1. /\ th[t].pc = "return" /\ Calling(t) /\ Linked(t) /\ ~Removing(t)
      /\ c \in Client /\ t \in link[c] /\ th[t].event \in Event
  BY Zenon DEF Return, At, Calling, Linked, Removing, IInv, Places, WellFormed, Links
<1>2. UNCHANGED <<rec_server, rec_client, server, stop, all, m_client, subscriber,
                  update_requester, client, token, seen, told>>
  BY Zenon DEF Return, recordVars, serverVars, appVars
<1>3. CASE th[t].ret = "called"
  <2>1. Go(t, "called") /\ UNCHANGED link
    BY Zenon, <1>3 DEF Return
  <2>2. Only(t) /\ th'[t].pc = "called" /\ th'[t].on = c
    BY Zenon, <2>1, GoOnly DEF IInv, Pc
  <2>3. /\ Introducing(t) /\ Holding(t)
        /\ Introducing(t)' /\ Linked(t)' /\ Holding(t)' /\ ~Removing(t)' /\ ~Calling(t)'
        /\ ~Leaving(t)'
    BY Zenon, <1>1, <1>3, <2>2 DEF Calling, Removing, Introducing, Connecting, Linked, Holding, Leaving, At
  <2>4. t \in token[c]
    BY Zenon, <2>3 DEF IInv, Tokens
  <2>5. TypeOK'
    BY Zenon, <1>2, <2>1, <2>2 DEF IInv, TypeOK, Only
  <2>6. Places'
    BY Zenon, <1>1, <1>2, <2>2, <2>3, IntroducerPlaces DEF WellFormed
  <2>7. Introductions'
    <3>1. \A u \in Thread : th'[u].pc \in {"indicate", "connect"} => m_client' # th'[u].on
      BY Zenon, <1>2, <2>2 DEF IInv, Introductions, Only
    <3> QED
      BY Zenon, <1>1, <1>2, <2>2, <2>3, <3>1, IntroductionsKeep
  <2>8. Tokens'
    BY Zenon, <1>2, <2>2, <2>3, <2>4, TokensSame
  <2>9. Links'
    BY Zenon, <1>1, <1>2, <2>1, <2>2, <2>3, LinksKeep DEF IInv, Links
  <2>10. Subscriptions' /\ Announcements'
    BY Zenon, <1>1, <1>2, <2>2, <2>3, SubscriptionsKeep, NothingAnnounced
  <2>11. Sights'
    <3>1. \A d \in Client : ~(t = "server" /\ Parting(d))
      BY Zenon, <1>1 DEF Parting
    <3> QED
      BY Zenon, <1>2, <2>1, <2>2, <3>1, SightsKeep
  <2> QED
    BY <2>5, <2>6, <2>7, <2>8, <2>9, <2>10, <2>11 DEF IInv
<1>4. CASE th[t].ret # "called"
  <2>1. t \in Client /\ client[t] = "live" /\ th[t].ret = "idle" /\ c = t /\ t # "server" /\ t # "events"
    BY Zenon, <1>1, <1>4, OwnCall, NameAssumption
  <2>2. LetGo(t, c, t, "idle")
    BY Zenon, <1>4 DEF Return
  <2>3. /\ Only(t) /\ ~Linked(t)' /\ ~Calling(t)'
        /\ Removing(t)' => th'[t].ret = "idle" /\ th'[t].on = c /\ th'[t].pc = "unsubscribe"
                             /\ th'[t].op = None
        /\ ~Removing(t)' => th'[t].pc = "idle"
        /\ link' \in [Client -> SUBSET ({"member"} \cup Thread)]
        /\ \A d \in Client : link'[d] = IF d = c THEN link[c] \ {t} ELSE link[d]
        /\ Links' /\ Subscriptions'
    <3>1. LetGoKept(t, c, t, "idle")
      BY Zenon, <1>1, <1>2, <2>2, LetGoLinks
    <3> QED
      BY Zenon, <3>1 DEF LetGoKept
  <2>4. /\ th'[t].pc \in {"unsubscribe", "idle"}
        /\ ~Introducing(t)' /\ ~Holding(t)' /\ ~Leaving(t)'
    BY Zenon, <2>3 DEF Introducing, Connecting, Holding, Leaving, Calling, Removing, At
  <2>5. TypeOK'
    BY Zenon, <1>2, <2>3 DEF IInv, TypeOK, Only
  <2>6. Places'
    <3>1. WellFormed(t)' /\ ClientPlace(t)'
      BY Zenon, <1>1, <1>2, <2>1, <2>3, <2>4 DEF WellFormed, ClientPlace, None
    <3> QED
      BY Zenon, <1>2, <2>1, <2>3, <3>1, PlacesKeep
  <2>7. Introductions'
    <3>1. \A u \in Thread : th'[u].pc \in {"indicate", "connect"} => m_client' # th'[u].on
      BY Zenon, <1>2, <2>3, <2>4 DEF IInv, Introductions, Only
    <3> QED
      BY Zenon, <1>2, <2>1, <2>3, <2>4, <3>1, IntroductionsKeep
  <2>8. Tokens'
    BY Zenon, <1>2, <2>3, <2>4, TokensSame
  <2>9. Announcements'
    BY Zenon, <1>1, <1>2, <2>3, <2>4, NothingAnnounced
  <2>10. Sights'
    <3>1. t # "member"
      BY Zenon, NameAssumption DEF Thread
    <3> QED
      BY Zenon, <1>2, <2>1, <2>3, <2>4, <3>1, SightsKeep
  <2> QED
    BY Zenon, <2>3, <2>5, <2>6, <2>7, <2>8, <2>9, <2>10 DEF IInv
<1> QED
  BY <1>3, <1>4

-----------------------------------------------------------------------------
(* Introductions.                                                           *)

LEMMA IndicateKeeps ==
    ASSUME IInv, NEW t \in Thread, Indicate(t)
    PROVE  IInv'
<1> DEFINE c == th[t].on
<1>1. /\ th[t].pc = "indicate" /\ Introducing(t) /\ c \in Client
      /\ ~Calling(t) /\ ~Removing(t) /\ ~Linked(t) /\ ~Holding(t)
  BY Zenon DEF Indicate, At, Introducing, Connecting, IInv, Places, WellFormed, Calling, Removing, Linked,
         Holding, Leaving
<1>2. UNCHANGED <<rec_server, rec_client, server, stop, all, m_client, subscriber,
                  update_requester, client, link, seen, told>>
  BY Zenon DEF Indicate, recordVars, serverVars, appVars
<1>3. PICK p \in {"registered", "connect"} :
        /\ Go(t, p)
        /\ p = "registered" => token' = token
        /\ p = "connect" => token[c] # {} /\ token' = [token EXCEPT ![c] = @ \cup {t}]
  BY Zenon DEF Indicate, Own
<1>4. Only(t) /\ th'[t].pc = p /\ th'[t].on = c
  BY Zenon, <1>3, GoOnly DEF IInv, Pc
<1>5. /\ ~Calling(t)' /\ ~Removing(t)' /\ ~Linked(t)' /\ ~Leaving(t)'
      /\ Holding(t)' <=> p = "connect"
      /\ Introducing(t)' \/ p = "registered"
  BY Zenon, <1>4 DEF Introducing, Connecting, Calling, Removing, Linked, Holding, Leaving, At
<1>6. /\ token' \in [Client -> SUBSET ({"member", "connection"} \cup Thread)]
      /\ \A d \in Client : /\ token'[d] \ {t} = token[d] \ {t}
                           /\ client[d] = "absent" => token'[d] = {}
      /\ p = "connect" => t \in token'[c]
  <2>1. CASE p = "registered"
    <3>1. token' = token /\ p # "connect"
      BY Zenon, <1>3, <2>1
    <3>2. /\ token \in [Client -> SUBSET ({"member", "connection"} \cup Thread)]
          /\ \A d \in Client : client[d] = "absent" => token[d] = {}
      BY Zenon DEF IInv, TypeOK, Tokens
    <3> QED
      BY Zenon, <3>1, <3>2
  <2>2. CASE p = "connect"
    BY Zenon, <1>1, <1>3, <2>2, OwnAdds
  <2> QED
    BY Zenon, <2>1, <2>2
<1>7. TypeOK'
  BY Zenon, <1>2, <1>4, <1>6 DEF IInv, TypeOK, Only
<1>8. Places'
  BY Zenon, <1>1, <1>2, <1>4, <1>5, IntroducerPlaces DEF WellFormed
<1>9. Introductions'
  <2>1. \A u \in Thread : th'[u].pc \in {"indicate", "connect"} => m_client' # th'[u].on
    BY Zenon, <1>1, <1>2, <1>4 DEF IInv, Introductions, Only
  <2> QED
    BY Zenon, <1>1, <1>2, <1>4, <1>5, <2>1, IntroductionsKeep
<1>10. Tokens'
  BY Zenon, <1>2, <1>4, <1>5, <1>6, TokensKeep
<1>11. Links'
  BY Zenon, <1>1, <1>2, <1>4, <1>5, LinksKeep DEF IInv, Links
<1>12. Subscriptions' /\ Announcements'
  BY Zenon, <1>1, <1>2, <1>4, <1>5, SubscriptionsKeep, NothingAnnounced
<1>13. Sights'
  <2>1. \A d \in Client : ~(t = "server" /\ Parting(d))
    BY Zenon, <1>1 DEF Parting
  <2>2. seen[c] = "not_available" \/ client[c] = "destructing"
    BY Zenon, <1>1 DEF IInv, Sights
  <2> QED
    BY Zenon, <1>2, <1>4, <2>1, <2>2, SightsKeep
<1> QED
  BY <1>7, <1>8, <1>9, <1>10, <1>11, <1>12, <1>13 DEF IInv


\* receive(Connect) finds no connection: m_client is free.
LEMMA FreeToConnect ==
    ASSUME IInv, NEW t \in Thread, th[t].pc = "connect"
    PROVE  /\ th[t].on \in Client /\ t \in token[th[t].on] /\ client[th[t].on] # "absent"
           /\ m_client = None
           /\ \A d \in Client : link[d] = {}
           /\ \A u \in Thread : ~Removing(u) /\ ~Linked(u)
<1> USE DEF IInv
<1>1. Holding(t)
  BY Zenon DEF Holding, Connecting
<1>2. th[t].on \in Client /\ t \in token[th[t].on] /\ client[th[t].on] # "absent"
  BY Zenon, <1>1 DEF Places, WellFormed, Tokens
<1>3. m_client # th[t].on
  BY Zenon DEF Introductions
<1>4. m_client = None
  BY Zenon, <1>2, <1>3 DEF Tokens, TypeOK
<1>5. \A d \in Client : m_client # d
  BY Zenon, <1>4, NameAssumption
<1>6. /\ \A d \in Client : link[d] = {}
      /\ \A u \in Thread : Removing(u) => th[u].on \notin Client
  BY Zenon, <1>5 DEF Links
<1>7. \A u \in Thread : ~Removing(u) /\ ~Linked(u)
  BY Zenon, <1>6 DEF Places, WellFormed, Links
<1> QED
  BY Zenon, <1>2, <1>4, <1>6, <1>7

LEMMA ConnectKeeps ==
    ASSUME IInv, NEW t \in Thread, Connect(t)
    PROVE  IInv'
<1> DEFINE c == th[t].on
<1>1. /\ th[t].pc = "connect" /\ Introducing(t) /\ Holding(t) /\ ~Calling(t)
      /\ c \in Client /\ t \in token[c] /\ client[c] # "absent" /\ m_client = None
      /\ \A d \in Client : link[d] = {}
      /\ \A u \in Thread : ~Removing(u) /\ ~Linked(u)
  BY Zenon, FreeToConnect DEF Connect, At, Introducing, Connecting, Holding, Calling
<1>2. UNCHANGED <<rec_server, rec_client, server, stop, subscriber,
                  update_requester, client, seen, told>>
  BY DEF Connect, recordVars, appVars
<1>3. PICK p \in {"drop", "set_server"} :
        /\ Go(t, p)
        /\ p = "drop" => UNCHANGED <<m_client, token, link, all>>
        /\ p = "set_server" => /\ "member" \in stop /\ m_client' = c
                               /\ token' = [token EXCEPT ![c] = @ \cup {"connection"}]
                               /\ link' = [link EXCEPT ![c] = {t}]
                               /\ all' = all \cup {c}
  BY Zenon, <1>1 DEF Connect, Own
<1>4. Only(t) /\ th'[t].pc = p /\ th'[t].on = c
  <2>1. p \in Pc
    BY Zenon DEF Pc
  <2> QED
    BY Zenon, <1>3, <2>1, GoOnly DEF IInv
<1>5. /\ ~Calling(t)' /\ ~Removing(t)' /\ ~Leaving(t)' /\ Holding(t)' /\ Introducing(t)'
      /\ Linked(t)' <=> p = "set_server"
  BY Zenon, <1>4 DEF Introducing, Connecting, Calling, Removing, Linked, Holding, Leaving, At
<1>6. \A u \in Thread \ {t} : th'[u] = th[u] /\ ~Removing(u)' /\ ~Linked(u)'
  BY Zenon, <1>1, <1>4, Unmoved DEF Only
<1>7. TypeOK'
  <2>1. CASE p = "drop"
    BY Zenon, <1>2, <1>3, <1>4, <2>1 DEF IInv, TypeOK, Only
  <2>2. CASE p = "set_server"
    <3>1. m_client' \in Client \cup {None} /\ all' \subseteq {"member"} \cup Client
      BY Zenon, <1>1, <1>3, <2>2 DEF IInv, TypeOK
    <3>2. token' \in [Client -> SUBSET ({"member", "connection"} \cup Thread)]
      <4>1. token[c] \cup {"connection"} \in SUBSET ({"member", "connection"} \cup Thread)
        BY Zenon, <1>1 DEF IInv, TypeOK
      <4>2. token' = [token EXCEPT ![c] = token[c] \cup {"connection"}]
        BY Zenon, <1>3, <2>2
      <4>3. token \in [Client -> SUBSET ({"member", "connection"} \cup Thread)]
        BY Zenon DEF IInv, TypeOK
      <4> QED
        BY Zenon, <1>1, <4>1, <4>2, <4>3
    <3>3. {t} \in SUBSET ({"member"} \cup Thread)
      BY Zenon
    <3>4. link' \in [Client -> SUBSET ({"member"} \cup Thread)]
      BY Zenon, <1>1, <1>3, <2>2, <3>3 DEF IInv, TypeOK
    <3> QED
      BY Zenon, <1>2, <1>4, <3>1, <3>2, <3>4 DEF IInv, TypeOK, Only
  <2> QED
    BY Zenon, <1>3, <2>1, <2>2
<1>8. Places'
  BY Zenon, <1>1, <1>2, <1>4, <1>5, IntroducerPlaces DEF WellFormed
<1>9. Introductions'
  <2>1. ASSUME NEW u \in Thread, th'[u].pc \in {"indicate", "connect"} PROVE m_client' # th'[u].on
    <3>1. u # t /\ th'[u] = th[u]
      BY Zenon, <1>4, <1>6, <2>1
    <3>2. Introducing(u)
      BY Zenon, <2>1, <3>1 DEF Introducing, Connecting
    <3>3. th[u].on # c /\ m_client # th[u].on
      BY Zenon, <1>1, <2>1, <3>1, <3>2 DEF IInv, Introductions
    <3> QED
      BY Zenon, <1>3, <3>1, <3>3
  <2> QED
    BY Zenon, <1>1, <1>2, <1>4, <1>5, <2>1, IntroductionsKeep
<1>10. Tokens'
  <2>1. CASE p = "drop"
    BY Zenon, <1>1, <1>2, <1>3, <1>4, <1>5, <2>1, TokensSame
  <2>2. CASE p = "set_server"
    <3>1. \A d \in Client : /\ d # c => token'[d] = token[d]
                            /\ "member" \in token'[d] <=> "member" \in token[d]
                            /\ "connection" \in token'[d] <=> d = c
                            /\ token[d] \subseteq token'[d]
      <4>1. \A d \in Client : token'[d] = IF d = c THEN token[c] \cup {"connection"} ELSE token[d]
        BY Zenon, <1>1, <1>3, <2>2 DEF IInv, TypeOK
      <4>2. m_client = None /\ None \notin Client
        BY Zenon, <1>1, NameAssumption
      <4>3. \A d \in Client : "connection" \notin token[d]
        BY Zenon, <4>2 DEF IInv, Tokens
      <4>4. \A a : /\ a \in token[c] => a \in token[c] \cup {"connection"}
                   /\ "connection" \in token[c] \cup {"connection"}
                   /\ "member" \in token[c] \cup {"connection"} <=> "member" \in token[c]
        OBVIOUS
      <4> QED
        BY Zenon, <4>1, <4>3, <4>4
    <3>2. \A u \in Thread : Holding(u)' => u \in token'[th'[u].on]
      <4>1. t \in token'[th'[t].on]
        BY Zenon, <1>1, <1>4, <3>1
      <4>2. \A u \in Thread \ {t} : Holding(u)' => u \in token'[th'[u].on]
        BY Zenon, <1>6, <3>1, Unmoved DEF IInv, Tokens, Places, WellFormed
      <4> QED
        BY Zenon, <4>1, <4>2
    <3>3. \A a, d \in Client : client'[a] # "absent" /\ client'[d] # "absent" => a = d
      BY Zenon, <1>2 DEF IInv, Tokens
    <3>4. \A d \in Client :
            /\ client'[d] = "absent" => token'[d] = {}
            /\ "member" \in token'[d] <=> client'[d] \in {"constructing", "live"}
            /\ "connection" \in token'[d] <=> m_client' = d
      <4>1. client[c] # "absent"
        BY Zenon, <1>1 DEF IInv, Tokens
      <4>2. \A d \in Client : /\ client[d] = "absent" => token[d] = {}
                              /\ "member" \in token[d] <=> client[d] \in {"constructing", "live"}
        BY Zenon DEF IInv, Tokens
      <4>3. \A d \in Client : client'[d] = "absent" => token'[d] = {}
        BY Zenon, <1>2, <3>1, <4>1, <4>2
      <4>4. \A d \in Client : "member" \in token'[d] <=> client'[d] \in {"constructing", "live"}
        BY Zenon, <1>2, <3>1, <4>2
      <4>5. \A d \in Client : "connection" \in token'[d] <=> m_client' = d
        BY Zenon, <1>3, <2>2, <3>1
      <4> QED
        BY Zenon, <4>3, <4>4, <4>5
    <3> QED
      BY Zenon, <3>2, <3>3, <3>4 DEF Tokens
  <2> QED
    BY <1>3, <2>1, <2>2
<1>11. Links'
  <2>1. CASE p = "drop"
    BY Zenon, <1>1, <1>2, <1>3, <1>4, <1>5, <2>1, LinksKeep DEF IInv, Links
  <2>2. CASE p = "set_server"
    <3>1. \A u \in Thread : ~Removing(u)'
      BY Zenon, <1>5, <1>6
    <3>2. \A u \in Thread : Linked(u)' \/ Calling(u)' => u = t
      BY <1>6 DEF Linked
    <3>3. \A d \in Client : link'[d] = IF d = c THEN {t} ELSE {}
      BY Zenon, <1>1, <1>3, <2>2 DEF IInv, TypeOK
    <3>4. \A d \in Client : d \in all' <=> d = c
      <4>1. \A d \in Client : d \notin all
        BY Zenon, <1>1, NameAssumption DEF IInv, Links
      <4>2. all' = all \cup {c}
        BY Zenon, <1>3, <2>2
      <4> QED
        BY Zenon, <1>1, <4>1, <4>2
    <3>5. server # "disabled" /\ c # "member"
      BY Zenon, <1>1, <1>3, <2>2, NameAssumption DEF IInv, Introductions
    <3>6. \A d \in Client :
            /\ d \in all' <=> m_client' = d
            /\ m_client' = d <=> link'[d] # {} \/ \E u \in Thread : Removing(u)' /\ th'[u].on = d
      <4>1. m_client' = c
        BY Zenon, <1>3, <2>2
      <4>2. \A d \in Client : link'[d] # {} <=> d = c
        BY Zenon, <3>3
      <4> QED
        BY Zenon, <3>1, <3>4, <4>1, <4>2
    <3>7. \A u \in Thread : Linked(u)' => u \in link'[th'[u].on]
      <4>1. th'[t].on = c /\ link'[c] = {t}
        BY Zenon, <1>1, <1>4, <3>3
      <4> QED
        BY Zenon, <3>2, <4>1
    <3>8. /\ server' = "disabled" => all' = {}
          /\ "member" \in all' => "member" \in stop'
      BY Zenon, <1>2, <1>3, <2>2, <3>5
    <3> QED
      BY Zenon, <3>1, <3>2, <3>6, <3>7, <3>8 DEF Links
  <2> QED
    BY Zenon, <1>3, <2>1, <2>2
<1>12. Subscriptions'
  BY Zenon, <1>1, <1>2, <1>3, <1>5, <1>6 DEF IInv, Subscriptions
<1>13. Announcements'
  BY Zenon, <1>1, <1>2, <1>4, NothingAnnounced
<1>14. Sights'
  <2>1. \A d \in Client : ~(t = "server" /\ Parting(d))
    BY Zenon, <1>1 DEF Parting
  <2>2. seen[c] = "not_available" \/ client[c] = "destructing"
    BY Zenon, <1>1 DEF IInv, Sights
  <2> QED
    BY Zenon, <1>1, <1>2, <1>4, <2>1, <2>2, SightsKeep
<1> QED
  BY <1>7, <1>8, <1>9, <1>10, <1>11, <1>12, <1>13, <1>14 DEF IInv

LEMMA DropKeeps ==
    ASSUME IInv, NEW t \in Thread, Drop(t)
    PROVE  IInv'
<1> DEFINE c == th[t].on
<1>1. /\ th[t].pc = "drop" /\ Introducing(t) /\ Holding(t) /\ c \in Client
      /\ ~Calling(t) /\ ~Removing(t)
  BY Zenon DEF Drop, At, Introducing, Connecting, IInv, Places, WellFormed, Calling, Removing, Holding
<1>2. /\ Go(t, "registered") /\ token' = [token EXCEPT ![c] = @ \ {t}]
      /\ UNCHANGED <<rec_server, rec_client, server, stop, all, m_client, subscriber,
                     update_requester, client, link, seen, told>>
  BY Zenon DEF Drop, Disown, recordVars, serverVars, appVars
<1>3. Only(t) /\ th'[t].pc = "registered" /\ th'[t].on = c
  BY Zenon, <1>2, GoOnly DEF IInv, Pc
<1>4. /\ ~Calling(t)' /\ ~Removing(t)' /\ ~Linked(t)' /\ ~Leaving(t)' /\ ~Holding(t)'
      /\ ~Introducing(t)'
  BY Zenon, <1>3 DEF Introducing, Connecting, Calling, Removing, Linked, Holding, Leaving, At
<1>5. TypeOK'
  BY Zenon, <1>1, <1>2, <1>3 DEF IInv, TypeOK, Only
<1>6. Places'
  BY Zenon, <1>1, <1>2, <1>3, <1>4, IntroducerPlaces DEF WellFormed
<1>7. Introductions'
  <2>1. \A u \in Thread : th'[u].pc \in {"indicate", "connect"} => m_client' # th'[u].on
    BY Zenon, <1>2, <1>3 DEF IInv, Introductions, Only
  <2> QED
    BY Zenon, <1>1, <1>2, <1>3, <1>4, <2>1, IntroductionsKeep
<1>8. Tokens'
  <2>1. \A d \in Client : /\ token'[d] \ {t} = token[d] \ {t}
                          /\ client[d] = "absent" => token'[d] = {}
    <3>1. c \in Client /\ token' = [token EXCEPT ![c] = @ \ {t}]
      BY Zenon, <1>1, <1>2
    <3> QED
      BY Zenon, <3>1, DisownDrops
  <2> QED
    BY Zenon, <1>2, <1>3, <1>4, <2>1, TokensKeep
<1>9. Links'
  BY Zenon, <1>1, <1>2, <1>3, <1>4, LinksKeep DEF IInv, Links
<1>10. Subscriptions' /\ Announcements'
  BY Zenon, <1>1, <1>2, <1>3, <1>4, SubscriptionsKeep, NothingAnnounced
<1>11. Sights'
  <2>1. \A d \in Client : ~(t = "server" /\ Parting(d))
    BY Zenon, <1>1 DEF Parting
  <2> QED
    BY Zenon, <1>2, <1>3, <2>1, SightsKeep
<1> QED
  BY <1>5, <1>6, <1>7, <1>8, <1>9, <1>10, <1>11 DEF IInv


LEMMA RegisteredKeeps ==
    ASSUME IInv, NEW t \in Thread, Registered(t)
    PROVE  IInv'
<1>1. /\ th[t].pc = "registered"
      /\ t # "events"
      /\ t = "server" => server = "enabling"
      /\ t \in Client => client[t] = "constructing"
      /\ ~Removing(t) /\ ~Linked(t)
  BY Zenon, Introducer DEF Registered, At, Removing, Linked, Calling
<1>2. /\ stop' = stop \ {t}
      /\ Only(t) /\ th'[t].pc = "idle"
      /\ t = "server" => server' = "enabled" /\ client' = client
      /\ t # "server" => server' = server /\ client' = [client EXCEPT ![t] = "live"]
      /\ UNCHANGED <<rec_server, rec_client, all, m_client, subscriber, update_requester, token,
                     link, seen, told>>
  BY Zenon, BackOnly DEF Registered, recordVars, appVars, IInv
<1>3. /\ ~Calling(t)' /\ ~Removing(t)' /\ ~Linked(t)' /\ ~Leaving(t)' /\ ~Holding(t)'
      /\ ~Introducing(t)'
  BY Zenon, <1>2 DEF Introducing, Connecting, Calling, Removing, Linked, Holding, Leaving, At
<1>4. /\ t \in {"server"} \cup Client /\ t \notin {"member", "record"} /\ "server" \notin Client
      /\ \A u \in Thread \ {t} : th'[u] = th[u]
  BY Zenon, <1>1, <1>2, NameAssumption DEF Thread, Only
<1>5. /\ client' \in [Client -> {"absent", "constructing", "live", "destructing"}]
      /\ \A c \in Client : /\ c # t => client'[c] = client[c]
                           /\ c = t => client'[c] = "live" /\ client[c] = "constructing"
  BY Zenon, <1>1, <1>2, <1>4 DEF IInv, TypeOK
<1>6. TypeOK'
  BY Zenon, <1>2, <1>5 DEF IInv, TypeOK, Only
<1>7. Places'
  BY Zenon, <1>1, <1>2, <1>3, <1>4, <1>5, PlacesKeep DEF WellFormed, ServerPlace, ClientPlace
<1>8. Introductions'
  <2>1. \A u \in Thread : /\ Introducing(u)' => Introducing(u) /\ u # t /\ th'[u].on = th[u].on
                          /\ th'[u].pc \in {"indicate", "connect"} => th'[u] = th[u]
    BY Zenon, <1>2, <1>3, <1>4, Unmoved
  <2>a. /\ \A u \in Thread : Introducing(u)' => u \in stop'
        /\ \A u \in Thread : th'[u].pc \in {"indicate", "connect"} => m_client' # th'[u].on
        /\ \A u, v \in Thread : Introducing(u)' /\ Introducing(v)' /\ th'[u].on = th'[v].on => u = v
    <3>1. /\ \A u \in Thread : Introducing(u) => u \in stop
          /\ \A u \in Thread : th[u].pc \in {"indicate", "connect"} => m_client # th[u].on
          /\ \A u, v \in Thread : Introducing(u) /\ Introducing(v) /\ th[u].on = th[v].on => u = v
      BY Zenon DEF IInv, Introductions
    <3>2. \A u \in Thread : u # t /\ u \in stop => u \in stop'
      BY Zenon, <1>2
    <3>3. \A u \in Thread : Introducing(u)' => u \in stop'
      BY Zenon, <2>1, <3>1, <3>2
    <3>4. \A u \in Thread : th'[u].pc \in {"indicate", "connect"} => m_client' # th'[u].on
      BY Zenon, <1>2, <2>1, <3>1
    <3>5. \A u, v \in Thread : Introducing(u)' /\ Introducing(v)' /\ th'[u].on = th'[v].on => u = v
      BY Zenon, <2>1, <3>1
    <3> QED
      BY Zenon, <3>3, <3>4, <3>5
  <2>b. /\ "member" \in stop <=> server \in {"enabling", "enabled"} \/ th["server"].pc = "reset_tokens"
        /\ rec_server <=> server \in {"enabling", "enabled"}
        /\ server = "disabled" \/ th["server"].pc = "wait_clients" \/ Leaving("server") => stop = {}
        /\ "member" \in stop' <=> "member" \in stop
        /\ stop = {} => stop' = {}
    BY Zenon, <1>2, <1>4 DEF IInv, Introductions
  <2>2. CASE t = "server"
    <3>1. server = "enabling" /\ server' = "enabled" /\ rec_server' = rec_server
      BY Zenon, <1>1, <1>2, <2>2
    <3>2. th'["server"].pc = "idle" /\ ~Leaving("server")'
      BY Zenon, <1>2, <1>3, <2>2
    <3> QED
      BY Zenon, <2>a, <2>b, <3>1, <3>2 DEF Introductions
  <2>3. CASE t # "server"
    <3>1. /\ th'["server"] = th["server"] /\ server' = server
          /\ Leaving("server")' <=> Leaving("server")
      BY Zenon, <1>2, <1>4, <2>3, Unmoved DEF Thread
    <3> QED
      BY Zenon, <1>2, <2>a, <2>b, <3>1 DEF Introductions
  <2> QED
    BY Zenon, <2>2, <2>3
<1>9. Tokens'
  <2>1. \A u \in Thread : Holding(u)' => Holding(u) /\ th'[u].on = th[u].on
    BY Zenon, <1>3, <1>4, Unmoved
  <2>2. /\ \A a, d \in Client : client'[a] # "absent" /\ client'[d] # "absent" => a = d
        /\ \A d \in Client :
            /\ client'[d] = "absent" => token'[d] = {}
            /\ "member" \in token'[d] <=> client'[d] \in {"constructing", "live"}
            /\ "connection" \in token'[d] <=> m_client' = d
    <3>1. \A d \in Client :
            /\ client'[d] = "absent" <=> client[d] = "absent"
            /\ client'[d] \in {"constructing", "live"} <=> client[d] \in {"constructing", "live"}
      <4>1. "live" \in {"constructing", "live"} /\ "constructing" \in {"constructing", "live"}
            /\ "live" # "absent" /\ "constructing" # "absent"
        OBVIOUS
      <4> QED
        BY Zenon, <1>5, <4>1
    <3> QED
      BY Zenon, <1>2, <3>1 DEF IInv, Tokens
  <2>3. \A u \in Thread : Holding(u)' => u \in token'[th'[u].on]
    BY Zenon, <1>2, <2>1 DEF IInv, Tokens
  <2> QED
    BY Zenon, <2>2, <2>3 DEF Tokens
<1>10. Links'
  BY Zenon, <1>1, <1>2, <1>3, <1>4, LinksKeep DEF IInv, Links
<1>11. Subscriptions' /\ Announcements'
  BY Zenon, <1>1, <1>2, <1>3, SubscriptionsKeep, NothingAnnounced
<1>12. Sights'
  <2>1. \A c \in Client : Parting(c)' <=> Parting(c)
    BY Zenon, <1>1, <1>2, <1>3, <1>4, Unmoved DEF Parting, Thread
  <2>2. \A u \in Thread : th'[u].pc \in {"indicate", "connect", "set_server", "available"} =>
            th'[u] = th[u] /\ th[u].on \in Client
    <3>1. \A u \in Thread : th[u].pc \in {"indicate", "connect", "set_server", "available"} =>
              th[u].on \in Client
      BY Zenon DEF IInv, Places, WellFormed, Holding, Connecting
    <3> QED
      BY Zenon, <1>2, <1>4, <3>1
  <2>3. \A d \in Client :
          /\ client'[d] = "absent" => seen'[d] = "not_available"
          /\ client'[d] \in {"constructing", "live"} /\ seen'[d] = "available" =>
                "member" \in link'[d] \/ Parting(d)'
    BY Zenon, <1>2, <1>5, <2>1 DEF IInv, Sights
  <2>4. \A u \in Thread :
          /\ th'[u].pc \in {"indicate", "connect", "set_server"} =>
                seen'[th'[u].on] = "not_available" \/ client'[th'[u].on] = "destructing"
          /\ th'[u].pc = "available" =>
                /\ seen'[th'[u].on] = "not_available"
                /\ "member" \in link'[th'[u].on] \/ client'[th'[u].on] = "destructing"
    <3>1. \A u \in Thread :
            /\ th[u].pc \in {"indicate", "connect", "set_server"} =>
                  seen[th[u].on] = "not_available" \/ client[th[u].on] = "destructing"
            /\ th[u].pc = "available" =>
                  /\ seen[th[u].on] = "not_available"
                  /\ "member" \in link[th[u].on] \/ client[th[u].on] = "destructing"
      BY Zenon DEF IInv, Sights
    <3>2. \A d \in Client : client[d] = "destructing" => client'[d] = "destructing"
      BY <1>5
    <3>3. seen' = seen /\ link' = link
      BY Zenon, <1>2
    <3>4. \A x : /\ x \in {"indicate", "connect", "set_server"} =>
                       x \in {"indicate", "connect", "set_server", "available"}
                 /\ x = "available" => x \in {"indicate", "connect", "set_server", "available"}
      BY Zenon
    <3>5. \A u \in Thread : th'[u].pc \in {"indicate", "connect", "set_server"} =>
              seen'[th'[u].on] = "not_available" \/ client'[th'[u].on] = "destructing"
      BY Zenon, <2>2, <3>1, <3>2, <3>3, <3>4
    <3>6. \A u \in Thread : th'[u].pc = "available" =>
              /\ seen'[th'[u].on] = "not_available"
              /\ "member" \in link'[th'[u].on] \/ client'[th'[u].on] = "destructing"
      <4>1. SUFFICES ASSUME NEW u \in Thread, th'[u].pc = "available"
                     PROVE  /\ seen'[th'[u].on] = "not_available"
                            /\ "member" \in link'[th'[u].on] \/ client'[th'[u].on] = "destructing"
        BY Zenon
      <4>2. th'[u] = th[u] /\ th[u].on \in Client
        BY Zenon, <2>2, <3>4, <4>1
      <4> QED
        BY Zenon, <3>1, <3>2, <3>3, <4>1, <4>2
    <3> QED
      BY Zenon, <3>5, <3>6
  <2> QED
    BY Zenon, <2>3, <2>4 DEF Sights
<1> QED
  BY <1>6, <1>7, <1>8, <1>9, <1>10, <1>11, <1>12 DEF IInv

=============================================================================
