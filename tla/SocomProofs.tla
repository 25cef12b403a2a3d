----------------------------- MODULE SocomProofs -----------------------------
(***************************************************************************)
(* The connectors for any clients and events, when client connectors are   *)
(* made one after the other: the steps of the connectors' owners, the      *)
(* theorems about connections, callbacks and subscriptions, and the        *)
(* refinement of ServiceLink.                                              *)
(***************************************************************************)
EXTENDS SocomStepProofs, SocomProperties

-----------------------------------------------------------------------------
(* The server connector's owner.                                            *)

LEMMA ServerName == "server" \in Thread /\ "server" \notin Client
BY NameAssumption DEF Thread

LEMMA EnableKeeps ==
    ASSUME IInv, Enable
    PROVE  IInv'
<1> DEFINE t == "server"
           r == [th[t] EXCEPT !.pc = IF rec_client = None THEN "registered" ELSE "indicate",
                              !.on = rec_client]
<1>1. /\ t \in Thread /\ t \notin Client /\ th[t] \in ThreadState /\ th[t].pc = "idle"
      /\ rec_client \in Client \cup {None} /\ server = "disabled"
  BY Zenon, ServerName DEF Enable, At, IInv, TypeOK
<1>2. /\ r \in ThreadState /\ r.on = rec_client
      /\ r.pc = "registered" \/ (r.pc = "indicate" /\ rec_client \in Client)
  <2> DEFINE p == IF rec_client = None THEN "registered" ELSE "indicate"
  <2>1. p \in Pc /\ (p = "registered" \/ (p = "indicate" /\ rec_client \in Client))
    <3>1. p \in {"registered", "indicate"} /\ (p = "indicate" => rec_client # None)
      OBVIOUS
    <3> HIDE DEF p
    <3>2. p = "indicate" => rec_client \in Client
      BY <1>1, <3>1
    <3>3. p \in Pc
      BY <3>1 DEF Pc
    <3> QED
      BY <3>1, <3>2, <3>3
  <2> HIDE DEF p
  <2>2. r = [[th[t] EXCEPT !.pc = p] EXCEPT !.on = rec_client]
    BY DEF p
  <2> DEFINE q == [th[t] EXCEPT !.pc = p]
  <2>3. q \in ThreadState /\ q.pc = p
    BY Zenon, <1>1, <2>1 DEF ThreadState
  <2>4. r = [q EXCEPT !.on = rec_client]
    BY Zenon, <2>2
  <2> HIDE DEF q, r
  <2>5. r \in ThreadState /\ r.on = rec_client /\ r.pc = q.pc
    BY Zenon, <1>1, <2>3, <2>4 DEF ThreadState
  <2> QED
    BY Zenon, <2>1, <2>3, <2>5
<1>3. /\ server' = "enabling" /\ stop' = {"member", "record", t} /\ all' = {"member"}
      /\ rec_server' = TRUE /\ th' = [th EXCEPT ![t] = r]
      /\ UNCHANGED <<rec_client, m_client, subscriber, update_requester, client, token, link,
                     seen, told>>
  BY Zenon, <1>1 DEF Enable, clientVars, appVars, IInv, TypeOK
<1> HIDE DEF r
<1>4. Only(t) /\ th'[t] = r
  BY Zenon, <1>1, <1>2, <1>3, SetOnly DEF IInv
<1>5. /\ ~Calling(t)' /\ ~Removing(t)' /\ ~Linked(t)' /\ ~Leaving(t)' /\ ~Holding(t)'
      /\ Introducing(t)' \/ th'[t].pc = "registered"
      /\ ~Removing(t) /\ ~Leaving(t)
  BY Zenon, <1>1, <1>2, <1>4
  DEF Introducing, Connecting, Calling, Removing, Linked, Holding, Leaving, At
<1>6. \A u \in Thread \ {t} : th'[u] = th[u]
  BY Zenon, <1>4 DEF Only
<1>7. /\ stop = {} /\ all = {} /\ \A c \in Client : m_client # c /\ link[c] = {}
  BY Zenon, <1>1 DEF IInv, Introductions, Links
<1>8. \A u \in Thread : ~Introducing(u)
  BY <1>7 DEF IInv, Introductions
<1>9. TypeOK'
  BY <1>1, <1>3, <1>4 DEF IInv, TypeOK, Only
<1>10. Places'
  BY Zenon, <1>1, <1>2, <1>3, <1>4, <1>5, PlacesKeep DEF WellFormed, ServerPlace
<1>11. Introductions'
  <2>1. \A u \in Thread : /\ Introducing(u)' => u = t
                          /\ th'[u].pc \in {"indicate", "connect"} => u = t
    BY Zenon, <1>4, <1>6, <1>8, Unmoved DEF Introducing, Connecting
  <2> QED
    BY Zenon, <1>1, <1>2, <1>3, <1>4, <1>5, <1>7, <2>1 DEF Introductions
<1>12. Tokens'
  BY Zenon, <1>1, <1>3, <1>4, <1>5, TokensSame
<1>13. Links'
  <2>1. \A u \in Thread : /\ Removing(u)' <=> Removing(u)
                          /\ Removing(u) => th'[u].on = th[u].on
                          /\ Calling(u)' => Calling(u)
                          /\ Linked(u)' => Linked(u) /\ th'[u].on = th[u].on
    BY Zenon, <1>5, <1>6, Unmoved
  <2>2. \A c \in Client : c \notin all'
    BY Zenon, <1>3, NameAssumption
  <2>3. \A c \in Client : (\E u \in Thread : Removing(u)' /\ th'[u].on = c) <=>
                            (\E u \in Thread : Removing(u) /\ th[u].on = c)
    BY Zenon, <2>1
  <2> QED
    BY Zenon, <1>3, <1>7, <2>1, <2>2, <2>3 DEF IInv, Links
<1>14. Subscriptions' /\ Announcements'
  BY Zenon, <1>1, <1>2, <1>3, <1>4, <1>5, SubscriptionsKeep, NothingAnnounced
<1>15. Sights'
  <2>1. \A c \in Client : ~Parting(c)
    BY Zenon, <1>1, <1>5 DEF Parting
  <2>2. \A c \in Client : seen[c] = "not_available" \/ client[c] = "destructing"
    BY <1>7, <2>1 DEF IInv, Sights, TypeOK
  <2> QED
    BY Zenon, <1>1, <1>2, <1>3, <1>4, <2>1, <2>2, SightsKeep
<1> QED
  BY <1>9, <1>10, <1>11, <1>12, <1>13, <1>14, <1>15 DEF IInv

\* disable() up to its first wait.
LEMMA DisableKeeps ==
    ASSUME IInv, Disable \/ ResetTokens
    PROVE  IInv'
<1> DEFINE t == "server"
<1>1. /\ t \in Thread /\ t \notin Client
      /\ th[t].pc \in {"idle", "reset_tokens"}
      /\ th[t].pc = "idle" => Disable /\ server = "enabled"
      /\ th[t].pc = "reset_tokens" => ResetTokens /\ server = "disabling"
  <2>1. CASE Disable
    BY Zenon, <2>1, ServerName DEF Disable, At
  <2>2. CASE ResetTokens
    <3>1. th[t].pc = "reset_tokens"
      BY Zenon, <2>2 DEF ResetTokens, At
    <3>2. ~Introducing(t)
      BY <3>1 DEF Introducing, Connecting, Calling, Removing, At
    <3> QED
      BY Zenon, <2>2, <3>1, <3>2, ServerName DEF IInv, Places, ServerPlace
  <2> QED
    BY Zenon, <2>1, <2>2
<1> DEFINE p == IF th[t].pc = "idle" THEN "reset_tokens" ELSE "wait_connects"
<1>2. /\ server' = "disabling" /\ Go(t, p)
      /\ stop' = stop \ {IF th[t].pc = "idle" THEN "record" ELSE "member"}
      /\ all' = IF th[t].pc = "idle" THEN all ELSE all \ {"member"}
      /\ rec_server' = FALSE
  <2>1. CASE th[t].pc = "idle"
    BY Zenon, <1>1, <2>1 DEF Disable
  <2>2. CASE th[t].pc = "reset_tokens"
    BY Zenon, <1>1, <2>2 DEF ResetTokens, recordVars, IInv, Introductions, TypeOK
  <2> QED
    BY Zenon, <1>1, <2>1, <2>2
<1>3. /\ subscriber' \in [Event -> Client \cup {None}]
      /\ update_requester' \in [Event -> Client \cup {None}]
      /\ \A k \in Event : /\ subscriber'[k] \in {subscriber[k], None}
                          /\ update_requester'[k] \in {update_requester[k], None}
      /\ UNCHANGED <<rec_client, m_client, client, token, link, seen, told>>
  BY Zenon DEF Disable, ResetTokens, recordVars, clientVars, appVars, IInv, TypeOK
<1>4. Only(t) /\ th'[t].pc = p
  BY Zenon, <1>1, <1>2, GoOnly DEF IInv, Pc
<1>5. /\ ~Calling(t)' /\ ~Removing(t)' /\ ~Linked(t)' /\ ~Leaving(t)' /\ ~Holding(t)'
      /\ ~Introducing(t)' /\ ~Removing(t) /\ ~Leaving(t) /\ ~Introducing(t)
  BY Zenon, <1>1, <1>4
  DEF Introducing, Connecting, Calling, Removing, Linked, Holding, Leaving, At
<1>6. \A u \in Thread \ {t} : th'[u] = th[u]
  BY Zenon, <1>4 DEF Only
<1>7. TypeOK'
  BY Zenon, <1>1, <1>2, <1>3, <1>4 DEF IInv, TypeOK, Only
<1>8. Places'
  BY Zenon, <1>1, <1>2, <1>3, <1>4, <1>5, PlacesKeep DEF WellFormed, ServerPlace
<1>9. Introductions'
  <2>1. \A u \in Thread : /\ Introducing(u)' => Introducing(u) /\ th'[u].on = th[u].on
                          /\ th'[u].pc \in {"indicate", "connect"} => th'[u] = th[u]
    BY Zenon, <1>4, <1>5, <1>6, Unmoved
  <2>2. \A u \in Thread : u \notin {"record", "member"}
    BY Zenon, NameAssumption DEF Thread
  <2>3. "member" \in stop' <=> th[t].pc = "idle"
    BY Zenon, <1>1, <1>2 DEF IInv, Introductions
  <2>4. \A u \in Thread : Introducing(u)' => u \in stop'
    BY Zenon, <1>2, <2>1, <2>2 DEF IInv, Introductions
  <2> QED
    <3>1. \A u, v \in Thread : Introducing(u)' /\ Introducing(v)' /\ th'[u].on = th'[v].on => u = v
      BY Zenon, <2>1 DEF IInv, Introductions
    <3>2. \A u \in Thread : th'[u].pc \in {"indicate", "connect"} => m_client' # th'[u].on
      BY Zenon, <1>3, <2>1 DEF IInv, Introductions
    <3> QED
      BY Zenon, <1>1, <1>2, <1>3, <1>4, <1>5, <2>3, <2>4, <3>1, <3>2 DEF Introductions
<1>10. Tokens'
  BY Zenon, <1>1, <1>3, <1>4, <1>5, TokensSame
<1>11. Links'
  <2>1. \A u \in Thread : /\ Removing(u)' <=> Removing(u)
                          /\ Removing(u) => th'[u].on = th[u].on
                          /\ Calling(u)' => Calling(u)
                          /\ Linked(u)' => Linked(u) /\ th'[u].on = th[u].on
    BY Zenon, <1>5, <1>6, Unmoved
  <2>2. \A c \in Client : c \in all' <=> c \in all
    BY Zenon, <1>2, NameAssumption
  <2>3. "member" \in all' => "member" \in stop'
    BY Zenon, <1>1, <1>2 DEF IInv, Introductions
  <2> QED
    <3>1. \A c \in Client :
            /\ c \in all' <=> m_client' = c
            /\ m_client' = c <=> link'[c] # {} \/ \E u \in Thread : Removing(u)' /\ th'[u].on = c
      <4>1. Links
        BY Zenon DEF IInv
      <4>2. \A c \in Client : (\E u \in Thread : Removing(u)' /\ th'[u].on = c) <=>
                                (\E u \in Thread : Removing(u) /\ th[u].on = c)
        BY Zenon, <2>1
      <4> QED
        BY Zenon, <1>3, <2>2, <4>1, <4>2 DEF Links
    <3>2. \A u \in Thread : /\ Linked(u)' => u \in link'[th'[u].on]
                            /\ Removing(u)' => link'[th'[u].on] = {}
      BY Zenon, <1>3, <2>1 DEF IInv, Links
    <3>3. \A u, v \in Thread : /\ Removing(u)' /\ Removing(v)' => u = v
                               /\ Calling(u)' /\ Calling(v)' => u = v
      BY Zenon, <2>1 DEF IInv, Links
    <3>4. server' # "disabled"
      BY Zenon, <1>2
    <3> QED
      BY Zenon, <2>3, <3>1, <3>2, <3>3, <3>4 DEF Links
<1>12. Subscriptions'
  BY Zenon, <1>1, <1>3, <1>4, <1>5, SubscriptionsKeep
<1>13. Announcements'
  BY Zenon, <1>2 DEF Announcements
<1>14. Sights'
  <2>1. \A c \in Client : ~Parting(c)
    BY Zenon, <1>1, <1>5 DEF Parting
  <2> QED
    BY Zenon, <1>1, <1>3, <1>4, <2>1, SightsKeep
<1> QED
  BY <1>7, <1>8, <1>9, <1>10, <1>11, <1>12, <1>13, <1>14 DEF IInv


LEMMA ServerDisabling ==
    ASSUME IInv,
           th["server"].pc \in {"reset_tokens", "wait_connects", "wait_clients", "not_available",
                                "tell_gone", "drop_copy"}
    PROVE  /\ server = "disabling"
           /\ ~Introducing("server") /\ ~Linked("server") /\ ~Removing("server")
           /\ ~Calling("server")
           /\ th["server"].pc \notin {"reset_tokens", "wait_connects", "wait_clients"} =>
                Leaving("server") /\ Holding("server") /\ th["server"].on \in Client
<1>1. /\ ~Introducing("server") /\ ~Linked("server") /\ ~Removing("server") /\ ~Calling("server")
      /\ th["server"].pc \notin {"reset_tokens", "wait_connects", "wait_clients"} =>
            Leaving("server") /\ Holding("server")
  BY Zenon DEF Introducing, Connecting, Calling, Removing, Linked, Holding, Leaving, At
<1> QED
  BY Zenon, <1>1, ServerName DEF IInv, Places, ServerPlace, WellFormed

\* disable() waits for connects under way, and copies the endpoint of the client.
LEMMA WaitForConnectsKeeps ==
    ASSUME IInv, WaitForConnects
    PROVE  IInv'
<1> DEFINE t == "server"
<1>1. /\ t \in Thread /\ t \notin Client /\ th[t].pc = "wait_connects" /\ stop = {}
  BY Zenon, ServerName DEF WaitForConnects, At
<1>2. /\ server = "disabling"
      /\ ~Introducing(t) /\ ~Linked(t) /\ ~Removing(t) /\ ~Calling(t)
  BY <1>1, ServerDisabling
<1>3. UNCHANGED <<rec_server, rec_client, server, stop, all, m_client, subscriber,
                  update_requester, client, link, seen, told>>
  BY DEF WaitForConnects, recordVars, serverVars, appVars
<1>4. /\ Only(t)
      /\ \/ m_client = None /\ th'[t].pc = "wait_clients" /\ token' = token
         \/ /\ m_client \in Client /\ th'[t].pc = "not_available" /\ th'[t].on = m_client
            /\ token' = [token EXCEPT ![m_client] = @ \cup {t}]
  <2>1. CASE m_client = None
    BY Zenon, <1>1, <2>1, GoOnly DEF WaitForConnects, IInv, Pc
  <2>2. CASE m_client # None
    <3> DEFINE r == [th[t] EXCEPT !.pc = "not_available", !.on = m_client]
    <3>1. th[t] \in ThreadState /\ m_client \in Client
      BY Zenon, <1>1, <2>2 DEF IInv, TypeOK
    <3>2. r \in ThreadState /\ r.pc = "not_available" /\ r.on = m_client
      BY Zenon, <3>1 DEF ThreadState, Pc
    <3>3. th' = [th EXCEPT ![t] = r] /\ token' = [token EXCEPT ![m_client] = @ \cup {t}]
      BY Zenon, <1>1, <2>2, <3>1 DEF WaitForConnects, Own, IInv, TypeOK
    <3> HIDE DEF r
    <3>4. Only(t) /\ th'[t] = r
      BY Zenon, <1>1, <3>2, <3>3, SetOnly DEF IInv
    <3> QED
      BY Zenon, <3>1, <3>2, <3>3, <3>4
  <2> QED
    BY Zenon, <2>1, <2>2
<1>5. /\ ~Calling(t)' /\ ~Removing(t)' /\ ~Linked(t)' /\ ~Introducing(t)'
      /\ Leaving(t)' <=> m_client # None
      /\ Holding(t)' <=> m_client # None
  <2>1. None \notin Client
    BY Zenon, NameAssumption
  <2> QED
    BY Zenon, <1>4, <2>1 DEF Introducing, Connecting, Calling, Removing, Linked, Holding, Leaving, At
<1>t. /\ token' \in [Client -> SUBSET ({"member", "connection"} \cup Thread)]
      /\ \A d \in Client : /\ token'[d] \ {t} = token[d] \ {t}
                           /\ client[d] = "absent" => token'[d] = {}
      /\ m_client # None => t \in token'[th'[t].on]
  <2>1. CASE m_client = None
    <3>1. token' = token
      BY Zenon, <1>4, <2>1, NameAssumption
    <3>2. /\ token \in [Client -> SUBSET ({"member", "connection"} \cup Thread)]
          /\ \A d \in Client : client[d] = "absent" => token[d] = {}
      BY Zenon DEF IInv, TypeOK, Tokens
    <3> QED
      BY Zenon, <2>1, <3>1, <3>2
  <2>2. CASE m_client # None
    <3>1. /\ m_client \in Client /\ th'[t].on = m_client
          /\ token' = [token EXCEPT ![m_client] = @ \cup {t}]
      BY Zenon, <1>4, <2>2
    <3>2. token[m_client] # {} /\ t \in {"member", "connection"} \cup Thread
      BY Zenon, <1>1, <3>1 DEF IInv, Tokens
    <3> QED
      BY Zenon, <3>1, <3>2, OwnAdds
  <2> QED
    BY Zenon, <2>1, <2>2
<1>6. TypeOK'
  BY Zenon, <1>3, <1>4, <1>t DEF IInv, TypeOK, Only
<1>7. Places'
  <2>1. WellFormed(t)'
    BY Zenon, <1>4, <1>5 DEF WellFormed
  <2>2. th'[t].pc = "wait_clients" \/ Leaving(t)'
    BY Zenon, <1>4, <1>5, NameAssumption
  <2>3. ServerPlace'
    BY Zenon, <1>2, <1>3, <2>2 DEF ServerPlace
  <2> QED
    BY Zenon, <1>1, <1>3, <1>4, <2>1, <2>3, PlacesKeep
<1>8. Introductions'
  <2>1. \A u \in Thread : th'[u].pc \in {"indicate", "connect"} => m_client' # th'[u].on
    BY Zenon, <1>3, <1>4 DEF IInv, Introductions, Only
  <2> QED
    BY Zenon, <1>1, <1>3, <1>4, <1>5, <2>1, IntroductionsKeep
<1>9. Tokens'
  BY Zenon, <1>1, <1>3, <1>4, <1>5, <1>t, TokensKeep
<1>10. Links'
  BY Zenon, <1>1, <1>2, <1>3, <1>4, <1>5, LinksKeep DEF IInv, Links
<1>11. Subscriptions' /\ Announcements'
  BY Zenon, <1>1, <1>2, <1>3, <1>4, <1>5, SubscriptionsKeep DEF Announcements
<1>12. Sights'
  <2>1. \A c \in Client : ~Parting(c)
    BY Zenon, <1>1, <1>2 DEF Parting
  <2> QED
    BY Zenon, <1>1, <1>3, <1>4, <2>1, SightsKeep
<1> QED
  BY <1>6, <1>7, <1>8, <1>9, <1>10, <1>11, <1>12 DEF IInv

\* The client is told, and the copy of its endpoint goes.
LEMMA TellGoneKeeps ==
    ASSUME IInv, TellGone \/ DropCopy
    PROVE  IInv'
<1> DEFINE t == "server"  c == th[t].on
           p == IF th[t].pc = "tell_gone" THEN "drop_copy" ELSE "wait_clients"
<1>1. /\ t \in Thread /\ t \notin Client
      /\ \/ th[t].pc = "tell_gone" /\ TellGone
         \/ th[t].pc = "drop_copy" /\ DropCopy
  BY Zenon, ServerName DEF TellGone, DropCopy, At
<1>2. /\ server = "disabling" /\ c \in Client /\ Leaving(t) /\ Holding(t)
      /\ ~Introducing(t) /\ ~Linked(t) /\ ~Removing(t) /\ ~Calling(t) /\ stop = {}
  BY Zenon, <1>1, ServerDisabling DEF IInv, Introductions
<1>3. /\ UNCHANGED <<rec_server, rec_client, server, stop, all, m_client, subscriber,
                     update_requester, client, link, told>>
      /\ Go(t, p)
      /\ seen' = IF th[t].pc = "tell_gone" THEN [seen EXCEPT ![c] = "not_available"] ELSE seen
      /\ token' = IF th[t].pc = "tell_gone" THEN token ELSE [token EXCEPT ![c] = @ \ {t}]
  BY Zenon, <1>1 DEF TellGone, DropCopy, Disown, recordVars, serverVars, clientVars, appVars
<1>4. p \in Pc /\ (th[t].pc = "tell_gone" => p = "drop_copy")
      /\ (th[t].pc # "tell_gone" => p = "wait_clients")
  BY Zenon DEF Pc
<1> HIDE DEF p
<1>5. Only(t) /\ th'[t].pc = p /\ th'[t].on = c
  BY Zenon, <1>1, <1>3, <1>4, GoOnly DEF IInv
<1>6. /\ ~Calling(t)' /\ ~Removing(t)' /\ ~Linked(t)' /\ ~Introducing(t)'
      /\ Leaving(t)' <=> th[t].pc = "tell_gone"
      /\ Holding(t)' <=> th[t].pc = "tell_gone"
  BY Zenon, <1>4, <1>5 DEF Introducing, Connecting, Calling, Removing, Linked, Holding, Leaving, At
<1>7. TypeOK'
  <2>1. token' \in [Client -> SUBSET ({"member", "connection"} \cup Thread)]
    BY Zenon, <1>2, <1>3 DEF IInv, TypeOK
  <2>2. seen' \in [Client -> {"available", "not_available"}]
    BY Zenon, <1>2, <1>3 DEF IInv, TypeOK
  <2> QED
    BY Zenon, <1>3, <1>5, <2>1, <2>2 DEF IInv, TypeOK, Only
<1>8. Places'
  BY Zenon, <1>1, <1>2, <1>3, <1>4, <1>5, <1>6, PlacesKeep DEF WellFormed, ServerPlace
<1>9. Introductions'
  <2>1. \A u \in Thread : th'[u].pc \in {"indicate", "connect"} => m_client' # th'[u].on
    BY Zenon, <1>3, <1>4, <1>5 DEF IInv, Introductions, Only
  <2> QED
    BY Zenon, <1>1, <1>2, <1>3, <1>4, <1>5, <1>6, <2>1, IntroductionsKeep
<1>10. Tokens'
  <2>1. \A d \in Client : /\ token'[d] \ {t} = token[d] \ {t}
                          /\ client[d] = "absent" => token'[d] = {}
    <3>1. CASE th[t].pc = "tell_gone"
      BY Zenon, <1>3, <3>1 DEF IInv, Tokens
    <3>2. CASE th[t].pc # "tell_gone"
      <4>1. c \in Client /\ token' = [token EXCEPT ![c] = @ \ {t}]
        BY Zenon, <1>2, <1>3, <3>2
      <4> QED
        BY Zenon, <1>1, <4>1, DisownDrops
    <3> QED
      BY Zenon, <3>1, <3>2
  <2>2. Holding(t)' => t \in token'[th'[t].on]
    BY Zenon, <1>1, <1>2, <1>3, <1>5, <1>6 DEF IInv, Tokens
  <2> QED
    BY Zenon, <1>1, <1>3, <1>5, <2>1, <2>2, TokensKeep
<1>11. Links'
  BY Zenon, <1>1, <1>2, <1>3, <1>5, <1>6, LinksKeep DEF IInv, Links
<1>12. Subscriptions' /\ Announcements'
  BY Zenon, <1>1, <1>2, <1>3, <1>5, <1>6, SubscriptionsKeep DEF Announcements
<1>13. Sights'
  <2>1. \A d \in Client : Parting(d) => d = c /\ th[t].pc = "tell_gone"
    BY Zenon, <1>1, <1>2 DEF Parting
  <2>2. \A d \in Client : seen'[d] = IF th[t].pc = "tell_gone" /\ d = c THEN "not_available"
                                     ELSE seen[d]
    BY Zenon, <1>2, <1>3 DEF IInv, TypeOK
  <2>3. \A u \in Thread \ {t} : th'[u] = th[u]
    BY Zenon, <1>5 DEF Only
  <2>4. \A u \in Thread : th'[u].pc \in {"indicate", "connect", "set_server", "available"} =>
            th'[u] = th[u] /\ th[u].on \in Client
    <3>1. \A u \in Thread : th[u].pc \in {"indicate", "connect", "set_server", "available"} =>
            th[u].on \in Client
      BY Zenon DEF IInv, Places, WellFormed, Linked, Holding, Connecting
    <3> QED
      BY Zenon, <1>4, <1>5, <2>3, <3>1
  <2>5. \A d \in Client : (seen'[d] = "available" => seen[d] = "available") /\
                          (seen'[d] = "available" => ~Parting(d))
    BY Zenon, <2>1, <2>2
  <2>6. \A d \in Client :
          /\ client[d] = "absent" => seen[d] = "not_available"
          /\ client[d] \in {"constructing", "live"} /\ seen[d] = "available" =>
                "member" \in link[d] \/ Parting(d)
    BY Zenon DEF IInv, Sights
  <2>7. \A d \in Client :
          /\ client'[d] = "absent" => seen'[d] = "not_available"
          /\ client'[d] \in {"constructing", "live"} /\ seen'[d] = "available" =>
                "member" \in link'[d] \/ Parting(d)'
    BY Zenon, <1>3, <2>2, <2>5, <2>6
  <2>8. \A u \in Thread : th'[u].pc \in {"indicate", "connect", "set_server", "available"} =>
          /\ th'[u] = th[u]
          /\ seen[th[u].on] = "not_available" => seen'[th[u].on] = "not_available"
    BY Zenon, <2>2, <2>4
  <2> QED
    BY Zenon, <1>3, <2>7, <2>8, SightsMove
<1> QED
  BY Zenon, <1>7, <1>8, <1>9, <1>10, <1>11, <1>12, <1>13 DEF IInv


\* receive(Service_state_change): the client's m_server is reset.
LEMMA NotAvailableKeeps ==
    ASSUME IInv, NotAvailable
    PROVE  IInv'
<1> DEFINE t == "server"  c == th[t].on
<1>1. /\ t \in Thread /\ t \notin Client /\ th[t].pc = "not_available"
  BY Zenon, ServerName DEF NotAvailable, At
<1>2. /\ server = "disabling" /\ c \in Client /\ Leaving(t) /\ Holding(t)
      /\ ~Introducing(t) /\ ~Linked(t) /\ ~Removing(t) /\ ~Calling(t) /\ stop = {}
  BY Zenon, <1>1, ServerDisabling DEF IInv, Introductions
<1>3. UNCHANGED <<rec_server, rec_client, server, stop, all, m_client, subscriber,
                  update_requester, client, token, seen, told>>
  BY Zenon DEF NotAvailable, recordVars, serverVars, appVars
<1>4. /\ Only(t) /\ ~Linked(t)' /\ ~Calling(t)'
      /\ link' \in [Client -> SUBSET ({"member"} \cup Thread)]
      /\ \A d \in Client \ {c} : link'[d] = link[d]
      /\ th'[t].on = c
      /\ \/ th'[t].pc = "tell_gone" /\ ~Removing(t)'
         \/ Removing(t)' /\ th'[t].ret = "tell_gone" /\ th'[t].pc = "unsubscribe"
                         /\ th'[t].op = None
      /\ Links' /\ Subscriptions'
  <2>1. CASE "member" \in link[c]
    <3>1. LetGo(t, c, "member", "tell_gone")
      BY Zenon, <2>1 DEF NotAvailable, ResetServer
    <3>2. /\ Only(t) /\ ~Linked(t)' /\ ~Calling(t)'
          /\ Removing(t)' => th'[t].ret = "tell_gone" /\ th'[t].on = c
                               /\ th'[t].pc = "unsubscribe" /\ th'[t].op = None
          /\ ~Removing(t)' => th'[t].pc = "tell_gone" /\ th'[t].on = c
          /\ link' \in [Client -> SUBSET ({"member"} \cup Thread)]
          /\ \A d \in Client : link'[d] = IF d = c THEN link[c] \ {"member"} ELSE link[d]
          /\ Links' /\ Subscriptions'
      <4>1. LetGoKept(t, c, "member", "tell_gone")
        BY Zenon, <1>1, <1>2, <1>3, <2>1, <3>1, LetGoLinks
      <4> QED
        BY Zenon, <4>1 DEF LetGoKept
    <3> QED
      BY Zenon, <3>2
  <2>2. CASE "member" \notin link[c]
    <3>1. Go(t, "tell_gone") /\ link' = link
      <4>1. ResetServer(t, c, "tell_gone")
        BY Zenon DEF NotAvailable
      <4>2. th' = [th EXCEPT ![t].pc = "tell_gone", ![t].on = c] /\ link' = link
        BY Zenon, <2>2, <4>1 DEF ResetServer
      <4> QED
        BY Zenon, <1>1, <4>2 DEF Go, IInv, TypeOK, ThreadState
    <3>2. Only(t) /\ th'[t].pc = "tell_gone" /\ th'[t].on = c
      BY Zenon, <1>1, <3>1, GoOnly DEF IInv, Pc
    <3>3. ~Linked(t)' /\ ~Calling(t)' /\ ~Removing(t)'
      BY Zenon, <3>2 DEF Calling, Removing, Linked, At
    <3>4. Links'
      BY Zenon, <1>1, <1>2, <1>3, <3>1, <3>2, <3>3, LinksKeep DEF IInv, Links
    <3>5. Subscriptions'
      BY Zenon, <1>1, <1>3, <3>2, <3>3, SubscriptionsKeep
    <3> QED
      BY Zenon, <3>1, <3>2, <3>3, <3>4, <3>5 DEF IInv, TypeOK
  <2> QED
    BY <2>1, <2>2
<1>5. Leaving(t)' /\ Holding(t)' /\ ~Introducing(t)'
  BY Zenon, <1>4 DEF Introducing, Connecting, Calling, Removing, Holding, Leaving, At
<1>6. TypeOK'
  BY Zenon, <1>3, <1>4 DEF IInv, TypeOK, Only
<1>7. Places'
  <2>1. WellFormed(t)'
    BY Zenon, <1>2, <1>4 DEF WellFormed, Removing
  <2>2. ServerPlace'
    BY Zenon, <1>2, <1>3, <1>5 DEF ServerPlace
  <2> QED
    BY Zenon, <1>1, <1>3, <1>4, <2>1, <2>2, PlacesKeep
<1>8. Introductions'
  <2>1. \A u \in Thread : th'[u].pc \in {"indicate", "connect"} => m_client' # th'[u].on
    BY Zenon, <1>3, <1>4 DEF IInv, Introductions, Only
  <2>2. th'[t].pc # "reset_tokens"
    BY Zenon, <1>4
  <2> QED
    BY Zenon, <1>1, <1>2, <1>3, <1>4, <1>5, <2>1, <2>2, IntroductionsKeep
<1>9. Tokens'
  <2>1. t \in token'[th'[t].on]
    BY Zenon, <1>1, <1>2, <1>3, <1>4 DEF IInv, Tokens
  <2> QED
    BY Zenon, <1>1, <1>3, <1>4, <2>1, TokensSame
<1>10. Announcements'
  BY Zenon, <1>2, <1>3 DEF Announcements
<1>11. Sights'
  <2>1. \A d \in Client : d = c => Parting(d)'
    BY Zenon, <1>4 DEF Parting
  <2>2. \A d \in Client : ~Parting(d)
    BY <1>1, <1>2 DEF Parting
  <2>3. \A u \in Thread : /\ th'[u].pc \in {"indicate", "connect", "set_server", "available"} =>
                                th'[u] = th[u]
                          /\ th'[u].pc # "available"
    <3>1. \A u \in Thread : th[u].pc # "available"
      BY Zenon, <1>2 DEF IInv, Introductions, Introducing, Connecting
    <3> QED
      BY Zenon, <1>4, <3>1 DEF Only
  <2>4. \A d \in Client : link'[d] = link[d] \/ d = c
    BY Zenon, <1>4
  <2>5. \A d \in Client :
          /\ client[d] = "absent" => seen[d] = "not_available"
          /\ client[d] \in {"constructing", "live"} /\ seen[d] = "available" => "member" \in link[d]
    BY Zenon, <2>2 DEF IInv, Sights
  <2>6. \A d \in Client :
          /\ client'[d] = "absent" => seen'[d] = "not_available"
          /\ client'[d] \in {"constructing", "live"} /\ seen'[d] = "available" =>
                "member" \in link'[d] \/ Parting(d)'
    <3>1. ASSUME NEW d \in Client PROVE ("member" \in link'[d] \/ Parting(d)') \/ "member" \notin link[d]
      BY Zenon, <2>1, <2>4
    <3> QED
      BY Zenon, <1>3, <2>5, <3>1
  <2>7. \A u \in Thread : th'[u].pc \in {"indicate", "connect", "set_server", "available"} =>
          th'[u] = th[u] /\ th[u].pc # "available"
    BY Zenon, <2>3
  <2> QED
    BY Zenon, <1>3, <2>6, <2>7, SightsMove
<1> QED
  BY <1>4, <1>6, <1>7, <1>8, <1>9, <1>10, <1>11 DEF IInv

\* disable() returns: nobody is connected any more.
LEMMA WaitForClientsKeeps ==
    ASSUME IInv, WaitForClients
    PROVE  IInv'
<1> DEFINE t == "server"
<1>1. /\ t \in Thread /\ t \notin Client /\ th[t].pc = "wait_clients" /\ all = {}
  BY Zenon, ServerName DEF WaitForClients, At
<1>2. /\ server = "disabling" /\ ~Introducing(t) /\ ~Linked(t) /\ ~Removing(t) /\ ~Calling(t)
      /\ stop = {}
  BY Zenon, <1>1, ServerDisabling DEF IInv, Introductions
<1>3. /\ server' = "disabled" /\ told' = [e \in Event |-> FALSE]
      /\ Only(t) /\ th'[t].pc = "idle"
      /\ UNCHANGED <<rec_server, rec_client, stop, all, m_client, subscriber,
                     update_requester, client, token, link, seen>>
  BY Zenon, <1>1, BackOnly DEF WaitForClients, recordVars, clientVars, IInv
<1>4. /\ ~Calling(t)' /\ ~Removing(t)' /\ ~Linked(t)' /\ ~Leaving(t)' /\ ~Holding(t)'
      /\ ~Introducing(t)'
  BY Zenon, <1>3 DEF Introducing, Connecting, Calling, Removing, Linked, Holding, Leaving, At
<1>5. \A u \in Thread \ {t} : th'[u] = th[u]
  BY Zenon, <1>3 DEF Only
<1>6. m_client = None /\ \A u \in Thread : ~Calling(u) /\ ~Removing(u)
  <2>1. m_client \in Client \cup {None} /\ m_client \notin Client
    BY Zenon, <1>1 DEF IInv, Links, TypeOK
  <2> QED
    BY Zenon, <2>1, OneAtWork
<1>7. TypeOK'
  BY Zenon, <1>1, <1>3 DEF IInv, TypeOK, Only
<1>8. Places'
  BY Zenon, <1>1, <1>3, <1>4, PlacesKeep DEF WellFormed, ServerPlace
<1>9. Introductions'
  <2>1. \A u \in Thread : /\ Introducing(u)' => Introducing(u) /\ th'[u].on = th[u].on
                          /\ th'[u].pc \in {"indicate", "connect"} => th'[u] = th[u]
    BY Zenon, <1>3, <1>4, <1>5, Unmoved
  <2> QED
    <3>1. \A u \in Thread : ~Introducing(u)'
      BY Zenon, <1>2, <2>1 DEF IInv, Introductions
    <3>2. \A u \in Thread : th'[u].pc \in {"indicate", "connect"} => m_client' # th'[u].on
      BY Zenon, <1>3, <2>1 DEF IInv, Introductions
    <3>3. /\ ~("member" \in stop') /\ server' \notin {"enabling", "enabled"}
          /\ th'["server"].pc # "reset_tokens"
      BY Zenon, <1>1, <1>2, <1>3
    <3>4. ~rec_server'
      BY Zenon, <1>2, <1>3 DEF IInv, Introductions
    <3> QED
      BY Zenon, <1>2, <1>3, <3>1, <3>2, <3>3, <3>4 DEF Introductions
<1>10. Tokens'
  BY Zenon, <1>1, <1>3, <1>4, TokensSame
<1>11. Links'
  BY Zenon, <1>1, <1>2, <1>3, <1>4, LinksKeep DEF IInv, Links
<1>12. Subscriptions'
  BY Zenon, <1>1, <1>3, <1>4, SubscriptionsKeep
<1>13. Announcements'
  <2>1. \A e \in Event : subscriber[e] = None
    BY Zenon, <1>6 DEF IInv, Subscriptions
  <2>2. \A u \in Thread : th[u].pc \notin {"tell_subscribed", "tell_unsubscribed"}
    BY Zenon, <1>6 DEF Calling, Removing, At
  <2>3. \A u \in Thread : th'[u].pc \notin {"tell_subscribed", "tell_unsubscribed"}
    BY Zenon, <1>3, <1>5, <2>2
  <2> QED
    BY Zenon, <1>3, <2>1, <2>3 DEF Announcements
<1>14. Sights'
  <2>1. \A c \in Client : ~Parting(c)
    BY Zenon, <1>1, <1>2 DEF Parting
  <2> QED
    BY Zenon, <1>1, <1>3, <2>1, SightsKeep
<1> QED
  BY Zenon, <1>7, <1>8, <1>9, <1>10, <1>11, <1>12, <1>13, <1>14 DEF IInv


-----------------------------------------------------------------------------
(* A client connector's owner.                                              *)

LEMMA ClientName ==
    ASSUME NEW c \in Client
    PROVE  /\ c \in Thread /\ c # None
           /\ c \notin {"server", "events", "member", "record", "connection"}
BY NameAssumption DEF Thread

LEMMA ConstructKeeps ==
    ASSUME IInv, ~OverlappingClients, NEW c \in Client, Construct(c)
    PROVE  IInv'
<1> DEFINE p == IF rec_server THEN "indicate" ELSE "registered"
           r == [th[c] EXCEPT !.pc = p, !.on = c]
<1>1. /\ c \in Thread /\ c # None
      /\ c \notin {"server", "events", "member", "record", "connection"}
      /\ th[c].pc = "idle" /\ rec_client = None
      /\ \A d \in Client : client[d] = "absent" /\ seen[d] = "not_available"
      /\ \A u \in Thread : th[u].on # c
  BY Zenon, ClientName DEF Construct, Unused, At, IInv, Sights
<1>2. /\ p \in {"indicate", "registered"} /\ (p = "indicate" => rec_server)
      /\ th[c] \in ThreadState
  BY Zenon, <1>1 DEF IInv, TypeOK
<1>3. /\ client' = [client EXCEPT ![c] = "constructing"]
      /\ token' = [token EXCEPT ![c] = {"member"}]
      /\ rec_client' = c
      /\ stop' = IF rec_server THEN stop \cup {c} ELSE stop
      /\ UNCHANGED <<rec_server, server, all, m_client, subscriber, update_requester, link, seen,
                     told>>
  BY DEF Construct, appVars
<1>3a. th' = [th EXCEPT ![c] = r]
  <2>1. th' = [th EXCEPT ![c].pc = p, ![c].on = c] /\ th \in [Thread -> ThreadState]
    BY Zenon DEF Construct, IInv, TypeOK
  <2> HIDE DEF p
  <2> QED
    BY Zenon, <1>1, <2>1
<1> HIDE DEF p
<1>4. r \in ThreadState /\ r.pc = p /\ r.on = c
  BY Zenon, <1>2 DEF ThreadState, Pc
<1> HIDE DEF r
<1>5. Only(c) /\ th'[c].pc = p /\ th'[c].on = c
  <2>1. Only(c) /\ th'[c] = r
    <3>1. TypeOK /\ c \in Thread /\ r \in ThreadState
      BY Zenon, <1>1, <1>4 DEF IInv
    <3> QED
      BY Zenon, <1>3a, <3>1, SetOnly
  <2> QED
    BY <1>4, <2>1
<1>6. /\ ~Calling(c)' /\ ~Removing(c)' /\ ~Linked(c)' /\ ~Leaving(c)' /\ ~Holding(c)'
      /\ Introducing(c)' <=> p = "indicate"
      /\ ~Calling(c) /\ ~Removing(c) /\ ~Linked(c)
  BY Zenon, <1>1, <1>2, <1>5
  DEF Introducing, Connecting, Calling, Removing, Linked, Holding, Leaving, At
<1>7. \A u \in Thread \ {c} : th'[u] = th[u]
  BY Zenon, <1>5 DEF Only
<1>8. \A d \in Client : m_client # d /\ token[d] = {}
  BY Zenon, <1>1 DEF IInv, Tokens
<1>9. TypeOK'
  <2>1. client' \in [Client -> {"absent", "constructing", "live", "destructing"}]
    BY Zenon, <1>3 DEF IInv, TypeOK
  <2>2. token' \in [Client -> SUBSET ({"member", "connection"} \cup Thread)]
    BY Zenon, <1>3 DEF IInv, TypeOK
  <2>3. stop' \subseteq {"member", "record"} \cup Thread
    <3>1. stop' \subseteq stop \cup {c}
      BY Zenon, <1>3
    <3>2. stop \subseteq {"member", "record"} \cup Thread
      BY Zenon DEF IInv, TypeOK
    <3> QED
      BY Zenon, <1>1, <3>1, <3>2
  <2> QED
    BY Zenon, <1>3, <1>5, <2>1, <2>2, <2>3 DEF IInv, TypeOK, Only
<1>10. client'[c] = "constructing" /\ \A d \in Client \ {c} : client'[d] = client[d]
  BY Zenon, <1>3 DEF IInv, TypeOK
<1>11. Places'
  <2>1. WellFormed(c)' /\ ClientPlace(c)'
    BY Zenon, <1>2, <1>5, <1>6, <1>10 DEF WellFormed, ClientPlace
  <2> QED
    BY Zenon, <1>1, <1>3, <1>5, <1>10, <2>1, PlacesKeep
<1>12. Introductions'
  <2>1. \A u \in Thread \ {c} : /\ Introducing(u)' => Introducing(u)
                                /\ th'[u] = th[u] /\ th'[u].on # c
    BY Zenon, <1>1, <1>7, Unmoved
  <2>2. /\ th'["server"] = th["server"]
        /\ Leaving("server")' <=> Leaving("server")
    BY Zenon, <1>1, <1>7, ServerName, Unmoved
  <2>3. stop = {} => ~rec_server
    BY Zenon DEF IInv, Introductions
  <2>4. \A u \in Thread : Introducing(u)' => u \in stop'
    BY Zenon, <1>2, <1>3, <1>6, <2>1 DEF IInv, Introductions
  <2>5. \A u \in Thread : th'[u].pc \in {"indicate", "connect"} => m_client' # th'[u].on
    <3>1. m_client' = m_client /\ m_client # c /\ th'[c].on = c
      BY Zenon, <1>3, <1>5, <1>8
    <3>2. \A u \in Thread : th[u].pc \in {"indicate", "connect"} => m_client # th[u].on
      BY Zenon DEF IInv, Introductions
    <3> QED
      BY Zenon, <2>1, <3>1, <3>2
  <2>6. \A u, v \in Thread : Introducing(u)' /\ Introducing(v)' /\ th'[u].on = th'[v].on => u = v
    BY Zenon, <1>5, <2>1 DEF IInv, Introductions
  <2> QED
    BY Zenon, <1>1, <1>3, <2>2, <2>3, <2>4, <2>5, <2>6 DEF IInv, Introductions
<1>13. Tokens'
  <2>1. \A u \in Thread : ~Holding(u)'
    <3>1. \A u \in Thread : Holding(u) => th[u].on \in Client /\ u \in token[th[u].on]
      BY Zenon DEF IInv, Tokens, Places, WellFormed
    <3>2. \A u \in Thread : ~Holding(u)
      BY Zenon, <1>8, <3>1
    <3> QED
      BY Zenon, <1>6, <1>7, <3>2, Unmoved
  <2>2. token'[c] = {"member"} /\ \A d \in Client \ {c} : token'[d] = token[d]
    BY Zenon, <1>3 DEF IInv, TypeOK
  <2>3. \A d \in Client : client'[d] # "absent" => d = c
    BY Zenon, <1>1, <1>10
  <2>4. \A d \in Client :
          /\ client'[d] = "absent" => token'[d] = {}
          /\ "member" \in token'[d] <=> client'[d] \in {"constructing", "live"}
          /\ "connection" \in token'[d] <=> m_client' = d
    <3>1. SUFFICES ASSUME NEW d \in Client
                   PROVE  /\ client'[d] = "absent" => token'[d] = {}
                          /\ "member" \in token'[d] <=> client'[d] \in {"constructing", "live"}
                          /\ "connection" \in token'[d] <=> m_client' = d
      BY Zenon
    <3>2. m_client' # d
      BY Zenon, <1>3, <1>8
    <3>3. CASE d = c
      <4>1. token'[d] = {"member"} /\ client'[d] = "constructing"
        BY Zenon, <1>10, <2>2, <3>3
      <4> QED
        BY Zenon, <3>2, <4>1
    <3>4. CASE d # c
      <4>1. token'[d] = {} /\ client'[d] = "absent"
        BY Zenon, <1>1, <1>8, <1>10, <2>2, <3>4
      <4> QED
        BY Zenon, <3>2, <4>1
    <3> QED
      BY Zenon, <3>3, <3>4
  <2> QED
    BY Zenon, <2>1, <2>3, <2>4 DEF Tokens
<1>14. Links'
  BY Zenon, <1>1, <1>3, <1>5, <1>6, LinksKeep DEF IInv, Links
<1>15. Subscriptions' /\ Announcements'
  BY Zenon, <1>1, <1>2, <1>3, <1>5, <1>6, SubscriptionsKeep, NothingAnnounced
<1>16. Sights'
  <2>1. \A u \in Thread : th'[u].pc \in {"indicate", "connect", "set_server"} => th'[u].on \in Client
    BY Zenon, <1>11, <1>9 DEF Places, WellFormed, Linked, Holding, Connecting
  <2>2. \A u \in Thread : th'[u].pc # "available"
    <3>1. \A u \in Thread : th[u].pc = "available" => Holding(u) /\ th[u].on \in Client
      BY Zenon DEF IInv, Places, WellFormed, Holding, Connecting
    <3>2. \A u \in Thread : th[u].pc # "available"
      BY Zenon, <1>8, <3>1 DEF IInv, Tokens
    <3> QED
      BY Zenon, <1>2, <1>5, <1>7, <3>2
  <2> QED
    BY Zenon, <1>1, <1>3, <2>1, <2>2 DEF Sights
<1> QED
  BY <1>9, <1>11, <1>12, <1>13, <1>14, <1>15, <1>16 DEF IInv

LEMMA DestroyKeeps ==
    ASSUME IInv, NEW c \in Client, Destroy(c)
    PROVE  IInv'
<1>1. /\ c \in Thread /\ c # None
      /\ c \notin {"server", "events", "member", "record", "connection"}
      /\ th[c].pc = "idle" /\ client[c] = "live"
  BY Zenon, ClientName DEF Destroy, At
<1>2. ~Calling(c) /\ ~Removing(c) /\ ~Linked(c) /\ ~Introducing(c)
  BY Zenon, <1>1 DEF Introducing, Connecting, Calling, Removing, Linked, At
<1>3. /\ client' = [client EXCEPT ![c] = "destructing"]
      /\ token' = [token EXCEPT ![c] = @ \ {"member"}]
      /\ UNCHANGED <<rec_server, rec_client, server, stop, all, m_client, subscriber,
                     update_requester, seen, told>>
  BY DEF Destroy, Disown, recordVars, serverVars, appVars
<1>4. /\ Only(c) /\ ~Linked(c)' /\ ~Calling(c)'
      /\ link' \in [Client -> SUBSET ({"member"} \cup Thread)]
      /\ \A d \in Client \ {c} : link'[d] = link[d]
      /\ th'[c].on = c
      /\ \/ th'[c].pc = "unregister" /\ ~Removing(c)'
         \/ Removing(c)' /\ th'[c].ret = "unregister" /\ th'[c].pc = "unsubscribe"
                         /\ th'[c].op = None
      /\ Links' /\ Subscriptions'
  <2>1. CASE "member" \in link[c]
    <3>1. LetGo(c, c, "member", "unregister")
      BY Zenon, <2>1 DEF Destroy, ResetServer
    <3>2. /\ Only(c) /\ ~Linked(c)' /\ ~Calling(c)'
          /\ Removing(c)' => th'[c].ret = "unregister" /\ th'[c].on = c
                               /\ th'[c].pc = "unsubscribe" /\ th'[c].op = None
          /\ ~Removing(c)' => th'[c].pc = "unregister" /\ th'[c].on = c
          /\ link' \in [Client -> SUBSET ({"member"} \cup Thread)]
          /\ \A d \in Client : link'[d] = IF d = c THEN link[c] \ {"member"} ELSE link[d]
          /\ Links' /\ Subscriptions'
      <4>1. LetGoKept(c, c, "member", "unregister")
        BY Zenon, <1>1, <1>2, <1>3, <2>1, <3>1, LetGoLinks
      <4> QED
        BY Zenon, <4>1 DEF LetGoKept
    <3> QED
      BY Zenon, <3>2
  <2>2. CASE "member" \notin link[c]
    <3> DEFINE r == [th[c] EXCEPT !.pc = "unregister", !.on = c]
    <3>1. th[c] \in ThreadState /\ link' = link
      BY Zenon, <1>1, <2>2 DEF Destroy, ResetServer, IInv, TypeOK
    <3>2. th' = [th EXCEPT ![c] = r]
      BY Zenon, <1>1, <2>2 DEF Destroy, ResetServer, IInv, TypeOK
    <3>3. r \in ThreadState /\ r.pc = "unregister" /\ r.on = c
      BY Zenon, <3>1 DEF ThreadState, Pc
    <3> HIDE DEF r
    <3>4. Only(c) /\ th'[c].pc = "unregister" /\ th'[c].on = c
      BY Zenon, <1>1, <3>2, <3>3, SetOnly DEF IInv
    <3>5. ~Linked(c)' /\ ~Calling(c)' /\ ~Removing(c)'
      BY Zenon, <3>4 DEF Calling, Removing, Linked, At
    <3>6. Links'
      BY Zenon, <1>1, <1>2, <1>3, <3>1, <3>4, <3>5, LinksKeep DEF IInv, Links
    <3>7. Subscriptions'
      BY Zenon, <1>1, <1>3, <3>4, <3>5, SubscriptionsKeep
    <3> QED
      BY Zenon, <3>1, <3>4, <3>5, <3>6, <3>7 DEF IInv, TypeOK
  <2> QED
    BY Zenon, <2>1, <2>2
<1>5. ~Leaving(c)' /\ ~Holding(c)' /\ ~Introducing(c)'
  BY Zenon, <1>4 DEF Introducing, Connecting, Calling, Removing, Holding, Leaving, At
<1>6. \A u \in Thread \ {c} : th'[u] = th[u]
  BY Zenon, <1>4 DEF Only
<1>7. client'[c] = "destructing" /\ \A d \in Client \ {c} : client'[d] = client[d]
  BY Zenon, <1>3 DEF IInv, TypeOK
<1>8. TypeOK'
  <2>1. client' \in [Client -> {"absent", "constructing", "live", "destructing"}]
    BY Zenon, <1>3 DEF IInv, TypeOK
  <2>2. token' \in [Client -> SUBSET ({"member", "connection"} \cup Thread)]
    BY Zenon, <1>3 DEF IInv, TypeOK
  <2> QED
    BY Zenon, <1>3, <1>4, <2>1, <2>2 DEF IInv, TypeOK, Only
<1>9. Places'
  <2>1. WellFormed(c)'
    BY Zenon, <1>4, <1>5 DEF WellFormed, Removing
  <2>2. ClientPlace(c)'
    BY Zenon, <1>4, <1>7 DEF ClientPlace
  <2> QED
    BY Zenon, <1>1, <1>3, <1>4, <1>7, <2>1, <2>2, PlacesKeep
<1>10. Introductions'
  <2>1. \A u \in Thread : th'[u].pc \in {"indicate", "connect"} => m_client' # th'[u].on
    BY Zenon, <1>3, <1>4, <1>6 DEF IInv, Introductions
  <2> QED
    BY Zenon, <1>1, <1>3, <1>4, <1>5, <2>1, IntroductionsKeep
<1>11. Tokens'
  <2>1. \A d \in Client : /\ token'[d] \subseteq token[d]
                          /\ "connection" \in token'[d] <=> "connection" \in token[d]
                          /\ d # c => token'[d] = token[d]
                          /\ "member" \notin token'[c]
                          /\ \A u \in Thread : u \in token[d] => u \in token'[d]
    <3>1. \A u \in Thread : u # "member"
      BY Zenon, NameAssumption DEF Thread
    <3> QED
      BY Zenon, <1>3, <3>1 DEF IInv, TypeOK
  <2>2. \A u \in Thread : Holding(u)' => Holding(u) /\ th'[u].on = th[u].on /\ th[u].on \in Client
    BY Zenon, <1>5, <1>6, Unmoved DEF IInv, Places, WellFormed
  <2>3. \A u \in Thread : Holding(u)' => u \in token'[th'[u].on]
    BY Zenon, <2>1, <2>2 DEF IInv, Tokens
  <2>4. /\ \A d, e \in Client : client[d] # "absent" /\ client[e] # "absent" => d = e
        /\ \A d \in Client :
              /\ client[d] = "absent" => token[d] = {}
              /\ "member" \in token[d] <=> client[d] \in {"constructing", "live"}
              /\ "connection" \in token[d] <=> m_client = d
    BY Zenon DEF IInv, Tokens
  <2>5. \A d, e \in Client : client'[d] # "absent" /\ client'[e] # "absent" => d = e
    <3>1. \A d \in Client : client'[d] # "absent" => client[d] # "absent"
      BY Zenon, <1>1, <1>7
    <3> QED
      BY Zenon, <2>4, <3>1
  <2>6. ASSUME NEW d \in Client
        PROVE  /\ client'[d] = "absent" => token'[d] = {}
               /\ "member" \in token'[d] <=> client'[d] \in {"constructing", "live"}
               /\ "connection" \in token'[d] <=> m_client' = d
    <3>1. CASE d = c
      BY Zenon, <1>3, <1>7, <2>1, <2>4, <3>1
    <3>2. CASE d # c
      <4>1. client'[d] = client[d] /\ token'[d] = token[d] /\ m_client' = m_client
        BY Zenon, <1>3, <1>7, <2>1, <3>2
      <4> QED
        BY Zenon, <2>4, <4>1
    <3> QED
      BY Zenon, <3>1, <3>2
  <2> QED
    BY Zenon, <2>3, <2>5, <2>6 DEF Tokens
<1>12. Announcements'
  BY Zenon, <1>1, <1>3, <1>4, NothingAnnounced
<1>13. Sights'
  <2>1. \A d \in Client \ {c} : client[d] = "absent"
    BY Zenon, <1>1 DEF IInv, Tokens
  <2>2. \A u \in Thread : th'[u].pc \in {"indicate", "connect", "set_server", "available"} =>
            th'[u] = th[u] /\ th[u].on \in Client
    <3>1. \A u \in Thread : th[u].pc \in {"indicate", "connect", "set_server", "available"} =>
            th[u].on \in Client
      BY Zenon DEF IInv, Places, WellFormed, Linked, Holding, Connecting
    <3> QED
      BY Zenon, <1>4, <1>6, <3>1
  <2>3. \A d \in Client : client[d] = "absent" => seen[d] = "not_available"
    BY Zenon DEF IInv, Sights
  <2>4. \A d \in Client :
          /\ client'[d] = "absent" => seen'[d] = "not_available"
          /\ client'[d] \in {"constructing", "live"} /\ seen'[d] = "available" =>
                "member" \in link'[d] \/ Parting(d)'
    <3>1. ASSUME NEW d \in Client, d # c PROVE seen'[d] = "not_available"
      BY Zenon, <1>3, <2>1, <2>3, <3>1
    <3>2. client'[c] # "absent" /\ client'[c] \notin {"constructing", "live"}
      BY Zenon, <1>7
    <3>3. \A d \in Client : seen'[d] = "available" => seen'[d] # "not_available"
      BY Zenon
    <3> QED
      BY Zenon, <3>1, <3>2, <3>3
  <2>5. \A d \in Client : /\ client[d] = "destructing" => client'[d] = "destructing"
                          /\ "member" \in link[d] =>
                                "member" \in link'[d] \/ client'[d] = "destructing"
    BY Zenon, <1>4, <1>7
  <2>6. \A u \in Thread : th'[u].pc \in {"indicate", "connect", "set_server", "available"} =>
          /\ th'[u] = th[u]
          /\ client[th[u].on] = "destructing" => client'[th[u].on] = "destructing"
          /\ "member" \in link[th[u].on] =>
                "member" \in link'[th[u].on] \/ client'[th[u].on] = "destructing"
    BY Zenon, <2>2, <2>5
  <2> QED
    BY Zenon, <1>3, <2>4, <2>6, SightsMove
<1> QED
  BY Zenon, <1>4, <1>8, <1>9, <1>10, <1>11, <1>12, <1>13 DEF IInv


LEMMA UnregisterKeeps ==
    ASSUME IInv, NEW c \in Client, Unregister(c)
    PROVE  IInv'
<1>1. /\ c \in Thread /\ c # None
      /\ c \notin {"server", "events", "member", "record", "connection"}
      /\ th[c].pc = "unregister"
  BY Zenon, ClientName DEF Unregister, At
<1>2. ~Calling(c) /\ ~Removing(c) /\ ~Linked(c) /\ ~Introducing(c) /\ ~Holding(c)
  BY Zenon, <1>1 DEF Introducing, Connecting, Calling, Removing, Linked, Holding, Leaving, At
<1>3. /\ Go(c, "wait_stop") /\ rec_client' = None
      /\ UNCHANGED <<rec_server, server, stop, all, m_client, subscriber, update_requester,
                     client, token, link, seen, told>>
  BY Zenon DEF Unregister, serverVars, clientVars, appVars
<1>4. Only(c) /\ th'[c].pc = "wait_stop" /\ th'[c].on = th[c].on
  BY Zenon, <1>1, <1>3, GoOnly DEF IInv, Pc
<1>5. /\ ~Calling(c)' /\ ~Removing(c)' /\ ~Linked(c)' /\ ~Leaving(c)' /\ ~Holding(c)'
      /\ ~Introducing(c)'
  BY Zenon, <1>4 DEF Introducing, Connecting, Calling, Removing, Linked, Holding, Leaving, At
<1>6. client[c] = "destructing" /\ th[c].on = c
  BY Zenon, <1>1, <1>2 DEF IInv, Places, ClientPlace
<1>7. TypeOK'
  BY Zenon, <1>3, <1>4 DEF IInv, TypeOK, Only
<1>8. Places'
  BY Zenon, <1>1, <1>3, <1>4, <1>5, <1>6, PlacesKeep DEF WellFormed, ClientPlace
<1>9. Introductions'
  <2>1. \A u \in Thread : th'[u].pc \in {"indicate", "connect"} => m_client' # th'[u].on
    BY Zenon, <1>3, <1>4 DEF IInv, Introductions, Only
  <2> QED
    BY Zenon, <1>1, <1>3, <1>4, <1>5, <2>1, IntroductionsKeep
<1>10. Tokens'
  BY Zenon, <1>1, <1>3, <1>4, <1>5, TokensSame
<1>11. Links'
  BY Zenon, <1>1, <1>2, <1>3, <1>4, <1>5, LinksKeep DEF IInv, Links
<1>12. Subscriptions' /\ Announcements'
  BY Zenon, <1>1, <1>3, <1>4, <1>5, SubscriptionsKeep, NothingAnnounced
<1>13. Sights'
  BY Zenon, <1>1, <1>3, <1>4, SightsKeep
<1> QED
  BY <1>7, <1>8, <1>9, <1>10, <1>11, <1>12, <1>13 DEF IInv

\* The destructor returns: nobody owns the client's token any more.
LEMMA WaitForStopKeeps ==
    ASSUME IInv, NEW c \in Client, WaitForStop(c)
    PROVE  IInv'
<1>1. /\ c \in Thread /\ c # None
      /\ c \notin {"server", "events", "member", "record", "connection"}
      /\ th[c].pc = "wait_stop" /\ token[c] = {}
  BY Zenon, ClientName DEF WaitForStop, At
<1>2. ~Calling(c) /\ ~Removing(c) /\ ~Linked(c) /\ ~Introducing(c) /\ ~Holding(c)
  BY Zenon, <1>1 DEF Introducing, Connecting, Calling, Removing, Linked, Holding, Leaving, At
<1>3. /\ client' = [client EXCEPT ![c] = "absent"]
      /\ seen' = [seen EXCEPT ![c] = "not_available"]
      /\ Only(c) /\ th'[c].pc = "idle"
      /\ UNCHANGED <<rec_server, rec_client, server, stop, all, m_client, subscriber,
                     update_requester, token, link, told>>
  BY Zenon, <1>1, BackOnly DEF WaitForStop, recordVars, serverVars, IInv
<1>4. /\ ~Calling(c)' /\ ~Removing(c)' /\ ~Linked(c)' /\ ~Leaving(c)' /\ ~Holding(c)'
      /\ ~Introducing(c)'
  BY Zenon, <1>3 DEF Introducing, Connecting, Calling, Removing, Linked, Holding, Leaving, At
<1>5. \A u \in Thread \ {c} : th'[u] = th[u]
  BY Zenon, <1>3 DEF Only
<1>6. /\ client'[c] = "absent" /\ \A d \in Client \ {c} : client'[d] = client[d]
      /\ seen'[c] = "not_available" /\ \A d \in Client \ {c} : seen'[d] = seen[d]
  BY Zenon, <1>3 DEF IInv, TypeOK
<1>7. TypeOK'
  <2>1. client' \in [Client -> {"absent", "constructing", "live", "destructing"}]
    BY Zenon, <1>3 DEF IInv, TypeOK
  <2>2. seen' \in [Client -> {"available", "not_available"}]
    BY Zenon, <1>3 DEF IInv, TypeOK
  <2> QED
    BY Zenon, <1>3, <2>1, <2>2 DEF IInv, TypeOK, Only
<1>8. Places'
  BY Zenon, <1>1, <1>3, <1>4, <1>6, PlacesKeep DEF WellFormed, ClientPlace
<1>9. Introductions'
  <2>1. \A u \in Thread : th'[u].pc \in {"indicate", "connect"} => m_client' # th'[u].on
    BY Zenon, <1>3, <1>5 DEF IInv, Introductions
  <2> QED
    BY Zenon, <1>1, <1>3, <1>4, <2>1, IntroductionsKeep
<1>10. Tokens'
  <2>1. \A u \in Thread : Holding(u)' => Holding(u) /\ th'[u].on = th[u].on
    BY Zenon, <1>4, <1>5, Unmoved
  <2>2. /\ \A d, e \in Client : client[d] # "absent" /\ client[e] # "absent" => d = e
        /\ \A d \in Client :
              /\ client[d] = "absent" => token[d] = {}
              /\ "member" \in token[d] <=> client[d] \in {"constructing", "live"}
              /\ "connection" \in token[d] <=> m_client = d
        /\ \A u \in Thread : Holding(u) => u \in token[th[u].on]
    BY Zenon DEF IInv, Tokens
  <2>3. \A d, e \in Client : client'[d] # "absent" /\ client'[e] # "absent" => d = e
    <3>1. \A d \in Client : client'[d] # "absent" => client[d] # "absent"
      BY Zenon, <1>6
    <3> QED
      BY Zenon, <2>2, <3>1
  <2>4. ASSUME NEW d \in Client
        PROVE  /\ client'[d] = "absent" => token'[d] = {}
               /\ "member" \in token'[d] <=> client'[d] \in {"constructing", "live"}
               /\ "connection" \in token'[d] <=> m_client' = d
    <3>1. token' = token /\ m_client' = m_client
      BY Zenon, <1>3
    <3>2. CASE d = c
      <4>1. token'[d] = {} /\ client'[d] = "absent"
        BY Zenon, <1>1, <1>6, <3>1, <3>2
      <4> QED
        BY Zenon, <2>2, <3>1, <4>1
    <3>3. CASE d # c
      BY Zenon, <1>6, <2>2, <3>1, <3>3
    <3> QED
      BY Zenon, <3>2, <3>3
  <2>5. \A u \in Thread : Holding(u)' => u \in token'[th'[u].on]
    BY Zenon, <1>3, <2>1, <2>2
  <2> QED
    BY Zenon, <2>3, <2>4, <2>5 DEF Tokens
<1>11. Links'
  BY Zenon, <1>1, <1>2, <1>3, <1>4, LinksKeep DEF IInv, Links
<1>12. Subscriptions' /\ Announcements'
  BY Zenon, <1>1, <1>3, <1>4, SubscriptionsKeep, NothingAnnounced
<1>13. Sights'
  <2>1. \A u \in Thread : th'[u].pc \in {"indicate", "connect", "set_server", "available"} =>
            /\ th'[u] = th[u] /\ th[u].on \in Client
            /\ th[u].pc # "indicate" => th[u].on # c
    <3>1. \A u \in Thread : th[u].pc \in {"indicate", "connect", "set_server", "available"} =>
            /\ th[u].on \in Client
            /\ th[u].pc # "indicate" => Holding(u)
      BY Zenon DEF IInv, Places, WellFormed, Linked, Holding, Connecting
    <3>2. \A u \in Thread : th'[u].pc \in {"indicate", "connect", "set_server", "available"} =>
            th'[u] = th[u]
      BY Zenon, <1>3, <1>5
    <3>3. \A u \in Thread : Holding(u) => th[u].on # c
      BY Zenon, <1>1 DEF IInv, Tokens
    <3> QED
      BY Zenon, <3>1, <3>2, <3>3
  <2>2. \A d \in Client : Parting(d) => Parting(d)'
    BY Zenon, <1>1, <1>5, ServerName, Unmoved DEF Parting
  <2>3. \A d \in Client :
          /\ client[d] = "absent" => seen[d] = "not_available"
          /\ client[d] \in {"constructing", "live"} /\ seen[d] = "available" =>
                "member" \in link[d] \/ Parting(d)
    BY Zenon DEF IInv, Sights
  <2>4. ASSUME NEW d \in Client
        PROVE  /\ client'[d] = "absent" => seen'[d] = "not_available"
               /\ client'[d] \in {"constructing", "live"} /\ seen'[d] = "available" =>
                     "member" \in link'[d] \/ Parting(d)'
    <3>1. CASE d = c
      BY Zenon, <1>6, <3>1
    <3>2. CASE d # c
      BY Zenon, <1>3, <1>6, <2>2, <2>3, <3>2
    <3> QED
      BY Zenon, <3>1, <3>2
  <2>5. ASSUME NEW u \in Thread, th'[u].pc \in {"indicate", "connect", "set_server", "available"}
        PROVE  /\ th'[u] = th[u]
               /\ seen[th[u].on] = "not_available" => seen'[th[u].on] = "not_available"
               /\ \/ client[th[u].on] = "destructing" => client'[th[u].on] = "destructing"
                  \/ th[u].pc = "indicate" /\ seen'[th[u].on] = "not_available"
    <3>1. CASE th[u].on = c
      BY Zenon, <1>6, <2>1, <2>5, <3>1
    <3>2. CASE th[u].on # c
      BY Zenon, <1>6, <2>1, <2>5, <3>2
    <3> QED
      BY Zenon, <3>1, <3>2
  <2> QED
    BY Zenon, <1>3, <2>4, <2>5, SightsMove
<1> QED
  BY Zenon, <1>7, <1>8, <1>9, <1>10, <1>11, <1>12, <1>13 DEF IInv

-----------------------------------------------------------------------------
(* A call copies m_server; remove_client() forgets the client.               *)

LEMMA BeginCallKeeps ==
    ASSUME IInv, NEW t \in Thread, NEW c \in Client, NEW op \in Call, NEW e \in Event,
           BeginCall(t, c, op, e)
    PROVE  IInv'
<1> DEFINE r == [th[t] EXCEPT !.pc = "call", !.on = c, !.op = op, !.event = e,
                              !.ret = IF At(t, "callback") THEN "called" ELSE "idle"]
<1>1. /\ \/ t = c /\ th[t].pc = "idle" /\ client[c] = "live"
         \/ th[t].pc = "callback" /\ th[t].on = c
      /\ "member" \in link[c]
      /\ \A u \in Thread \ {t} : th[u].on = c => ~Calling(u)
      /\ th[t] \in ThreadState
  BY Zenon DEF BeginCall, At, IInv, TypeOK
<1>2. /\ ~Calling(t) /\ ~Removing(t)
      /\ Introducing(t) <=> th[t].pc = "callback"
      /\ Linked(t) <=> th[t].pc = "callback"
      /\ Holding(t) <=> th[t].pc = "callback"
  BY Zenon, <1>1 DEF Introducing, Connecting, Calling, Removing, Linked, Holding, Leaving, At
<1>3. m_client = c /\ \A u \in Thread : ~Removing(u) /\ (Calling(u) => u = t)
  <2>1. m_client = c
    BY Zenon, <1>1 DEF IInv, Links
  <2> QED
    BY Zenon, <1>1, <2>1, OneAtWork DEF IInv, Links
<1>4. /\ link' = [link EXCEPT ![c] = @ \cup {t}] /\ th' = [th EXCEPT ![t] = r]
      /\ UNCHANGED <<rec_server, rec_client, server, stop, all, m_client, subscriber,
                     update_requester, client, token, seen, told>>
  BY Zenon DEF BeginCall, Own, recordVars, serverVars, appVars, IInv, TypeOK
<1>5. /\ r \in ThreadState /\ r.pc = "call" /\ r.on = c /\ r.op = op /\ r.event = e
      /\ r.ret = "called" <=> th[t].pc = "callback"
      /\ th[t].pc = "idle" => r.ret = "idle"
  <2> DEFINE q == IF At(t, "callback") THEN "called" ELSE "idle"
  <2>1. /\ q \in {"called", "idle"}
        /\ q = "called" <=> th[t].pc = "callback"
        /\ th[t].pc = "idle" => q = "idle"
    BY Zenon DEF At
  <2>2. r = [th[t] EXCEPT !.pc = "call", !.on = c, !.op = op, !.event = e, !.ret = q]
    OBVIOUS
  <2> HIDE DEF q, r
  <2> QED
    BY Zenon, <1>1, <2>1, <2>2 DEF ThreadState, Pc
<1> HIDE DEF r
<1>6. Only(t) /\ th'[t] = r
  BY Zenon, <1>4, <1>5, SetOnly DEF IInv
<1>7. /\ Calling(t)' /\ Linked(t)' /\ ~Removing(t)' /\ ~Leaving(t)'
      /\ Introducing(t)' <=> th[t].pc = "callback"
      /\ Holding(t)' <=> th[t].pc = "callback"
  BY Zenon, <1>5, <1>6 DEF Introducing, Connecting, Calling, Removing, Linked, Holding, Leaving, At
<1>8. \A u \in Thread \ {t} : th'[u] = th[u]
  BY Zenon, <1>6 DEF Only
<1>9. /\ link' \in [Client -> SUBSET ({"member"} \cup Thread)]
      /\ \A d \in Client : link'[d] = IF d = c THEN link[c] \cup {t} ELSE link[d]
  BY Zenon, <1>4 DEF IInv, TypeOK
<1>10. TypeOK'
  BY Zenon, <1>4, <1>6, <1>9 DEF IInv, TypeOK, Only
<1>11. Places'
  <2>1. WellFormed(t)'
    BY Zenon, <1>5, <1>6 DEF WellFormed
  <2>2. CASE th[t].pc = "callback"
    BY Zenon, <1>1, <1>2, <1>4, <1>5, <1>6, <1>7, <2>1, <2>2, IntroducerPlaces
  <2>3. CASE th[t].pc # "callback"
    <3>1. ClientPlace(t)'
      BY Zenon, <1>1, <1>4, <1>5, <1>6, <1>7, <2>3 DEF ClientPlace
    <3> QED
      BY Zenon, <1>1, <1>4, <1>6, <2>1, <2>3, <3>1, ClientName, PlacesKeep
  <2> QED
    BY Zenon, <2>2, <2>3
<1>12. Introductions'
  <2>1. \A u \in Thread : th'[u].pc \in {"indicate", "connect"} => m_client' # th'[u].on
    BY Zenon, <1>4, <1>5, <1>6, <1>8 DEF IInv, Introductions
  <2> QED
    BY Zenon, <1>1, <1>2, <1>4, <1>5, <1>6, <1>7, <2>1, IntroductionsKeep
<1>13. Tokens'
  <2>1. Holding(t)' => t \in token'[th'[t].on]
    BY Zenon, <1>1, <1>2, <1>4, <1>5, <1>6, <1>7 DEF IInv, Tokens
  <2> QED
    BY Zenon, <1>4, <1>6, <2>1, TokensSame
<1>14. Links'
  <2>1. \A u \in Thread : /\ ~Removing(u)'
                          /\ Calling(u)' => u = t
                          /\ u # t => (Linked(u)' => Linked(u) /\ th'[u].on = th[u].on)
    BY Zenon, <1>3, <1>7, <1>8, Unmoved
  <2>2. \A u \in Thread : Linked(u)' => u \in link'[th'[u].on]
    <3>1. \A u \in Thread : Linked(u) => th[u].on \in Client
      BY Zenon DEF IInv, Places, WellFormed
    <3>2. \A d \in Client : link[d] \subseteq link'[d]
      BY Zenon, <1>9
    <3>3. \A u \in Thread : Linked(u) => u \in link[th[u].on]
      BY Zenon DEF IInv, Links
    <3>4. t \in link'[th'[t].on]
      BY Zenon, <1>5, <1>6, <1>9
    <3>5. ASSUME NEW u \in Thread, u # t, Linked(u)' PROVE u \in link'[th'[u].on]
      BY Zenon, <2>1, <3>1, <3>2, <3>3, <3>5
    <3> QED
      BY Zenon, <3>4, <3>5
  <2>3. \A d \in Client : m_client = d <=> link'[d] # {}
    <3>1. \A d \in Client : m_client = d <=> link[d] # {}
      BY Zenon, <1>3 DEF IInv, Links
    <3>2. link'[c] # {}
      BY Zenon, <1>9
    <3>3. \A d \in Client : d # c => link'[d] = link[d]
      BY Zenon, <1>9
    <3> QED
      BY Zenon, <1>3, <3>1, <3>2, <3>3
  <2> QED
    BY Zenon, <1>4, <2>1, <2>2, <2>3 DEF IInv, Links
<1>15. Subscriptions' /\ Announcements'
  BY Zenon, <1>1, <1>4, <1>5, <1>6, <1>7, SubscriptionsKeep, NothingAnnounced
<1>16. Sights'
  <2>1. t = "server" => \A d \in Client : ~Parting(d)
    BY Zenon, <1>1, <1>2 DEF Parting
  <2> QED
    BY Zenon, <1>4, <1>5, <1>6, <1>9, <2>1, SightsKeep
<1> QED
  BY Zenon, <1>10, <1>11, <1>12, <1>13, <1>14, <1>15, <1>16 DEF IInv


\* Where remove_client() returns to.
LEMMA Remover ==
    ASSUME IInv, NEW t \in Thread, Removing(t)
    PROVE  /\ t # "events"
           /\ t = "server" =>
                \/ server = "enabling" /\ th[t].ret = "drop" /\ Introducing(t)
                \/ server = "disabling" /\ th[t].ret = "tell_gone" /\ Leaving(t)
           /\ t \in Client =>
                /\ th[t].on = t
                /\ \/ client[t] = "live" /\ th[t].ret = "idle"
                   \/ client[t] = "constructing" /\ th[t].ret = "drop" /\ Introducing(t)
                   \/ client[t] = "destructing" /\ th[t].ret = "unregister"
<1>1. t = "events" => FALSE
  BY Zenon DEF IInv, Places, EventsPlace, Removing
<1>2. ASSUME t = "server"
      PROVE  \/ server = "enabling" /\ th[t].ret = "drop" /\ Introducing(t)
             \/ server = "disabling" /\ th[t].ret = "tell_gone" /\ Leaving(t)
  <2>1. ServerPlace /\ Removing("server")
    BY Zenon, <1>2 DEF IInv, Places
  <2> QED
    BY Zenon, <1>2, <2>1 DEF ServerPlace, Introducing, Connecting, Calling, Removing, Leaving, At
<1>3. ASSUME t \in Client
      PROVE  /\ th[t].on = t
             /\ \/ client[t] = "live" /\ th[t].ret = "idle"
                \/ client[t] = "constructing" /\ th[t].ret = "drop" /\ Introducing(t)
                \/ client[t] = "destructing" /\ th[t].ret = "unregister"
  <2>1. ClientPlace(t)
    BY Zenon, <1>3 DEF IInv, Places
  <2> QED
    BY Zenon, <2>1 DEF ClientPlace, Introducing, Connecting, Calling, Removing, At
<1> QED
  BY Zenon, <1>1, <1>2, <1>3

LEMMA ForgetClientKeeps ==
    ASSUME IInv, NEW t \in Thread, ForgetClient(t)
    PROVE  IInv'
<1> DEFINE c == th[t].on
           p == th[t].ret
<1>1. /\ th[t].pc = "unsubscribe" /\ th[t].todo = {} /\ Removing(t) /\ c \in Client
      /\ th[t] \in ThreadState
  BY Zenon DEF ForgetClient, At, Removing, IInv, Places, WellFormed, TypeOK
<1>2. /\ m_client = c /\ link[c] = {}
      /\ \A u \in Thread : Calling(u) \/ Removing(u) => u = t
      /\ \A e \in Event : subscriber[e] = None /\ update_requester[e] = None
  BY Zenon, <1>1, OneAtWork DEF IInv, Links, Subscriptions
<1>3. /\ t \in Client \cup {"server"}
      /\ t = "server" =>
            \/ server = "enabling" /\ p = "drop" /\ Introducing(t)
            \/ server = "disabling" /\ p = "tell_gone" /\ Leaving(t)
      /\ t \in Client =>
            /\ c = t
            /\ \/ client[t] = "live" /\ p = "idle"
               \/ client[t] = "constructing" /\ p = "drop" /\ Introducing(t)
               \/ client[t] = "destructing" /\ p = "unregister"
  BY Zenon, <1>1, Remover DEF Thread
<1>4. /\ m_client' = None /\ all' = all \ {c}
      /\ token' = [token EXCEPT ![c] = @ \ {"connection"}]
      /\ UNCHANGED <<rec_server, rec_client, server, stop, subscriber, update_requester, client,
                     link, seen, told>>
  BY Zenon, <1>1, <1>2, ClientName DEF ForgetClient, Disown, recordVars, appVars
<1>5. Only(t) /\ th'[t].pc = p /\ (p # "idle" => th'[t].on = c /\ th'[t].ret = p)
  <2>1. CASE p = "idle"
    <3>1. Back(t)
      BY Zenon, <2>1 DEF ForgetClient, Back
    <3> QED
      BY Zenon, <2>1, <3>1, BackOnly DEF IInv
  <2>2. CASE p # "idle"
    <3>1. Go(t, p)
      BY Zenon, <2>2 DEF ForgetClient, Go
    <3>2. p \in Pc
      BY Zenon, <1>1 DEF ThreadState, Pc
    <3> QED
      BY Zenon, <3>1, <3>2, GoOnly DEF IInv
  <2> QED
    BY Zenon, <2>1, <2>2
<1>6. p \in {"idle", "drop", "tell_gone", "unregister"}
  BY <1>3
<1>7. /\ ~Calling(t)' /\ ~Removing(t)' /\ ~Linked(t)'
      /\ Introducing(t)' <=> p = "drop"
      /\ Leaving(t)' <=> p = "tell_gone"
      /\ Holding(t)' <=> p \in {"drop", "tell_gone"}
  BY Zenon, <1>5, <1>6 DEF Introducing, Connecting, Calling, Removing, Linked, Holding, Leaving, At
<1>8. \A u \in Thread \ {t} : th'[u] = th[u]
  BY Zenon, <1>5 DEF Only
<1>9. /\ token' \in [Client -> SUBSET ({"member", "connection"} \cup Thread)]
      /\ \A d \in Client : token'[d] = IF d = c THEN token[c] \ {"connection"} ELSE token[d]
  BY Zenon, <1>1, <1>4 DEF IInv, TypeOK
<1>10. TypeOK'
  BY Zenon, <1>4, <1>5, <1>9 DEF IInv, TypeOK, Only
<1>11. Places'
  <2>1. WellFormed(t)'
    BY Zenon, <1>1, <1>5, <1>6, <1>7 DEF WellFormed
  <2>2. t = "server" => ServerPlace'
    BY Zenon, <1>3, <1>4, <1>7 DEF ServerPlace
  <2>3. t \in Client => ClientPlace(t)'
    BY Zenon, <1>3, <1>4, <1>5, <1>7 DEF ClientPlace
  <2>4. t # "events"
    BY Zenon, <1>1, Remover
  <2> QED
    BY Zenon, <1>4, <1>5, <2>1, <2>2, <2>3, <2>4, PlacesKeep
<1>12. Introductions'
  <2>1. \A u \in Thread : th'[u].pc \in {"indicate", "connect"} => m_client' # th'[u].on
    <3>1. \A u \in Thread : th'[u].pc \in {"indicate", "connect"} => th'[u].on \in Client
      BY Zenon, <1>11 DEF Places, WellFormed, Holding, Connecting
    <3> QED
      BY Zenon, <1>4, <3>1, ClientName
  <2>2. Introducing(t)' => Introducing(t) /\ th'[t].on = th[t].on
    BY Zenon, <1>3, <1>5, <1>6, <1>7, ServerName
  <2>3. t = "server" /\ Leaving(t)' => stop = {}
    BY Zenon, <1>3, <1>7 DEF IInv, Introductions
  <2> QED
    BY Zenon, <1>1, <1>4, <1>5, <1>6, <2>1, <2>2, <2>3, IntroductionsKeep
<1>13. Tokens'
  <2>1. \A u \in Thread : Holding(u)' => Holding(u) /\ th'[u].on = th[u].on /\ th[u].on \in Client
    <3>1. Introducing(t) \/ Leaving(t) => Holding(t)
      BY Zenon, <1>1 DEF Holding, Introducing
    <3>2. Holding(t)' => Holding(t) /\ th'[t].on = th[t].on
      BY Zenon, <1>3, <1>5, <1>7, <3>1
    <3> QED
      BY Zenon, <1>1, <1>8, <3>2, Unmoved DEF IInv, Places, WellFormed
  <2>2. \A u \in Thread : u # "connection"
    BY Zenon, NameAssumption DEF Thread
  <2>3. \A u \in Thread : Holding(u)' => u \in token'[th'[u].on]
    <3>1. \A u \in Thread : Holding(u) => u \in token[th[u].on]
      BY Zenon DEF IInv, Tokens
    <3>2. ASSUME NEW u \in Thread, NEW d \in Client, u \in token[d] PROVE u \in token'[d]
      BY Zenon, <1>9, <2>2, <3>2
    <3> QED
      BY Zenon, <2>1, <3>1, <3>2
  <2>4. \A d \in Client : /\ "connection" \notin token'[d] /\ m_client' # d
                          /\ "member" \in token'[d] <=> "member" \in token[d]
                          /\ token[d] = {} => token'[d] = {}
    <3>1. \A d \in Client : /\ "connection" \in token[d] <=> m_client = d
                            /\ m_client' # d
      BY Zenon, <1>4, ClientName DEF IInv, Tokens
    <3>2. \A d \in Client : d # c => "connection" \notin token[d]
      BY Zenon, <1>2, <3>1
    <3>3. ASSUME NEW d \in Client
          PROVE  /\ "connection" \notin token'[d]
                 /\ "member" \in token'[d] <=> "member" \in token[d]
                 /\ token[d] = {} => token'[d] = {}
      <4>1. CASE d = c
        <5>1. token'[d] = token[d] \ {"connection"}
          BY Zenon, <1>9, <4>1
        <5> QED
          BY Zenon, <5>1
      <4>2. CASE d # c
        <5>1. token'[d] = token[d]
          BY Zenon, <1>9, <4>2
        <5> QED
          BY Zenon, <3>2, <4>2, <5>1
      <4> QED
        BY Zenon, <4>1, <4>2
    <3> QED
      BY Zenon, <3>1, <3>3
  <2> QED
    BY Zenon, <1>4, <2>3, <2>4 DEF IInv, Tokens
<1>14. Links'
  <2>1. \A u \in Thread : /\ ~Removing(u)' /\ ~Calling(u)'
                          /\ Linked(u)' => Linked(u) /\ th'[u].on = th[u].on
    BY Zenon, <1>2, <1>7, <1>8, Unmoved
  <2>2. \A d \in Client : m_client' # d /\ link[d] = {} /\ d \notin all'
    BY Zenon, <1>2, <1>4, ClientName DEF IInv, Links
  <2> QED
    BY Zenon, <1>4, <2>1, <2>2 DEF IInv, Links
<1>15. Subscriptions'
  BY Zenon, <1>2, <1>4 DEF Subscriptions
<1>16. Announcements'
  BY Zenon, <1>1, <1>4, <1>5, <1>6, NothingAnnounced
<1>17. Sights'
  <2>1. t = "server" => \A d \in Client : Parting(d) => Parting(d)'
    BY Zenon, <1>1, <1>5 DEF Parting
  <2> QED
    BY Zenon, <1>4, <1>5, <1>6, <2>1, SightsKeep
<1> QED
  BY <1>10, <1>11, <1>12, <1>13, <1>14, <1>15, <1>16, <1>17 DEF IInv


-----------------------------------------------------------------------------
(* The theorems.                                                            *)

LEMMA InitHolds == Init => IInv
<1> SUFFICES ASSUME Init PROVE IInv
  BY Zenon
<1>1. IdleThread \in ThreadState /\ IdleThread.pc = "idle"
  BY Zenon DEF IdleThread, ThreadState, Pc
<1>2. \A t \in Thread : th[t] = IdleThread /\ th[t].pc = "idle"
  BY <1>1 DEF Init
<1>3. TypeOK
  BY Zenon, <1>1 DEF Init, TypeOK
<1>4. \A t \in Thread : /\ ~Calling(t) /\ ~Removing(t) /\ ~Linked(t) /\ ~Leaving(t)
                        /\ ~Holding(t) /\ ~Introducing(t)
  BY Zenon, <1>2 DEF Introducing, Connecting, Calling, Removing, Linked, Holding, Leaving, At
<1>5. Places
  BY Zenon, <1>2, <1>4, ServerName, ClientName
  DEF Init, Places, WellFormed, EventsPlace, ServerPlace, ClientPlace, Thread
<1>6. Introductions
  BY Zenon, <1>2, <1>4, ServerName DEF Init, Introductions
<1>7. Tokens /\ Links
  BY Zenon, <1>4, ClientName DEF Init, Tokens, Links
<1>8. Subscriptions /\ Announcements
  BY Zenon, <1>2, <1>4 DEF Init, Subscriptions, Announcements, Telling
<1>9. Sights
  BY Zenon, <1>2 DEF Init, Sights
<1> QED
  BY <1>3, <1>5, <1>6, <1>7, <1>8, <1>9 DEF IInv

LEMMA NextKeeps ==
    ASSUME ~OverlappingClients, IInv, [Next]_vars
    PROVE  IInv'
<1>1. ASSUME Begin PROVE IInv'
  BY Zenon, <1>1, EnableKeeps, DisableKeeps, ConstructKeeps, DestroyKeeps, EventsKeep, BeginCallKeeps
  DEF Begin
<1>2. ASSUME NEW t \in Thread, Continue(t) PROVE IInv'
  <2>1. CASE \/ UnsubscribeNext(t) \/ ForgetClient(t) \/ Indicate(t) \/ Connect(t) \/ SetServer(t)
             \/ TellAvailable(t) \/ EndCallback(t) \/ Drop(t) \/ Registered(t)
    BY Zenon, <2>1, UnsubscribeNextKeeps, ForgetClientKeeps, IndicateKeeps, ConnectKeeps, SetServerKeeps,
       TellAvailableKeeps, EndCallbackKeeps, DropKeeps, RegisteredKeeps
  <2>2. CASE \/ ReceiveSubscribe(t) \/ ReceiveUnsubscribe(t) \/ ReceiveRequest(t)
             \/ ReceiveCall(t) \/ TellSubscribed(t) \/ TellUnsubscribed(t) \/ TellRequested(t)
             \/ Return(t)
    BY Zenon, <2>2, ReceiveSubscribeKeeps, ReceiveUnsubscribeKeeps, ReceiveRequestKeeps, TellsKeep,
       TellUnsubscribedKeeps, ReturnKeeps
  <2>3. CASE \/ ResetTokens \/ WaitForConnects \/ NotAvailable \/ TellGone \/ DropCopy
             \/ WaitForClients \/ Delivered
    BY Zenon, <2>3, DisableKeeps, WaitForConnectsKeeps, NotAvailableKeeps, TellGoneKeeps,
       WaitForClientsKeeps, DeliveredKeeps
  <2>4. CASE t \in Client /\ (Unregister(t) \/ WaitForStop(t))
    BY Zenon, <2>4, UnregisterKeeps, WaitForStopKeeps
  <2> QED
    BY Zenon, <1>2, <2>1, <2>2, <2>3, <2>4 DEF Continue
<1>3. ASSUME UNCHANGED vars PROVE IInv'
  BY Zenon, <1>3, SameState
  DEF vars, recordVars, serverVars, clientVars, appVars, iinvVars, connVars
<1> QED
  BY <1>1, <1>2, <1>3 DEF Next

LEMMA Invariance ==
    ASSUME ~OverlappingClients
    PROVE  Spec => []IInv
<1>1. IInv /\ [Next]_vars => IInv'
  BY NextKeeps
<1> QED
  BY <1>1, InitHolds, PTL DEF Spec

\* For any clients and events, while client connectors are made one after the
\* other: subscriptions and update requests belong to the client in m_client,
\* and m_client is set exactly while somebody owns the reference token of the
\* connection or remove_client() runs, so no pointer to a connection is left
\* behind (Server_connector_impl::remove_client, receive(Connect)).
THEOREM ConnectionsAreExact ==
    ASSUME ~OverlappingClients
    PROVE  Spec => []ConnectionExact
<1>1. ASSUME IInv PROVE ConnectionExact
  <2>1. ASSUME NEW t \in Thread, th[t].pc \in {"unsubscribe", "tell_unsubscribed"}
        PROVE  (Removing(t) \/ Calling(t)) /\ th[t].on = m_client
    <3>1. Removing(t) \/ Calling(t)
      BY Zenon, <1>1, <2>1 DEF Removing, Calling, At, IInv, Places, WellFormed
    <3> QED
      BY Zenon, <1>1, <3>1, OneAtWork
  <2>2. \A t \in Thread : Removing(t) => th[t].pc \in {"unsubscribe", "tell_unsubscribed"}
    BY Zenon DEF Removing
  <2> QED
    BY Zenon, <1>1, <2>1, <2>2 DEF IInv, Subscriptions, Links, Tokens, ConnectionExact
<1> QED
  BY <1>1, Invariance, PTL

\* Likewise: no callback of a client connector runs after its destructor
\* returned, and no callback of the server connector after disable() returned.
\* Whoever is about to run one owns a token that the destructor or disable()
\* waits for (Client_connector_impl::~Impl, Server_connector_impl::disable).
THEOREM ReturnsAreQuiet ==
    ASSUME ~OverlappingClients
    PROVE  Spec => []QuietAfterReturn
<1>1. ASSUME IInv PROVE QuietAfterReturn
  <2>1. ASSUME NEW t \in Thread,
               th[t].pc \in {"connect", "set_server", "available", "callback", "deliver",
                             "not_available", "tell_gone"}
        PROVE  client[th[t].on] # "absent"
    <3>1. Holding(t)
      BY Zenon, <2>1 DEF Holding, Connecting, Leaving
    <3> QED
      BY Zenon, <1>1, <3>1 DEF IInv, Tokens, Places, WellFormed
  <2>2. ASSUME NEW t \in Thread,
               th[t].pc \in {"set_server", "call", "unsubscribe", "tell_subscribed",
                             "tell_unsubscribed", "tell_requested"}
        PROVE  server # "disabled"
    <3>1. Linked(t) \/ Removing(t)
      BY Zenon, <1>1, <2>2 DEF Linked, Calling, Removing, At, IInv, Places, WellFormed
    <3>2. th[t].on \in Client /\ th[t].on \in all
      <4>1. th[t].on \in Client
        BY Zenon, <1>1, <3>1 DEF IInv, Places, WellFormed
      <4>2. link[th[t].on] # {} \/ Removing(t)
        BY Zenon, <1>1, <3>1 DEF IInv, Links
      <4> QED
        BY Zenon, <1>1, <4>1, <4>2 DEF IInv, Links
    <3> QED
      BY Zenon, <1>1, <3>2 DEF IInv, Links
  <2> QED
    BY Zenon, <2>1, <2>2 DEF QuietAfterReturn
<1> QED
  BY <1>1, Invariance, PTL

\* Likewise: while the server connector is enabled and no subscription callback
\* is under way, its application has been told of exactly the subscriptions
\* there are.  Only one thread at a time can be between a change of the list
\* and its callback (receive(Subscribe_event), receive(Unsubscribe_event),
\* remove_client).
THEOREM SubscriptionsAreTold ==
    ASSUME ~OverlappingClients
    PROVE  Spec => []SubscriptionsTold
<1>1. ASSUME IInv PROVE SubscriptionsTold
  <2> SUFFICES ASSUME server = "enabled",
                      \A t \in Thread : th[t].pc \notin {"tell_subscribed", "tell_unsubscribed"},
                      NEW e \in Event
               PROVE  told[e] = (subscriber[e] # None)
    BY DEF SubscriptionsTold
  <2>1. \A t \in Thread : ~Telling(t, e)
    BY DEF Telling
  <2>2. told[e] <=> subscriber[e] # None
    BY <1>1, <2>1 DEF IInv, Announcements
  <2>3. told[e] \in BOOLEAN
    BY Zenon, <1>1 DEF IInv, TypeOK
  <2> QED
    BY Zenon, <2>2, <2>3
<1> QED
  BY <1>1, Invariance, PTL


-----------------------------------------------------------------------------
(* The connectors implement ServiceLink: each step is a step of ServiceLink  *)
(* or leaves what the two applications see of each other as it is.          *)

LEMMA OfferedIs ==
    ASSUME TypeOK
    PROVE  /\ Offered = "off" <=> server = "disabled"
           /\ Offered = "stopping" <=> server = "disabling"
           /\ Offered = "on" <=> server \in {"enabling", "enabled"}
BY Zenon DEF TypeOK, Offered

LEMMA OfferedBecomes ==
    ASSUME TypeOK'
    PROVE  /\ Offered' = "off" <=> server' = "disabled"
           /\ Offered' = "stopping" <=> server' = "disabling"
           /\ Offered' = "on" <=> server' \in {"enabling", "enabled"}
BY DEF TypeOK, Offered

LEMMA UserIs ==
    ASSUME TypeOK, NEW c \in Client
    PROVE  /\ User[c] = "dead" <=> client[c] = "absent"
           /\ User[c] = "alive" <=> client[c] \in {"constructing", "live"}
           /\ User[c] = "closing" <=> client[c] = "destructing"
<1>1. client[c] \in {"absent", "constructing", "live", "destructing"} /\ User[c] = Phase[client[c]]
  BY DEF TypeOK, User
<1> QED
  BY <1>1 DEF Phase

LEMMA UserBecomes ==
    ASSUME TypeOK, NEW c \in Client,
           NEW s \in {"absent", "constructing", "live", "destructing"},
           client' = [client EXCEPT ![c] = s]
    PROVE  User' = [User EXCEPT ![c] = Phase[s]]
<1>1. client'[c] = s /\ \A d \in Client \ {c} : client'[d] = client[d]
  BY DEF TypeOK
<1>2. User' = [d \in Client |-> Phase[client'[d]]] /\ User = [d \in Client |-> Phase[client[d]]]
  BY DEF User
<1>3. \A d \in Client : Phase[client'[d]] = IF d = c THEN Phase[s] ELSE Phase[client[d]]
  BY <1>1
<1> QED
  BY <1>2, <1>3

\* Steps nobody sees.
LEMMA NotSeen ==
    ASSUME UNCHANGED <<server, client, seen>>
    PROVE  UNCHANGED Link!vars
BY DEF Link!vars, Offered, User

LEMMA RegisteredIsNotSeen ==
    ASSUME IInv, IInv', NEW t \in Thread, Registered(t)
    PROVE  UNCHANGED Link!vars
<1>1. /\ th[t].pc = "registered" /\ seen' = seen
      /\ t = "server" => server' = "enabled" /\ client' = client
      /\ t # "server" => server' = server /\ client' = [client EXCEPT ![t] = "live"]
  BY DEF Registered, At, appVars
<1>2. /\ t # "events"
      /\ t = "server" => server = "enabling"
      /\ t \in Client => client[t] = "constructing"
  BY <1>1, Introducer
<1>3. CASE t = "server"
  <2>1. Offered = "on" /\ Offered' = "on"
    BY Zenon, <1>1, <1>2, <1>3, OfferedIs, OfferedBecomes DEF IInv
  <2>2. User' = User
    BY Zenon, <1>1, <1>3 DEF User
  <2> QED
    BY <1>1, <2>1, <2>2 DEF Link!vars
<1>4. CASE t # "server"
  <2>1. t \in Client
    BY <1>2, <1>4 DEF Thread
  <2>2. User' = [User EXCEPT ![t] = Phase["live"]] /\ User[t] = "alive"
    BY Zenon, <1>1, <1>2, <1>4, <2>1, UserBecomes, UserIs DEF IInv
  <2>3. User' = User
    BY Zenon, <2>1, <2>2 DEF User, Phase
  <2> QED
    BY <1>1, <1>4, <2>3 DEF Link!vars, Offered
<1> QED
  BY <1>3, <1>4

LEMMA ServerIsSeen ==
    ASSUME IInv, IInv', Enable \/ Disable \/ WaitForClients
    PROVE  Link!Next
<1>1. seen' = seen /\ User' = User
  BY Zenon DEF Enable, Disable, WaitForClients, clientVars, appVars, User
<1>2. CASE Enable
  <2>1. Offered = "off" /\ Offered' = "on"
    BY <1>2, OfferedIs, OfferedBecomes DEF Enable, IInv
  <2> QED
    BY <1>1, <2>1 DEF Link!Next, Link!Offer
<1>3. CASE Disable
  <2>1. Offered = "on" /\ Offered' = "stopping"
    BY Zenon, <1>3, OfferedIs, OfferedBecomes DEF Disable, IInv
  <2> QED
    BY Zenon, <1>1, <2>1 DEF Link!Next, Link!Withdraw
<1>4. CASE WaitForClients
  <2>1. th["server"].pc = "wait_clients" /\ all = {} /\ server' = "disabled"
    BY Zenon, <1>4 DEF WaitForClients, At
  <2>2. server = "disabling" /\ ~Removing("server")
    BY Zenon, <2>1, ServerDisabling
  <2>3. Offered = "stopping" /\ Offered' = "off"
    BY Zenon, <2>1, <2>2, OfferedIs, OfferedBecomes DEF IInv
  <2>4. ASSUME NEW c \in Client, User[c] = "alive"
        PROVE  seen[c] = "not_available"
    <3>1. client[c] \in {"constructing", "live"}
      BY Zenon, <2>4, UserIs DEF IInv
    <3>2. link[c] = {} /\ ~Parting(c)
      BY Zenon, <2>1, <2>2 DEF IInv, Links, Parting
    <3> QED
      BY Zenon, <3>1, <3>2 DEF IInv, Sights, TypeOK
  <2> QED
    BY Zenon, <1>1, <2>3, <2>4 DEF Link!Next, Link!Withdrawn
<1> QED
  BY <1>2, <1>3, <1>4

LEMMA ClientIsSeen ==
    ASSUME IInv, NEW c \in Client, Construct(c) \/ Destroy(c) \/ WaitForStop(c)
    PROVE  Link!Next
<1>1. Offered' = Offered
  BY Zenon DEF Construct, Destroy, WaitForStop, serverVars, Offered
<1>2. CASE Construct(c)
  <2>1. client[c] = "absent" /\ client' = [client EXCEPT ![c] = "constructing"] /\ seen' = seen
    BY Zenon, <1>2 DEF Construct, Unused, appVars
  <2>2. User[c] = "dead" /\ User' = [User EXCEPT ![c] = "alive"]
    BY Zenon, <2>1, UserIs, UserBecomes DEF IInv, Phase
  <2> QED
    BY Zenon, <1>1, <2>1, <2>2 DEF Link!Next, Link!Create
<1>3. CASE Destroy(c)
  <2>1. client[c] = "live" /\ client' = [client EXCEPT ![c] = "destructing"] /\ seen' = seen
    BY Zenon, <1>3 DEF Destroy, appVars
  <2>2. User[c] = "alive" /\ User' = [User EXCEPT ![c] = "closing"]
    BY Zenon, <2>1, UserIs, UserBecomes DEF IInv, Phase
  <2> QED
    BY Zenon, <1>1, <2>1, <2>2 DEF Link!Next, Link!Close
<1>4. CASE WaitForStop(c)
  <2>1. /\ th[c].pc = "wait_stop" /\ client' = [client EXCEPT ![c] = "absent"]
        /\ seen' = [seen EXCEPT ![c] = "not_available"]
    BY Zenon, <1>4 DEF WaitForStop, At
  <2>2. client[c] = "destructing"
    <3>1. ~Calling(c) /\ ~Removing(c) /\ ~Introducing(c)
      BY Zenon, <2>1 DEF Introducing, Connecting, Calling, Removing, At
    <3> QED
      BY Zenon, <2>1, <3>1 DEF IInv, Places, ClientPlace
  <2>3. User[c] = "closing" /\ User' = [User EXCEPT ![c] = "dead"]
    BY Zenon, <2>1, <2>2, UserIs, UserBecomes DEF IInv, Phase
  <2> QED
    BY Zenon, <1>1, <2>1, <2>3 DEF Link!Next, Link!Closed
<1> QED
  BY Zenon, <1>2, <1>3, <1>4


LEMMA StateIsSeen ==
    ASSUME IInv, NEW t \in Thread, TellAvailable(t) \/ (t = "server" /\ TellGone)
    PROVE  Link!Next
<1> DEFINE c == th[t].on
<1>1. Offered' = Offered /\ User' = User
  BY Zenon DEF TellAvailable, TellGone, serverVars, clientVars, Offered, User
<1>2. Holding(t) /\ c \in Client /\ User[c] # "dead"
  <2>1. Holding(t)
    BY Zenon DEF TellAvailable, TellGone, At, Holding, Connecting, Leaving
  <2>2. c \in Client /\ client[c] # "absent"
    BY Zenon, <2>1 DEF IInv, Places, WellFormed, Tokens
  <2> QED
    BY <2>1, <2>2, UserIs DEF IInv
<1>3. CASE TellAvailable(t)
  <2>1. th[t].pc = "available" /\ seen' = [seen EXCEPT ![c] = "available"]
    BY Zenon, <1>3 DEF TellAvailable, At
  <2>2. seen[c] = "not_available" /\ server # "disabled"
    <3>1. Linked(t)
      BY Zenon, <2>1 DEF Linked
    <3> QED
      BY Zenon, <1>2, <2>1, <3>1 DEF IInv, Sights, Links
  <2>3. Offered # "off"
    BY Zenon, <2>2, OfferedIs DEF IInv
  <2> QED
    BY Zenon, <1>1, <1>2, <2>1, <2>2, <2>3 DEF Link!Next, Link!SeeAvailable
<1>4. CASE t = "server" /\ TellGone
  <2>1. th["server"].pc = "tell_gone" /\ seen' = [seen EXCEPT ![c] = "not_available"]
    BY Zenon, <1>4 DEF TellGone, At
  <2>2. Offered = "stopping"
    BY Zenon, <2>1, ServerDisabling, OfferedIs DEF IInv
  <2> QED
    BY Zenon, <1>1, <1>2, <2>1, <2>2 DEF Link!Next, Link!SeeGone
<1> QED
  BY Zenon, <1>3, <1>4

LEMMA StepIsSeen ==
    ASSUME IInv, IInv', [Next]_vars
    PROVE  [Link!Next]_Link!vars
<1>1. ASSUME Begin PROVE [Link!Next]_Link!vars
  <2>1. CASE Enable \/ Disable
    BY Zenon, <2>1, ServerIsSeen
  <2>2. CASE \E c \in Client : Construct(c) \/ Destroy(c)
    BY Zenon, <2>2, ClientIsSeen
  <2>3. CASE \/ \E c \in Client : Reply(c)
             \/ \E t \in Thread, c \in Client, op \in Call, e \in Event : BeginCall(t, c, op, e)
             \/ \E e \in Event : UpdateEvent(e) \/ UpdateRequestedEvent(e)
    <3>1. UNCHANGED <<server, client, seen>>
      <4>1. ASSUME NEW c \in Client, Reply(c) PROVE UNCHANGED <<server, client, seen>>
        BY Zenon, <4>1 DEF Reply, serverVars, appVars
      <4>2. ASSUME NEW t \in Thread, NEW c \in Client, NEW op \in Call, NEW e \in Event,
                   BeginCall(t, c, op, e)
            PROVE  UNCHANGED <<server, client, seen>>
        BY Zenon, <4>2 DEF BeginCall, serverVars, appVars
      <4>3. ASSUME NEW e \in Event, UpdateEvent(e) \/ UpdateRequestedEvent(e)
            PROVE  UNCHANGED <<server, client, seen>>
        BY Zenon, <4>3 DEF UpdateEvent, UpdateRequestedEvent, serverVars, appVars
      <4> QED
        BY Zenon, <2>3, <4>1, <4>2, <4>3
    <3> QED
      BY Zenon, <3>1, NotSeen
  <2> QED
    BY Zenon, <1>1, <2>1, <2>2, <2>3 DEF Begin
<1>2. ASSUME NEW t \in Thread, Continue(t) PROVE [Link!Next]_Link!vars
  <2>1. CASE \/ UnsubscribeNext(t) \/ ForgetClient(t) \/ Indicate(t) \/ Connect(t) \/ SetServer(t)
             \/ EndCallback(t) \/ Drop(t)
    <3>1. UNCHANGED <<server, client, seen>>
      BY Zenon, <2>1 DEF UnsubscribeNext, ForgetClient, Indicate, Connect, SetServer, EndCallback, Drop,
                  serverVars, clientVars, appVars
    <3> QED
      BY Zenon, <3>1, NotSeen
  <2>2. CASE \/ ReceiveSubscribe(t) \/ ReceiveUnsubscribe(t) \/ ReceiveRequest(t)
             \/ ReceiveCall(t) \/ TellSubscribed(t) \/ TellUnsubscribed(t) \/ TellRequested(t)
             \/ Return(t)
    <3>1. UNCHANGED <<server, client, seen>>
      BY Zenon, <2>2 DEF ReceiveSubscribe, ReceiveUnsubscribe, ReceiveRequest, ReceiveCall,
                  TellSubscribed, TellUnsubscribed, TellRequested, Return, serverVars, clientVars,
                  appVars
    <3> QED
      BY Zenon, <3>1, NotSeen
  <2>3. CASE ResetTokens \/ WaitForConnects \/ NotAvailable \/ DropCopy \/ Delivered
    <3>1. UNCHANGED <<server, client, seen>>
      BY Zenon, <2>3 DEF ResetTokens, WaitForConnects, NotAvailable, DropCopy, Delivered, serverVars,
                  clientVars, appVars
    <3> QED
      BY Zenon, <3>1, NotSeen
  <2>4. CASE t \in Client /\ Unregister(t)
    <3>1. UNCHANGED <<server, client, seen>>
      BY Zenon, <2>4 DEF Unregister, serverVars, clientVars, appVars
    <3> QED
      BY <3>1, NotSeen
  <2>5. CASE TellAvailable(t) \/ (t = "server" /\ TellGone)
    BY <2>5, StateIsSeen
  <2>6. CASE Registered(t)
    BY Zenon, <2>6, RegisteredIsNotSeen
  <2>7. CASE WaitForClients
    BY Zenon, <2>7, ServerIsSeen
  <2>8. CASE t \in Client /\ WaitForStop(t)
    BY Zenon, <2>8, ClientIsSeen
  <2> QED
    BY Zenon, <1>2, <2>1, <2>2, <2>3, <2>4, <2>5, <2>6, <2>7, <2>8 DEF Continue
<1>3. ASSUME UNCHANGED vars PROVE [Link!Next]_Link!vars
  BY Zenon, <1>3, NotSeen DEF vars, serverVars, clientVars, appVars
<1> QED
  BY Zenon, <1>1, <1>2, <1>3 DEF Next

\* Likewise: the connectors implement ServiceLink.  What the two applications
\* see of each other (enable(), disable(), on_service_state_change, the life of
\* a client connector) is a behaviour of the abstract service: available is
\* told once per offer and only while there is one, not_available only by
\* disable(), and disable() returns only when no client that stays takes the
\* service for available.
THEOREM ConnectorsImplementLink ==
    ASSUME ~OverlappingClients
    PROVE  Spec => ImplementsLink
<1>1. Init => Link!Init
  BY DEF Init, Link!Init, Offered, User, Phase
<1>2. IInv /\ IInv' /\ [Next]_vars => [Link!Next]_Link!vars
  BY StepIsSeen
<1> QED
  BY <1>1, <1>2, Invariance, PTL DEF Spec, ImplementsLink, Link!Spec
=============================================================================
