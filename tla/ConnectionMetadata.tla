------------------------- MODULE ConnectionMetadata -------------------------
(***************************************************************************)
(* Connection_metadata (impl/connection_metadata.hpp): per client a vector *)
(* of established connections, and per service key an index from client to *)
(* the position of that key in the client's vector.  The removals shift    *)
(* positions, so they rebuild the index; send_event_update trusts it.      *)
(***************************************************************************)
EXTENDS Naturals, Sequences

CONSTANTS Client_id, Key,
          LocalHandle, RemoteHandle,
          MaxMappings     \* bound on the length of one client's vector

Ids == [key : Key, local : LocalHandle, remote : RemoteHandle]
NoIndex == 0              \* positions count from 1 here, from 0 in the code

VARIABLES m_id_to_key,              \* <<>> stands for a client without vector
          m_key_to_client_indices

vars == <<m_id_to_key, m_key_to_client_indices>>

Init ==
    /\ m_id_to_key = [c \in Client_id |-> <<>>]
    /\ m_key_to_client_indices = [k \in Key |-> [c \in Client_id |-> NoIndex]]

-----------------------------------------------------------------------------
\* The positions of a key's entries, and the newest of them.
KeyAt(vec, k) == {i \in 1 .. Len(vec) : vec[i].key = k}
Last(S) == CHOOSE i \in S : \A j \in S : j \leq i

\* The removals: every entry of a key, every entry with a remote handle.
EraseKey(vec, k) == LET Other(ids) == ids.key # k IN SelectSeq(vec, Other)
EraseRemote(vec, h) == LET Other(ids) == ids.remote # h IN SelectSeq(vec, Other)

\* remove_client_from_key_indices
Forgotten(index, c) == [k \in Key |-> [index[k] EXCEPT ![c] = NoIndex]]

\* rebuild_client_key_indices: forget the client, then one assignment per
\* entry, in order.  An empty vector has been erased and stays forgotten.
Rebuilt(index, c, vec) ==
    LET loop[i \in 0 .. Len(vec)] ==
            IF i = 0 THEN Forgotten(index, c)
            ELSE [loop[i - 1] EXCEPT ![vec[i].key][c] = i]
    IN loop[Len(vec)]

\* The vector of client c is replaced after a removal and its index rebuilt.
Replace(c, vec) ==
    /\ m_id_to_key' = [m_id_to_key EXCEPT ![c] = vec]
    /\ m_key_to_client_indices' = Rebuilt(m_key_to_client_indices, c, vec)

\* Mutant: the recorded index is size() instead of size() - 1U.
AddMappingPastEnd(c, ids) ==
    LET vec == Append(m_id_to_key[c], ids)
    IN /\ Len(vec) \leq MaxMappings
       /\ m_id_to_key' = [m_id_to_key EXCEPT ![c] = vec]
       /\ m_key_to_client_indices' =
              [m_key_to_client_indices EXCEPT ![ids.key][c] = Len(vec) + 1]

\* add_mapping: the entry is appended and becomes the key's indexed one.
AddMapping(c, ids) ==
    LET vec == Append(m_id_to_key[c], ids)
    IN /\ Len(vec) \leq MaxMappings
       /\ m_id_to_key' = [m_id_to_key EXCEPT ![c] = vec]
       /\ m_key_to_client_indices' =
              [m_key_to_client_indices EXCEPT ![ids.key][c] = Len(vec)]

RemoveClient(c) ==
    /\ m_id_to_key' = [m_id_to_key EXCEPT ![c] = <<>>]
    /\ m_key_to_client_indices' = Forgotten(m_key_to_client_indices, c)

RemoveMappingForClientAndKey(c, k) ==
    /\ m_id_to_key[c] # <<>>
    /\ Replace(c, EraseKey(m_id_to_key[c], k))

RemoveMapping(c, h) ==
    /\ m_id_to_key[c] # <<>>
    /\ Replace(c, EraseRemote(m_id_to_key[c], h))

\* Mutant: the indices of the shifted entries are left as they were.
RemoveServiceStale(k) ==
    /\ m_id_to_key' = [c \in Client_id |-> EraseKey(m_id_to_key[c], k)]
    /\ m_key_to_client_indices' =
           [m_key_to_client_indices EXCEPT ![k] = [c \in Client_id |-> NoIndex]]

\* remove_service: the same removal for every client that has a vector.
RemoveService(k) ==
    /\ m_id_to_key' = [c \in Client_id |-> EraseKey(m_id_to_key[c], k)]
    /\ m_key_to_client_indices' =
           [j \in Key |-> [c \in Client_id |->
               Rebuilt(m_key_to_client_indices, c, EraseKey(m_id_to_key[c], k))[j][c]]]

Next ==
    \/ \E c \in Client_id, ids \in Ids : AddMapping(c, ids)
    \/ \E c \in Client_id : RemoveClient(c)
    \/ \E c \in Client_id, k \in Key : RemoveMappingForClientAndKey(c, k)
    \/ \E c \in Client_id, h \in RemoteHandle : RemoveMapping(c, h)
    \/ \E k \in Key : RemoveService(k)

Spec == Init /\ [][Next]_vars

-----------------------------------------------------------------------------
\* The clients for_each_client(k) visits, with the entry it passes on.
Visited(k) ==
    {<<c, m_id_to_key[c][m_key_to_client_indices[k][c]]>> :
        c \in {d \in Client_id : m_key_to_client_indices[k][d] \in 1 .. Len(m_id_to_key[d])}}

\* Well-typed state.
TypeOK ==
    /\ m_id_to_key \in [Client_id -> Seq(Ids)]
    /\ m_key_to_client_indices \in [Key -> [Client_id -> 0 .. MaxMappings]]

\* After any history of additions and removals the index of a key leads, for
\* every client with a connection for that key and for no other client, to the
\* newest of its entries: an event update goes to every connected client once,
\* with the handle of that client's current connection for this very service.
\* (A stale position would send another service's events.)
IndexLeadsToNewest ==
    \A k \in Key :
        Visited(k) = {<<c, m_id_to_key[c][Last(KeyAt(m_id_to_key[c], k))]>> :
                         c \in {d \in Client_id : KeyAt(m_id_to_key[d], k) # {}}}
=============================================================================
