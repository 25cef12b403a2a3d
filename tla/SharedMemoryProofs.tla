------------------------- MODULE SharedMemoryProofs -------------------------
(***************************************************************************)
(* For any number of readers, configurations, pools, events and links:     *)
(* PayloadIntact is an invariant and OpensRunningPool holds of every step. *)
(*                                                                         *)
(* PayloadIntact is not inductive.  A slot is not written while its count  *)
(* is not 0; the count is 1 while consumers are pending (SlotsCounted);    *)
(* and there are at least as many pending consumers as there are links to  *)
(* the running writer's pool with a trace of the slot: a message to the    *)
(* reader, a payload, or the message that it is done (UsersCounted).  A    *)
(* link has one such trace of a slot at most (OneTrace), so it is counted  *)
(* off once.  Links to the pool of an earlier writer keep their traces,    *)
(* but nobody writes to that pool any more (LinksKnown).                   *)
(***************************************************************************)
EXTENDS SharedMemory, FiniteSetTheorems, TLAPS

Pool == [config : Config, memory : [Slot -> Nat]]
LinkMade == [reader : Reader, pool : Nat]
Payload == [slot : Slot, event : Nat, link : Nat]
EventUpdate == [slot : Slot, event : Nat]
PayloadDone == [slot : Slot, link : Nat]
ReaderState == [up : BOOLEAN, view : Nat, sizes : Config \cup {NoConfig},
                held : SUBSET Payload]

\* Well-typed state.
TypeOK ==
    /\ fs \in Nat
    /\ pools \in Seq(Pool)
    /\ config \in Config \cup {NoConfig}
    /\ manager \in 0 .. Len(pools)
    /\ count \in [Slot -> {0, 1}]
    /\ draft \in SUBSET Slot
    /\ alloc \in [Slot -> Nat]
    /\ links \in Seq(LinkMade)
    /\ served \in SUBSET Link
    /\ link \in [Reader -> Nat]
    /\ reader \in [Reader -> ReaderState]
    /\ updates \in [Link -> Seq(EventUpdate)]
    /\ consumed \in [Link -> Seq(PayloadDone)]

\* Links lead to pools that were made, those of the writer to its own; messages
\* and payloads belong to links that were made, to the reader's own.
Made == 1 .. Len(links)
LinksKnown ==
    /\ Made \subseteq Link
    /\ \A l \in Made : links[l].pool \in 1 .. Len(pools)
    /\ \A l \in served : l \in Made /\ links[l].pool = manager
    /\ \A r \in Reader : link[r] # 0 => link[r] \in Made /\ links[link[r]].reader = r
    /\ \A r \in Reader : \A p \in reader[r].held : p.link \in Made /\ links[p.link].reader = r
    /\ \A l \in Link : updates[l] # <<>> => l \in Made
    /\ \A l \in Link : consumed[l] # <<>> => l \in served

\* The traces of a slot on a link.
Announced(l, s) == \E i \in 1 .. Len(updates[l]) : updates[l][i].slot = s
Held(l, s) == \E p \in reader[links[l].reader].held : p.slot = s /\ p.link = l
GivenBack(l, s) == \E i \in 1 .. Len(consumed[l]) : consumed[l][i] = [slot |-> s, link |-> l]
Users(s) == {l \in Made : /\ links[l].pool = manager
                          /\ Announced(l, s) \/ Held(l, s) \/ GivenBack(l, s)}

OneTrace ==
    /\ \A l \in Made : \A i, j \in 1 .. Len(updates[l]) :
          updates[l][i].slot = updates[l][j].slot => i = j
    /\ \A r \in Reader : \A p, q \in reader[r].held :
          p.slot = q.slot /\ p.link = q.link => p = q
    /\ \A l \in Made : \A i, j \in 1 .. Len(consumed[l]) :
          consumed[l][i] = consumed[l][j] /\ consumed[l][i].link = l => i = j
    /\ \A l \in Made, s \in Slot :
          /\ Announced(l, s) => ~Held(l, s) /\ ~GivenBack(l, s)
          /\ Held(l, s) => ~GivenBack(l, s)

UsersCounted == \A s \in Slot : Cardinality(Users(s)) <= alloc[s]

SlotsCounted ==
    \A s \in Slot : /\ count[s] = IF s \in draft \/ alloc[s] # 0 THEN 1 ELSE 0
                    /\ s \in draft => alloc[s] = 0
                    /\ manager = 0 => count[s] = 0

\* The path leads to the running writer's pool, if anywhere.
PathLeads == manager # 0 => fs \in {0, manager}

IInv ==
    TypeOK /\ LinksKnown /\ OneTrace /\ UsersCounted /\ SlotsCounted /\ PathLeads /\ PayloadIntact

-----------------------------------------------------------------------------
(* Lemmas.                                                                  *)

\* The elements of a queue after its first one is taken.
LEMMA TailOf ==
    ASSUME NEW S, NEW a \in Seq(S), a # <<>>, NEW b, b = Tail(a)
    PROVE  /\ Head(a) \in S /\ b \in Seq(S) /\ Head(a) = a[1] /\ 1 \in 1 .. Len(a)
           /\ \A i \in 1 .. Len(b) : i + 1 \in 1 .. Len(a) /\ i + 1 # 1 /\ b[i] = a[i + 1]
           /\ \A i, j \in 1 .. Len(b) : i + 1 = j + 1 => i = j
OBVIOUS

\* The elements of a queue after one is put at its end.
LEMMA AppendOf ==
    ASSUME NEW S, NEW a \in Seq(S), NEW m \in S, NEW b, b = Append(a, m)
    PROVE  /\ b \in Seq(S)
           /\ \A i \in 1 .. Len(b) : \/ i \in 1 .. Len(a) /\ b[i] = a[i]
                                     \/ i = Len(a) + 1 /\ b[i] = m
           /\ \A i \in 1 .. Len(a) : i \in 1 .. Len(b) /\ b[i] = a[i]
           /\ Len(a) + 1 \in 1 .. Len(b) /\ b[Len(a) + 1] = m
OBVIOUS

LEMMA NoMessages == Len(<<>>) = 0 /\ 1 .. 0 = {} /\ \A i : i \notin 1 .. Len(<<>>)
OBVIOUS

\* The users of a slot are finitely many.
LEMMA UsersFinite ==
    ASSUME TypeOK, NEW s
    PROVE  IsFiniteSet(Users(s)) /\ Cardinality(Users(s)) \in Nat
<1>1. Users(s) \in SUBSET Made
  BY Zenon DEF Users
<1>2. Len(links) \in Int
  BY DEF TypeOK
<1>3. IsFiniteSet(Made)
  BY <1>2, FS_Interval DEF Made
<1> QED
  BY <1>1, <1>3, FS_Subset, FS_CardinalityType

\* A slot without pending consumers has no users.
LEMMA NoneCounted ==
    ASSUME TypeOK, UsersCounted, NEW s \in Slot, alloc[s] = 0
    PROVE  Users(s) = {}
<1>1. IsFiniteSet(Users(s)) /\ Cardinality(Users(s)) \in Nat /\ Cardinality(Users(s)) <= 0
  BY Zenon, UsersFinite DEF UsersCounted
<1> QED
  BY <1>1, FS_EmptySet

\* A step that gives no link a new trace, and takes no consumer off, keeps the
\* users counted.
LEMMA NoNewTrace ==
    ASSUME TypeOK, UsersCounted, alloc' = alloc,
           \A s \in Slot : Users(s)' \subseteq Users(s)
    PROVE  UsersCounted'
<1> SUFFICES ASSUME NEW s \in Slot
             PROVE  Cardinality(Users(s)') <= alloc[s]
  BY Zenon DEF UsersCounted
<1>1. IsFiniteSet(Users(s)) /\ Cardinality(Users(s)) \in Nat
  BY Zenon, UsersFinite
<1>2. Users(s)' \in SUBSET Users(s)
  BY Zenon
<1>3. Cardinality(Users(s)') <= Cardinality(Users(s)) /\ IsFiniteSet(Users(s)')
  BY <1>1, <1>2, FS_Subset
<1>4. Cardinality(Users(s)) <= alloc[s]
  BY Zenon DEF UsersCounted
<1>5. alloc[s] \in Nat /\ Cardinality(Users(s)') \in Nat
  BY Zenon, <1>3, FS_CardinalityType DEF TypeOK
<1> QED
  BY <1>1, <1>3, <1>4, <1>5

\* Traces that only go leave the others as they are.
LEMMA FewerTraces ==
    ASSUME LinksKnown, OneTrace, links' = links,
           \A l \in Link : updates'[l] = updates[l] \/ updates'[l] = <<>>,
           \A l \in Link : consumed'[l] = consumed[l] \/ consumed'[l] = <<>>,
           \A r \in Reader : reader'[r].held \subseteq reader[r].held,
           \A l \in Made : links[l].reader \in Reader
    PROVE  /\ OneTrace'
           /\ manager' = manager => \A s \in Slot : Users(s)' \subseteq Users(s)
<1>1. Made' = Made /\ Made \subseteq Link
  BY Zenon DEF Made, LinksKnown
<1>2. \A l \in Made : \A i \in 1 .. Len(updates'[l]) :
        i \in 1 .. Len(updates[l]) /\ updates'[l] = updates[l]
  BY Zenon, <1>1, NoMessages
<1>3. \A l \in Made : \A i \in 1 .. Len(consumed'[l]) :
        i \in 1 .. Len(consumed[l]) /\ consumed'[l] = consumed[l]
  BY Zenon, <1>1, NoMessages
<1>4. \A l \in Made, s \in Slot : Announced(l, s)' => Announced(l, s)
  BY Zenon, <1>2 DEF Announced
<1>5. \A l \in Made, s \in Slot : GivenBack(l, s)' => GivenBack(l, s)
  BY Zenon, <1>3 DEF GivenBack
<1>6. \A l \in Made, s \in Slot : Held(l, s)' => Held(l, s)
  BY Zenon DEF Held
<1>7. OneTrace'
  <2>1. \A l \in Made : \A i, j \in 1 .. Len(updates'[l]) :
          updates'[l][i].slot = updates'[l][j].slot => i = j
    BY Zenon, <1>2 DEF OneTrace
  <2>2. \A r \in Reader : \A p, q \in reader'[r].held :
          p.slot = q.slot /\ p.link = q.link => p = q
    BY Zenon DEF OneTrace
  <2>3. \A l \in Made : \A i, j \in 1 .. Len(consumed'[l]) :
          consumed'[l][i] = consumed'[l][j] /\ consumed'[l][i].link = l => i = j
    <3>1. \A l \in Made : \A i, j \in 1 .. Len(consumed[l]) :
            consumed[l][i] = consumed[l][j] /\ consumed[l][i].link = l => i = j
      BY Zenon DEF OneTrace
    <3> SUFFICES ASSUME NEW l \in Made, NEW i \in 1 .. Len(consumed'[l]),
                        NEW j \in 1 .. Len(consumed'[l]),
                        consumed'[l][i] = consumed'[l][j], consumed'[l][i].link = l
                 PROVE  i = j
      BY Zenon
    <3>2. /\ i \in 1 .. Len(consumed[l]) /\ j \in 1 .. Len(consumed[l])
          /\ consumed'[l] = consumed[l]
      BY Zenon, <1>3
    <3>3. consumed[l][i] = consumed[l][j] /\ consumed[l][i].link = l
      BY Zenon, <3>2
    <3> QED
      BY Zenon, <3>1, <3>2, <3>3
  <2>4. \A l \in Made, s \in Slot :
          /\ Announced(l, s)' => ~Held(l, s)' /\ ~GivenBack(l, s)'
          /\ Held(l, s)' => ~GivenBack(l, s)'
    BY Zenon, <1>4, <1>5, <1>6 DEF OneTrace
  <2> QED
    BY Zenon, <1>1, <2>1, <2>2, <2>3, <2>4 DEF OneTrace
<1>8. ASSUME manager' = manager
      PROVE  \A s \in Slot : Users(s)' \subseteq Users(s)
  BY Zenon, <1>1, <1>4, <1>5, <1>6, <1>8 DEF Users
<1> QED
  BY Zenon, <1>7, <1>8

\* The reader of a link is a reader.
LEMMA ReaderOfLink ==
    ASSUME TypeOK, NEW l \in Made
    PROVE  links[l] \in LinkMade /\ links[l].reader \in Reader /\ links[l].pool \in Nat
<1>1. links[l] \in LinkMade
  BY DEF TypeOK, Made
<1> QED
  BY <1>1 DEF LinkMade

\* Payloads and messages that only go leave the others as they are.
LEMMA IntactKept ==
    ASSUME PayloadIntact, UNCHANGED <<pools, links>>, LinksKnown,
           \A r \in Reader : reader'[r].held \subseteq reader[r].held,
           \A l \in Link : updates'[l] = updates[l] \/ updates'[l] = <<>>
    PROVE  PayloadIntact'
<1>1. \A r \in Reader : \A p \in reader'[r].held :
        pools'[links'[p.link].pool].memory[p.slot] = p.event
  BY Zenon DEF PayloadIntact
<1>2. ASSUME NEW l \in 1 .. Len(links'), NEW i \in 1 .. Len(updates'[l])
      PROVE  pools'[links'[l].pool].memory[updates'[l][i].slot] = updates'[l][i].event
  <2>1. l \in 1 .. Len(links) /\ l \in Link
    BY Zenon, <1>2 DEF LinksKnown, Made
  <2>2. i \in 1 .. Len(updates[l]) /\ updates'[l] = updates[l]
    BY Zenon, <1>2, <2>1, NoMessages
  <2>3. pools[links[l].pool].memory[updates[l][i].slot] = updates[l][i].event
    BY Zenon, <2>1, <2>2 DEF PayloadIntact
  <2> QED
    BY Zenon, <2>2, <2>3
<1> QED
  BY Zenon, <1>1, <1>2 DEF PayloadIntact

LEMMA SlotsKept ==
    ASSUME SlotsCounted, UNCHANGED <<manager, count, alloc, draft>>
    PROVE  SlotsCounted'
BY Zenon DEF SlotsCounted

\* The links after a step that makes none and forgets some.
LEMMA LinksKept ==
    ASSUME LinksKnown, links' = links, Len(pools') = Len(pools), manager' = manager,
           served' \subseteq served,
           \A r \in Reader : link'[r] = link[r] \/ link'[r] = 0,
           \A r \in Reader : reader'[r].held \subseteq reader[r].held,
           \A l \in Link : updates'[l] = updates[l] \/ updates'[l] = <<>>,
           \A l \in Link : \/ consumed'[l] = consumed[l] /\ (l \in served => l \in served')
                           \/ consumed'[l] = <<>>
    PROVE  LinksKnown'
BY Zenon DEF LinksKnown, Made

-----------------------------------------------------------------------------
(* Every step keeps the invariant.                                          *)

LEMMA InitIInv == Init => IInv
<1> SUFFICES ASSUME Init PROVE IInv
  BY Zenon
<1>1. TypeOK
  BY DEF Init, TypeOK, ReaderState, Down, Pool, LinkMade
<1>2. Made = {}
  BY DEF Init, Made
<1>3. \A r \in Reader : reader[r].held = {} /\ link[r] = 0
  BY DEF Init, Down
<1>4. LinksKnown
  BY Zenon, <1>2, <1>3 DEF Init, LinksKnown
<1>5. OneTrace
  BY Zenon, <1>2, <1>3 DEF OneTrace
<1>6. \A s \in Slot : Users(s) = {}
  BY Zenon, <1>2 DEF Users
<1>7. UsersCounted
  <2>1. \A s \in Slot : Cardinality(Users(s)) = 0
    BY Zenon, <1>6, FS_EmptySet
  <2> QED
    BY <2>1 DEF UsersCounted, Init
<1>8. SlotsCounted /\ PathLeads
  BY DEF SlotsCounted, PathLeads, Init
<1>9. PayloadIntact
  BY Zenon, <1>2, <1>3 DEF PayloadIntact, Made
<1> QED
  BY Zenon, <1>1, <1>4, <1>5, <1>7, <1>8, <1>9 DEF IInv

\* A step that leaves messages, payloads, links and counts alone, or takes some
\* of the messages, payloads and links away.
LEMMA QuietStep ==
    ASSUME IInv, TypeOK', PathLeads',
           UNCHANGED <<pools, manager, count, draft, alloc, links>>,
           served' \subseteq served,
           \A r \in Reader : link'[r] = link[r] \/ link'[r] = 0,
           \A r \in Reader : reader'[r].held \subseteq reader[r].held,
           \A l \in Link : updates'[l] = updates[l] \/ updates'[l] = <<>>,
           \A l \in Link : \/ consumed'[l] = consumed[l] /\ (l \in served => l \in served')
                           \/ consumed'[l] = <<>>
    PROVE  IInv'
<1>1. TypeOK /\ LinksKnown /\ OneTrace /\ UsersCounted /\ SlotsCounted /\ PayloadIntact
  BY Zenon DEF IInv
<1>2. \A l \in Made : links[l].reader \in Reader
  BY Zenon, <1>1, ReaderOfLink
<1>3. LinksKnown'
  <2>1. Len(pools') = Len(pools)
    BY Zenon
  <2> QED
    BY Zenon, <1>1, <2>1, LinksKept
<1>4. OneTrace' /\ \A s \in Slot : Users(s)' \subseteq Users(s)
  <2>1. \A l \in Link : consumed'[l] = consumed[l] \/ consumed'[l] = <<>>
    BY Zenon
  <2> QED
    BY Zenon, <1>1, <1>2, <2>1, FewerTraces
<1>5. UsersCounted'
  BY Zenon, <1>1, <1>4, NoNewTrace
<1>6. SlotsCounted'
  BY Zenon, <1>1, SlotsKept
<1>7. PayloadIntact'
  BY Zenon, <1>1, IntactKept
<1> QED
  BY Zenon, <1>3, <1>4, <1>5, <1>6, <1>7 DEF IInv

LEMMA RegisterConfigurationStep ==
    ASSUME IInv, NEW k \in Config, RegisterConfiguration(k)
    PROVE  IInv'
<1>1. TypeOK /\ PathLeads /\ config' = k
      /\ UNCHANGED <<fs, pools, manager, count, draft, alloc, links, served, link, reader,
                     updates, consumed>>
  BY Zenon DEF IInv, RegisterConfiguration, poolVars
<1>2. TypeOK' /\ PathLeads'
  BY Zenon, <1>1 DEF TypeOK, PathLeads
<1> QED
  BY Zenon, <1>1, <1>2, QuietStep

LEMMA StartReaderStep ==
    ASSUME IInv, NEW q \in Reader, StartReader(q)
    PROVE  IInv'
<1>1. /\ TypeOK /\ PathLeads
      /\ reader' = [reader EXCEPT ![q].up = TRUE]
      /\ UNCHANGED <<fs, pools, manager, count, config, draft, alloc, links, served, link,
                     updates, consumed>>
  BY Zenon DEF IInv, StartReader, poolVars
<1>2. \A r \in Reader : reader'[r].held = reader[r].held /\ reader'[r] \in ReaderState
  BY Zenon, <1>1 DEF TypeOK, ReaderState
<1>3. TypeOK' /\ PathLeads'
  BY Zenon, <1>1, <1>2 DEF TypeOK, PathLeads
<1> QED
  BY Zenon, <1>1, <1>2, <1>3, QuietStep

\* What a reader that forgets its link leaves.
LEMMA UnlinkedResult ==
    ASSUME TypeOK, NEW q \in Reader, Unlinked(q)
    PROVE  /\ link' \in [Reader -> Nat]
           /\ updates' \in [Link -> Seq(EventUpdate)]
           /\ \A r \in Reader : link'[r] = link[r] \/ link'[r] = 0
           /\ \A l \in Link : updates'[l] = updates[l] \/ updates'[l] = <<>>
<1>1. <<>> \in Seq(EventUpdate) /\ 0 \in Nat
  OBVIOUS
<1>2. /\ link \in [Reader -> Nat] /\ updates \in [Link -> Seq(EventUpdate)]
      /\ link' = [link EXCEPT ![q] = 0]
      /\ updates' = [l \in Link |-> IF l = link[q] THEN <<>> ELSE updates[l]]
  BY Zenon DEF TypeOK, Unlinked
<1> QED
  BY Zenon, <1>1, <1>2

LEMMA LoseLinkStep ==
    ASSUME IInv, NEW q \in Reader, LoseLink(q)
    PROVE  IInv'
<1>1. /\ TypeOK /\ PathLeads /\ Unlinked(q)
      /\ UNCHANGED <<fs, pools, manager, count, config, draft, alloc, links, served, reader,
                     consumed>>
  BY Zenon DEF IInv, LoseLink, poolVars
<1>2. /\ link' \in [Reader -> Nat] /\ updates' \in [Link -> Seq(EventUpdate)]
      /\ \A r \in Reader : link'[r] = link[r] \/ link'[r] = 0
      /\ \A l \in Link : updates'[l] = updates[l] \/ updates'[l] = <<>>
  BY Zenon, <1>1, UnlinkedResult
<1>3. TypeOK' /\ PathLeads'
  BY Zenon, <1>1, <1>2 DEF TypeOK, PathLeads
<1> QED
  BY Zenon, <1>1, <1>2, <1>3, QuietStep

\* A reader that is gone has nothing.
LEMMA DownResult ==
    ASSUME TypeOK, NEW q \in Reader, reader' = [reader EXCEPT ![q] = Down]
    PROVE  /\ reader' \in [Reader -> ReaderState]
           /\ \A r \in Reader : reader'[r].held \subseteq reader[r].held
           /\ reader'[q].view = 0
           /\ \A r \in Reader \ {q} : reader'[r] = reader[r]
<1>1. Down \in ReaderState /\ Down.held = {} /\ Down.view = 0
  BY DEF Down, ReaderState
<1>2. reader \in [Reader -> ReaderState]
  BY Zenon DEF TypeOK
<1> QED
  BY Zenon, <1>1, <1>2

LEMMA StopReaderStep ==
    ASSUME IInv, NEW q \in Reader, NEW o \in BOOLEAN, StopReader(q, o)
    PROVE  IInv'
<1>1. /\ TypeOK /\ PathLeads /\ Unlinked(q)
      /\ reader' = [reader EXCEPT ![q] = Down]
      /\ UNCHANGED <<pools, manager, count, config, draft, alloc, links, served, consumed>>
      /\ fs' \in {0, fs}
  BY Zenon DEF IInv, StopReader
<1>2. /\ link' \in [Reader -> Nat] /\ updates' \in [Link -> Seq(EventUpdate)]
      /\ \A r \in Reader : link'[r] = link[r] \/ link'[r] = 0
      /\ \A l \in Link : updates'[l] = updates[l] \/ updates'[l] = <<>>
  BY Zenon, <1>1, UnlinkedResult
<1>3. /\ reader' \in [Reader -> ReaderState]
      /\ \A r \in Reader : reader'[r].held \subseteq reader[r].held
  BY Zenon, <1>1, DownResult
<1>4. fs' \in Nat /\ PathLeads'
  BY <1>1 DEF TypeOK, PathLeads
<1>5. TypeOK'
  BY Zenon, <1>1, <1>2, <1>3, <1>4 DEF TypeOK
<1> QED
  BY Zenon, <1>1, <1>2, <1>3, <1>4, <1>5, QuietStep

LEMMA RemoveClientStep ==
    ASSUME IInv, NEW c \in Link, RemoveClient(c)
    PROVE  IInv'
<1>1. /\ TypeOK /\ PathLeads
      /\ served' = served \ {c}
      /\ consumed' = [consumed EXCEPT ![c] = <<>>]
      /\ UNCHANGED <<fs, pools, manager, count, config, draft, alloc, links, link, reader, updates>>
  BY Zenon DEF IInv, RemoveClient, poolVars
<1>2. <<>> \in Seq(PayloadDone)
  OBVIOUS
<1>3. /\ consumed' \in [Link -> Seq(PayloadDone)]
      /\ \A l \in Link : \/ consumed'[l] = consumed[l] /\ (l \in served => l \in served')
                         \/ consumed'[l] = <<>>
  BY Zenon, <1>1, <1>2 DEF TypeOK
<1>4. TypeOK' /\ PathLeads'
  BY Zenon, <1>1, <1>3 DEF TypeOK, PathLeads
<1>5. served' \subseteq served
  BY Zenon, <1>1
<1> QED
  BY Zenon, <1>1, <1>3, <1>4, <1>5, QuietStep

\* Nobody uses a pool that has no writer.
LEMMA StopWriterStep ==
    ASSUME IInv, NEW o \in BOOLEAN, StopWriter(o)
    PROVE  IInv'
<1>1. /\ TypeOK /\ LinksKnown /\ OneTrace /\ PayloadIntact
      /\ fs' \in {0, fs}
      /\ config' = NoConfig /\ manager' = 0
      /\ count' = [s \in Slot |-> 0] /\ alloc' = [s \in Slot |-> 0] /\ draft' = {}
      /\ served' = {} /\ consumed' = [l \in Link |-> <<>>]
      /\ UNCHANGED <<pools, links, link, reader, updates>>
  BY Zenon DEF IInv, StopWriter
<1>2. \A s \in Slot : count'[s] = 0 /\ alloc'[s] = 0
  BY Zenon, <1>1
<1>3. TypeOK'
  <2>1. /\ fs' \in Nat /\ manager' \in 0 .. Len(pools')
        /\ count' \in [Slot -> {0, 1}] /\ alloc' \in [Slot -> Nat]
        /\ consumed' \in [Link -> Seq(PayloadDone)]
    BY <1>1 DEF TypeOK
  <2> QED
    BY Zenon, <1>1, <2>1 DEF TypeOK
<1>4. LinksKnown'
  BY Zenon, <1>1 DEF LinksKnown, Made
<1>5. OneTrace'
  <2>1. \A l \in Made : links[l].reader \in Reader
    BY Zenon, <1>1, ReaderOfLink
  <2>2. \A l \in Link : consumed'[l] = consumed[l] \/ consumed'[l] = <<>>
    BY Zenon, <1>1
  <2> QED
    BY Zenon, <1>1, <2>1, <2>2, FewerTraces
<1>6. UsersCounted'
  <2>1. \A l \in Made : links[l].pool # 0
    <3>1. 0 \notin 1 .. Len(pools)
      OBVIOUS
    <3> QED
      BY Zenon, <1>1, <3>1 DEF LinksKnown
  <2>2. \A s \in Slot : Users(s)' = {}
    BY Zenon, <1>1, <2>1 DEF Users, Made
  <2>3. \A s \in Slot : Cardinality(Users(s)') = 0
    BY Zenon, <2>2, FS_EmptySet
  <2> QED
    BY <1>2, <2>3 DEF UsersCounted
<1>7. SlotsCounted' /\ PathLeads'
  BY <1>1, <1>2 DEF SlotsCounted, PathLeads
<1>8. PayloadIntact'
  BY Zenon, <1>1 DEF PayloadIntact
<1> QED
  BY Zenon, <1>3, <1>4, <1>5, <1>6, <1>7, <1>8 DEF IInv

\* The pool is there when its path is told, and no link leads to it before.
LEMMA SlotManagerResult ==
    ASSUME TypeOK, LinksKnown, PathLeads, GetSlotManager
    PROVE  /\ manager' \in 1 .. Len(pools') /\ fs' \in Nat /\ PathLeads'
           /\ pools' \in Seq(Pool) /\ count' \in [Slot -> {0, 1}]
           /\ manager # 0 => UNCHANGED <<fs, pools, manager, count>>
           /\ manager = 0 => \A s \in Slot : count'[s] = 0
           /\ \A i \in 1 .. Len(pools) : i \in 1 .. Len(pools') /\ pools'[i] = pools[i]
           /\ manager = 0 => \A l \in Made : links[l].pool # manager'
<1>1. CASE manager = 0
  <2>1. CreateSlotManager
    BY Zenon, <1>1 DEF GetSlotManager
  <2> DEFINE new == [config |-> config, memory |-> [s \in Slot |-> 0]]
  <2>2. config # NoConfig
    BY <2>1 DEF CreateSlotManager, NoConfig
  <2>3. new \in Pool
    BY <2>2 DEF Pool, TypeOK
  <2>4. /\ pools' = Append(pools, new) /\ fs' = Len(pools') /\ manager' = fs'
        /\ count' = [s \in Slot |-> 0]
    BY Zenon, <2>1 DEF CreateSlotManager
  <2>5. pools \in Seq(Pool)
    BY Zenon DEF TypeOK
  <2> HIDE DEF new
  <2>6. /\ pools' \in Seq(Pool) /\ Len(pools') = Len(pools) + 1 /\ Len(pools) \in Nat
        /\ \A i \in 1 .. Len(pools) : i \in 1 .. Len(pools') /\ pools'[i] = pools[i]
    BY <2>3, <2>4, <2>5
  <2>7. /\ manager' \in 1 .. Len(pools') /\ fs' \in Nat /\ manager' \notin 1 .. Len(pools)
    BY <2>4, <2>6
  <2>8. \A l \in Made : links[l].pool # manager'
    BY Zenon, <2>7 DEF LinksKnown
  <2>9. PathLeads'
    BY Zenon, <2>4 DEF PathLeads
  <2>10. count' \in [Slot -> {0, 1}] /\ \A s \in Slot : count'[s] = 0
    BY <2>4
  <2> QED
    BY Zenon, <1>1, <2>6, <2>7, <2>8, <2>9, <2>10
<1>2. CASE manager # 0
  <2>1. UNCHANGED <<fs, pools, manager, count>>
    BY Zenon, <1>2 DEF GetSlotManager, poolVars
  <2>2. manager \in 1 .. Len(pools)
    BY <1>2 DEF TypeOK
  <2> QED
    BY Zenon, <1>2, <2>1, <2>2 DEF TypeOK, PathLeads
<1> QED
  BY Zenon, <1>1, <1>2

\* A new link has no traces, and a new pool no users.
LEMMA ConnectServiceStep ==
    ASSUME IInv, NEW q \in Reader, ConnectService(q)
    PROVE  IInv'
<1>i. TypeOK /\ LinksKnown /\ OneTrace /\ UsersCounted /\ SlotsCounted /\ PathLeads /\ PayloadIntact
  BY Zenon DEF IInv
<1> DEFINE new == [reader |-> q, pool |-> manager']
<1>0. PICK n : n = Len(links')
  BY Zenon
<1>1. /\ GetSlotManager
      /\ links' = Append(links, new)
      /\ served' = served \cup {n}
      /\ link' = [link EXCEPT ![q] = n]
      /\ Len(links) < MaxLinks
      /\ link[q] = 0
  BY Zenon, <1>0 DEF ConnectService
<1>u. UNCHANGED <<config, draft, alloc, reader, updates, consumed>>
  BY Zenon DEF ConnectService
<1>2. /\ manager' \in 1 .. Len(pools') /\ fs' \in Nat /\ PathLeads'
      /\ pools' \in Seq(Pool) /\ count' \in [Slot -> {0, 1}]
      /\ manager # 0 => UNCHANGED <<fs, pools, manager, count>>
      /\ manager = 0 => \A s \in Slot : count'[s] = 0
      /\ \A i \in 1 .. Len(pools) : i \in 1 .. Len(pools') /\ pools'[i] = pools[i]
      /\ manager = 0 => \A l \in Made : links[l].pool # manager'
  BY Zenon, <1>i, <1>1, SlotManagerResult
<1>3. new \in LinkMade /\ new.reader = q /\ new.pool = manager'
  BY <1>2 DEF LinkMade
<1> HIDE DEF new
<1>4. /\ links' \in Seq(LinkMade) /\ n = Len(links) + 1 /\ n \in 1 .. MaxLinks
      /\ n \in Nat /\ n # 0
      /\ 1 .. Len(links') = (1 .. Len(links)) \cup {n}
      /\ n \notin 1 .. Len(links)
      /\ \A l \in 1 .. Len(links) : links'[l] = links[l]
      /\ links'[n] = new
  <2>1. links \in Seq(LinkMade) /\ links' = Append(links, new) /\ Len(links) < MaxLinks
        /\ MaxLinks \in Nat
    BY Zenon, <1>i, <1>1, BoundAssumption DEF TypeOK
  <2> QED
    BY <1>0, <1>3, <2>1
<1>5. Made' = Made \cup {n} /\ n \notin Made /\ n \in Link /\ \A l \in Made : links'[l] = links[l]
  BY Zenon, <1>4 DEF Made, Link
<1>n. links'[n].reader = q /\ links'[n].pool = manager'
  BY Zenon, <1>3, <1>4
<1>6. updates[n] = <<>> /\ consumed[n] = <<>> /\ n \notin served
  BY Zenon, <1>i, <1>5 DEF LinksKnown
<1>7. /\ link' \in [Reader -> Nat] /\ link'[q] = n
      /\ \A r \in Reader \ {q} : link'[r] = link[r]
  BY Zenon, <1>i, <1>1, <1>4 DEF TypeOK
<1>8. TypeOK'
  <2>1. manager' \in 0 .. Len(pools')
    BY <1>2
  <2>2. served' \in SUBSET Link
    BY Zenon, <1>i, <1>1, <1>5 DEF TypeOK
  <2> QED
    BY Zenon, <1>i, <1>u, <1>2, <1>4, <1>7, <2>1, <2>2 DEF TypeOK
<1>9. LinksKnown'
  <2>1. Made' \subseteq Link
    BY Zenon, <1>i, <1>5 DEF LinksKnown
  <2>2. \A l \in Made' : links'[l].pool \in 1 .. Len(pools')
    BY Zenon, <1>i, <1>2, <1>5, <1>n DEF LinksKnown
  <2>3. \A l \in served : l \in Made /\ links[l].pool = manager /\ manager # 0
    <3>1. \A l \in served : l \in Made /\ links[l].pool = manager /\ links[l].pool \in 1 .. Len(pools)
      BY Zenon, <1>i DEF LinksKnown
    <3>2. 0 \notin 1 .. Len(pools)
      OBVIOUS
    <3> QED
      BY Zenon, <3>1, <3>2
  <2>4. \A l \in served' : l \in Made' /\ links'[l].pool = manager'
    BY Zenon, <1>1, <1>2, <1>5, <1>n, <2>3
  <2>5. ASSUME NEW r \in Reader, link'[r] # 0
        PROVE  link'[r] \in Made' /\ links'[link'[r]].reader = r
    <3>1. CASE r = q
      BY Zenon, <1>5, <1>7, <1>n, <3>1
    <3>2. CASE r # q
      <4>1. link'[r] = link[r] /\ link[r] \in Made /\ links[link[r]].reader = r
        BY Zenon, <1>i, <1>7, <2>5, <3>2 DEF LinksKnown
      <4> QED
        BY Zenon, <1>5, <4>1
    <3> QED
      BY Zenon, <3>1, <3>2
  <2>6. \A r \in Reader : \A p \in reader'[r].held : p.link \in Made' /\ links'[p.link].reader = r
    BY Zenon, <1>i, <1>u, <1>5 DEF LinksKnown
  <2>7. /\ \A l \in Link : updates'[l] # <<>> => l \in Made'
        /\ \A l \in Link : consumed'[l] # <<>> => l \in served'
    BY Zenon, <1>i, <1>u, <1>1, <1>5 DEF LinksKnown
  <2> QED
    BY Zenon, <2>1, <2>2, <2>4, <2>5, <2>6, <2>7 DEF LinksKnown
<1>10. \A l \in Made, s \in Slot : /\ Announced(l, s)' <=> Announced(l, s)
                                   /\ Held(l, s)' <=> Held(l, s)
                                   /\ GivenBack(l, s)' <=> GivenBack(l, s)
  BY Zenon, <1>u, <1>5 DEF Announced, Held, GivenBack
<1>11. \A s \in Slot : ~Announced(n, s)' /\ ~Held(n, s)' /\ ~GivenBack(n, s)'
  <2>1. updates'[n] = <<>> /\ consumed'[n] = <<>>
    BY Zenon, <1>u, <1>6
  <2>2. \A p \in reader'[q].held : p.link # n
    BY Zenon, <1>i, <1>u, <1>5 DEF LinksKnown
  <2>3. \A s \in Slot : ~Announced(n, s)' /\ ~GivenBack(n, s)'
    BY Zenon, <2>1, NoMessages DEF Announced, GivenBack
  <2>4. \A s \in Slot : ~Held(n, s)'
    BY Zenon, <1>n, <2>2 DEF Held
  <2> QED
    BY Zenon, <2>3, <2>4
<1>12. OneTrace'
  <2>1. \A l \in Made' : \A i, j \in 1 .. Len(updates'[l]) :
          updates'[l][i].slot = updates'[l][j].slot => i = j
    <3>1. \A l \in Made : \A i, j \in 1 .. Len(updates[l]) :
            updates[l][i].slot = updates[l][j].slot => i = j
      BY Zenon, <1>i DEF OneTrace
    <3> SUFFICES ASSUME NEW l \in Made', NEW i \in 1 .. Len(updates'[l]),
                        NEW j \in 1 .. Len(updates'[l]), updates'[l][i].slot = updates'[l][j].slot
                 PROVE  i = j
      BY Zenon
    <3>2. updates' = updates
      BY Zenon, <1>u
    <3>3. l # n
      BY Zenon, <1>6, <3>2, NoMessages
    <3>4. l \in Made
      BY Zenon, <1>5, <3>3
    <3> QED
      BY Zenon, <3>1, <3>2, <3>4
  <2>2. \A r \in Reader : \A a, b \in reader'[r].held :
          a.slot = b.slot /\ a.link = b.link => a = b
    BY Zenon, <1>i, <1>u DEF OneTrace
  <2>3. \A l \in Made' : \A i, j \in 1 .. Len(consumed'[l]) :
          consumed'[l][i] = consumed'[l][j] /\ consumed'[l][i].link = l => i = j
    <3>1. \A l \in Made : \A i, j \in 1 .. Len(consumed[l]) :
            consumed[l][i] = consumed[l][j] /\ consumed[l][i].link = l => i = j
      BY Zenon, <1>i DEF OneTrace
    <3> SUFFICES ASSUME NEW l \in Made', NEW i \in 1 .. Len(consumed'[l]),
                        NEW j \in 1 .. Len(consumed'[l]),
                        consumed'[l][i] = consumed'[l][j], consumed'[l][i].link = l
                 PROVE  i = j
      BY Zenon
    <3>2. consumed' = consumed
      BY Zenon, <1>u
    <3>3. l # n
      BY Zenon, <1>6, <3>2, NoMessages
    <3>4. l \in Made
      BY Zenon, <1>5, <3>3
    <3> QED
      BY Zenon, <3>1, <3>2, <3>4
  <2>4. \A l \in Made', s \in Slot :
          /\ Announced(l, s)' => ~Held(l, s)' /\ ~GivenBack(l, s)'
          /\ Held(l, s)' => ~GivenBack(l, s)'
    BY Zenon, <1>i, <1>5, <1>10, <1>11 DEF OneTrace
  <2> QED
    BY Zenon, <2>1, <2>2, <2>3, <2>4 DEF OneTrace
<1>13. UsersCounted'
  <2>1. \A s \in Slot : Users(s)' \subseteq Users(s)
    <3> SUFFICES ASSUME NEW s \in Slot, NEW l \in Users(s)'
                 PROVE  l \in Users(s)
      BY Zenon
    <3>1. /\ l \in Made \/ l = n
          /\ links'[l].pool = manager'
          /\ Announced(l, s)' \/ Held(l, s)' \/ GivenBack(l, s)'
      BY Zenon, <1>5 DEF Users
    <3>2. l \in Made
      BY Zenon, <1>11, <3>1
    <3>3. links[l].pool = manager
      BY Zenon, <1>2, <1>5, <3>1, <3>2
    <3> QED
      BY Zenon, <1>10, <3>1, <3>2, <3>3 DEF Users
  <2> QED
    BY Zenon, <1>i, <1>u, <2>1, NoNewTrace
<1>14. SlotsCounted'
  <2>1. CASE manager = 0
    <3>1. \A s \in Slot : s \notin draft /\ alloc[s] = 0
      BY <1>i, <2>1 DEF SlotsCounted
    <3>2. UNCHANGED <<draft, alloc>> /\ \A s \in Slot : count'[s] = 0
      BY Zenon, <1>u, <1>2, <2>1
    <3> QED
      BY <3>1, <3>2 DEF SlotsCounted
  <2>2. CASE manager # 0
    BY Zenon, <1>i, <1>u, <1>2, <2>2, SlotsKept
  <2> QED
    BY Zenon, <2>1, <2>2
<1>15. PayloadIntact'
  <2>1. ASSUME NEW r \in Reader, NEW p \in reader'[r].held
        PROVE  pools'[links'[p.link].pool].memory[p.slot] = p.event
    <3>1. p \in reader[r].held /\ p.link \in Made
      BY Zenon, <1>i, <1>u, <2>1 DEF LinksKnown
    <3>2. links'[p.link] = links[p.link] /\ links[p.link].pool \in 1 .. Len(pools)
      BY Zenon, <1>i, <1>5, <3>1 DEF LinksKnown
    <3>3. pools'[links[p.link].pool] = pools[links[p.link].pool]
      BY Zenon, <1>2, <3>2
    <3>4. pools[links[p.link].pool].memory[p.slot] = p.event
      BY Zenon, <1>i, <3>1 DEF PayloadIntact
    <3> QED
      BY Zenon, <3>2, <3>3, <3>4
  <2>2. ASSUME NEW l \in Made', NEW i \in 1 .. Len(updates'[l])
        PROVE  pools'[links'[l].pool].memory[updates'[l][i].slot] = updates'[l][i].event
    <3>1. updates' = updates /\ l # n
      BY Zenon, <1>u, <1>6, <2>2, NoMessages
    <3>2. l \in Made /\ i \in 1 .. Len(updates[l])
      BY Zenon, <1>5, <2>2, <3>1
    <3>3. links'[l] = links[l] /\ links[l].pool \in 1 .. Len(pools)
      BY Zenon, <1>i, <1>5, <3>2 DEF LinksKnown
    <3>4. pools'[links[l].pool] = pools[links[l].pool]
      BY Zenon, <1>2, <3>3
    <3>5. pools[links[l].pool].memory[updates[l][i].slot] = updates[l][i].event
      BY Zenon, <1>i, <3>2 DEF PayloadIntact, Made
    <3> QED
      BY Zenon, <3>1, <3>3, <3>4, <3>5
  <2> QED
    BY Zenon, <2>1, <2>2 DEF PayloadIntact, Made
<1> QED
  BY Zenon, <1>2, <1>8, <1>9, <1>12, <1>13, <1>14, <1>15 DEF IInv

LEMMA WrittenIsNatural == Written \in Nat
<1>1. IsFiniteSet(1 .. MaxEvents)
  BY FS_Interval, BoundAssumption
<1> DEFINE S == {n \in 1 .. MaxEvents :
                    \E i \in 1 .. Len(pools), s \in Slot : n <= pools[i].memory[s]}
<1>2. S \in SUBSET (1 .. MaxEvents)
  OBVIOUS
<1>3. IsFiniteSet(S)
  BY Zenon, <1>1, <1>2, FS_Subset
<1> QED
  BY <1>3, FS_CardinalityType DEF Written

\* A slot that is written has no users.
LEMMA AllocateAndWriteStep ==
    ASSUME IInv, AllocateAndWrite
    PROVE  IInv'
<1>i. TypeOK /\ LinksKnown /\ OneTrace /\ UsersCounted /\ SlotsCounted /\ PathLeads /\ PayloadIntact
  BY Zenon DEF IInv
<1>1. PICK s \in Slot : /\ FirstFree(s)
                        /\ count' = [count EXCEPT ![s] = 1]
                        /\ pools' = [pools EXCEPT ![manager].memory[s] = Written + 1]
                        /\ draft' = draft \cup {s}
  BY Zenon DEF AllocateAndWrite
<1>2. /\ manager # 0
      /\ UNCHANGED <<fs, config, manager, alloc, links, served, link, reader, updates, consumed>>
  BY Zenon DEF AllocateAndWrite
<1>3. count[s] = 0 /\ s \notin draft /\ alloc[s] = 0 /\ Users(s) = {}
  <2>1. count[s] = 0
    BY Zenon, <1>1 DEF FirstFree
  <2>2. s \notin draft /\ alloc[s] = 0
    BY <1>i, <2>1 DEF SlotsCounted
  <2> QED
    BY Zenon, <1>i, <2>1, <2>2, NoneCounted
<1>4. manager \in 1 .. Len(pools) /\ pools[manager] \in Pool
  BY <1>i, <1>2 DEF TypeOK
<1>5. /\ pools' \in Seq(Pool) /\ Len(pools') = Len(pools)
      /\ \A t \in Slot \ {s} : pools'[manager].memory[t] = pools[manager].memory[t]
      /\ \A k \in 1 .. Len(pools) : k # manager => pools'[k] = pools[k]
  <2> DEFINE new == [pools[manager] EXCEPT !.memory = [@ EXCEPT ![s] = Written + 1]]
  <2>1. new \in Pool
        /\ \A t \in Slot \ {s} : new.memory[t] = pools[manager].memory[t]
    <3>1. [pools[manager].memory EXCEPT ![s] = Written + 1] \in [Slot -> Nat]
      BY <1>4, WrittenIsNatural DEF Pool
    <3> QED
      BY <1>4, <3>1 DEF Pool
  <2>2. pools' = [pools EXCEPT ![manager] = new]
    BY <1>1
  <2>3. pools \in Seq(Pool)
    BY Zenon, <1>i DEF TypeOK
  <2> HIDE DEF new
  <2> QED
    BY <1>4, <2>1, <2>2, <2>3
<1>6. TypeOK'
  BY Zenon, <1>i, <1>1, <1>2, <1>5 DEF TypeOK
<1>7. LinksKnown'
  BY Zenon, <1>i, <1>2, <1>5 DEF LinksKnown, Made
<1>8. SlotsCounted' /\ PathLeads'
  BY Zenon, <1>i, <1>1, <1>2, <1>3 DEF SlotsCounted, TypeOK, PathLeads
<1>9. OneTrace' /\ UsersCounted'
  <2>1. \A l \in Made : links[l].reader \in Reader
    BY Zenon, <1>i, ReaderOfLink
  <2>2. OneTrace' /\ \A t \in Slot : Users(t)' \subseteq Users(t)
    BY Zenon, <1>i, <1>2, <2>1, FewerTraces
  <2> QED
    BY Zenon, <1>i, <1>2, <2>2, NoNewTrace
<1>10. \A l \in Made, t \in Slot :
         links[l].pool # manager \/ t # s =>
             pools'[links[l].pool].memory[t] = pools[links[l].pool].memory[t]
  <2>1. \A l \in Made : links[l].pool \in 1 .. Len(pools)
    BY Zenon, <1>i DEF LinksKnown
  <2> QED
    BY Zenon, <1>5, <2>1
<1>11. PayloadIntact'
  <2>1. ASSUME NEW r \in Reader, NEW p \in reader[r].held
        PROVE  pools'[links[p.link].pool].memory[p.slot] = p.event
    <3>1. p.link \in Made /\ links[p.link].reader = r
      BY Zenon, <1>i DEF LinksKnown
    <3>2. p \in Payload
      BY Zenon, <1>i DEF TypeOK, ReaderState
    <3>3. p.slot \in Slot
      BY Zenon, <3>2 DEF Payload
    <3>4. Held(p.link, p.slot)
      BY Zenon, <3>1 DEF Held
    <3>5. links[p.link].pool # manager \/ p.slot # s
      BY Zenon, <1>3, <3>1, <3>4 DEF Users
    <3>6. pools[links[p.link].pool].memory[p.slot] = p.event
      BY Zenon, <1>i DEF PayloadIntact
    <3> QED
      BY Zenon, <1>10, <3>1, <3>3, <3>5, <3>6
  <2>2. ASSUME NEW l \in Made, NEW i \in 1 .. Len(updates[l])
        PROVE  pools'[links[l].pool].memory[updates[l][i].slot] = updates[l][i].event
    <3>1. updates[l] \in Seq(EventUpdate)
      BY Zenon, <1>i DEF TypeOK, LinksKnown
    <3>2. updates[l][i] \in EventUpdate
      BY <3>1
    <3>3. updates[l][i].slot \in Slot
      BY Zenon, <3>2 DEF EventUpdate
    <3>4. Announced(l, updates[l][i].slot)
      BY Zenon DEF Announced
    <3>5. links[l].pool # manager \/ updates[l][i].slot # s
      BY Zenon, <1>3, <3>4 DEF Users
    <3>6. pools[links[l].pool].memory[updates[l][i].slot] = updates[l][i].event
      BY Zenon, <1>i DEF PayloadIntact, Made
    <3> QED
      BY Zenon, <1>10, <3>3, <3>5, <3>6
  <2> QED
    BY Zenon, <1>2, <2>1, <2>2 DEF PayloadIntact, Made
<1> QED
  BY Zenon, <1>6, <1>7, <1>8, <1>9, <1>11 DEF IInv

\* An event that is published gets at least as many consumers as there are
\* messages.
LEMMA PublishStep ==
    ASSUME IInv, NEW s \in Slot, Publish(s)
    PROVE  IInv'
<1>i. TypeOK /\ LinksKnown /\ OneTrace /\ UsersCounted /\ SlotsCounted /\ PathLeads /\ PayloadIntact
  BY Zenon DEF IInv
<1>0. PICK msg : msg = [slot |-> s, event |-> pools[manager].memory[s]]
  BY Zenon
<1>1. PICK sent \in SUBSET served :
        /\ updates' = [l \in Link |-> IF l \in {k \in sent : link[links[k].reader] = k}
                                      THEN Append(updates[l], msg) ELSE updates[l]]
        /\ InsertAllocation(s, Cardinality(sent))
  BY Zenon, <1>0 DEF Publish
<1>t. PICK to : to = {k \in sent : link[links[k].reader] = k}
  BY Zenon
<1>u. /\ s \in draft /\ draft' = draft \ {s}
      /\ UNCHANGED <<fs, pools, config, manager, links, served, link, reader, consumed>>
  BY Zenon DEF Publish
<1>2. alloc[s] = 0 /\ count[s] = 1 /\ manager # 0 /\ Users(s) = {}
  <2>1. alloc[s] = 0 /\ count[s] = 1 /\ manager # 0
    BY <1>i, <1>u DEF SlotsCounted
  <2> QED
    BY Zenon, <1>i, <2>1, NoneCounted
<1>3. /\ IsFiniteSet(sent) /\ Cardinality(sent) \in Nat /\ to \in SUBSET sent
      /\ \A l \in sent : l \in Made /\ l \in Link /\ links[l].pool = manager
  <2>1. \A l \in sent : l \in Made /\ l \in Link /\ links[l].pool = manager
    BY Zenon, <1>i, <1>1 DEF LinksKnown
  <2>2. Len(links) \in Int
    BY <1>i DEF TypeOK
  <2>3. IsFiniteSet(Made)
    BY <2>2, FS_Interval DEF Made
  <2>4. sent \in SUBSET Made /\ to \in SUBSET sent
    BY Zenon, <1>t, <2>1
  <2> QED
    BY <2>1, <2>3, <2>4, FS_Subset, FS_CardinalityType
<1>4. msg \in EventUpdate /\ msg.slot = s /\ msg.event = pools[manager].memory[s]
  <2>1. pools[manager] \in Pool
    BY <1>i, <1>2 DEF TypeOK
  <2> QED
    BY <1>0, <2>1 DEF Pool, EventUpdate
<1>5. \A l \in Link :
        /\ updates'[l] \in Seq(EventUpdate)
        /\ l \notin to => updates'[l] = updates[l]
        /\ l \in to => \A i \in 1 .. Len(updates'[l]) :
              \/ i \in 1 .. Len(updates[l]) /\ updates'[l][i] = updates[l][i]
              \/ i = Len(updates[l]) + 1 /\ updates'[l][i] = msg
  <2> TAKE l \in Link
  <2>1. updates[l] \in Seq(EventUpdate)
    BY Zenon, <1>i DEF TypeOK
  <2>2. CASE l \in to
    <3>1. updates'[l] = Append(updates[l], msg)
      BY Zenon, <1>1, <1>t, <2>2
    <3>2. /\ updates'[l] \in Seq(EventUpdate)
          /\ \A i \in 1 .. Len(updates'[l]) :
               \/ i \in 1 .. Len(updates[l]) /\ updates'[l][i] = updates[l][i]
               \/ i = Len(updates[l]) + 1 /\ updates'[l][i] = msg
      BY <1>4, <2>1, <3>1, AppendOf
    <3> QED
      BY Zenon, <2>2, <3>2
  <2>3. CASE l \notin to
    BY Zenon, <1>1, <1>t, <2>1, <2>3
  <2> QED
    BY Zenon, <2>2, <2>3
<1>c. /\ alloc' \in [Slot -> Nat] /\ count' \in [Slot -> {0, 1}]
      /\ alloc'[s] = Cardinality(sent) /\ \A t \in Slot \ {s} : alloc'[t] = alloc[t]
      /\ count'[s] = IF Cardinality(sent) = 0 THEN 0 ELSE 1
      /\ \A t \in Slot \ {s} : count'[t] = count[t]
  <2>1. /\ alloc \in [Slot -> Nat] /\ count \in [Slot -> {0, 1}]
        /\ alloc' = [alloc EXCEPT ![s] = @ + Cardinality(sent)]
        /\ count' = [count EXCEPT ![s] = IF Cardinality(sent) = 0 THEN @ - 1 ELSE @]
    BY Zenon, <1>i, <1>1 DEF TypeOK, InsertAllocation
  <2>2. alloc[s] = 0 /\ count[s] = 1 /\ Cardinality(sent) \in Nat
    BY Zenon, <1>2, <1>3
  <2> QED
    BY <2>1, <2>2
<1>6. TypeOK'
  <2>1. updates' \in [Link -> Seq(EventUpdate)]
    BY Zenon, <1>1, <1>5
  <2>2. draft' \in SUBSET Slot
    BY Zenon, <1>i, <1>u DEF TypeOK
  <2> QED
    BY Zenon, <1>i, <1>u, <1>c, <2>1, <2>2 DEF TypeOK
<1>m. Made' = Made /\ Made \subseteq Link
  BY Zenon, <1>i, <1>u DEF Made, LinksKnown
<1>7. LinksKnown'
  <2>1. \A l \in Link : updates'[l] # <<>> => l \in Made
    BY Zenon, <1>i, <1>3, <1>5 DEF LinksKnown
  <2> QED
    BY Zenon, <1>i, <1>u, <1>m, <2>1 DEF LinksKnown
<1>8. \A l \in Made, t \in Slot : Announced(l, t)' => Announced(l, t) \/ (l \in to /\ t = s)
  <2> SUFFICES ASSUME NEW l \in Made, NEW t \in Slot, NEW i \in 1 .. Len(updates'[l]),
                      updates'[l][i].slot = t
               PROVE  Announced(l, t) \/ (l \in to /\ t = s)
    BY Zenon DEF Announced
  <2>1. CASE l \in to
    BY Zenon, <1>m, <1>4, <1>5, <2>1 DEF Announced
  <2>2. CASE l \notin to
    BY Zenon, <1>m, <1>5, <2>2 DEF Announced
  <2> QED
    BY Zenon, <2>1, <2>2
<1>9. \A l \in Made, t \in Slot : /\ Held(l, t)' <=> Held(l, t)
                                  /\ GivenBack(l, t)' <=> GivenBack(l, t)
  BY Zenon, <1>u DEF Held, GivenBack
<1>10. \A l \in to : /\ l \in Made
                     /\ ~Announced(l, s) /\ ~Held(l, s) /\ ~GivenBack(l, s)
  BY Zenon, <1>2, <1>3 DEF Users
<1>11. OneTrace'
  <2>1. ASSUME NEW l \in Made, NEW i \in 1 .. Len(updates'[l]), NEW j \in 1 .. Len(updates'[l]),
               updates'[l][i].slot = updates'[l][j].slot
        PROVE  i = j
    <3>1. l \in Link /\ \A k, m \in 1 .. Len(updates[l]) :
                           updates[l][k].slot = updates[l][m].slot => k = m
      BY Zenon, <1>i, <1>m DEF OneTrace
    <3>2. CASE l \notin to
      BY Zenon, <1>5, <2>1, <3>1, <3>2
    <3>3. CASE l \in to
      <4>1. \A k \in 1 .. Len(updates[l]) : updates[l][k].slot # s
        BY Zenon, <1>10, <3>3 DEF Announced
      <4>2. /\ \/ i \in 1 .. Len(updates[l]) /\ updates'[l][i] = updates[l][i]
               \/ i = Len(updates[l]) + 1 /\ updates'[l][i].slot = s
            /\ \/ j \in 1 .. Len(updates[l]) /\ updates'[l][j] = updates[l][j]
               \/ j = Len(updates[l]) + 1 /\ updates'[l][j].slot = s
        BY Zenon, <1>4, <1>5, <3>1, <3>3
      <4> QED
        BY Zenon, <2>1, <3>1, <4>1, <4>2
    <3> QED
      BY Zenon, <3>2, <3>3
  <2>2. \A r \in Reader : \A a, b \in reader'[r].held :
          a.slot = b.slot /\ a.link = b.link => a = b
    BY Zenon, <1>i, <1>u DEF OneTrace
  <2>3. \A l \in Made : \A i, j \in 1 .. Len(consumed'[l]) :
          consumed'[l][i] = consumed'[l][j] /\ consumed'[l][i].link = l => i = j
    BY Zenon, <1>i, <1>u DEF OneTrace
  <2>4. \A l \in Made, t \in Slot :
          /\ Announced(l, t)' => ~Held(l, t)' /\ ~GivenBack(l, t)'
          /\ Held(l, t)' => ~GivenBack(l, t)'
    BY Zenon, <1>i, <1>8, <1>9, <1>10 DEF OneTrace
  <2> QED
    BY Zenon, <1>m, <2>1, <2>2, <2>3, <2>4 DEF OneTrace
<1>12. UsersCounted'
  <2>1. Users(s)' \in SUBSET sent
    <3> SUFFICES ASSUME NEW l \in Users(s)' PROVE l \in sent
      BY Zenon
    <3>1. /\ l \in Made /\ links[l].pool = manager
          /\ Announced(l, s)' \/ Held(l, s)' \/ GivenBack(l, s)'
      BY Zenon, <1>m, <1>u DEF Users
    <3>2. ~Announced(l, s) /\ ~Held(l, s) /\ ~GivenBack(l, s)
      BY Zenon, <1>2, <3>1 DEF Users
    <3> QED
      BY Zenon, <1>3, <1>8, <1>9, <3>1, <3>2
  <2>2. Cardinality(Users(s)') <= Cardinality(sent)
    BY <1>3, <2>1, FS_Subset
  <2>3. ASSUME NEW t \in Slot, t # s
        PROVE  Cardinality(Users(t)') <= alloc'[t]
    <3>1. \A l \in Made : /\ Announced(l, t)' <=> Announced(l, t)
                          /\ Held(l, t)' <=> Held(l, t)
                          /\ GivenBack(l, t)' <=> GivenBack(l, t)
      <4>1. ASSUME NEW l \in Made, Announced(l, t)
            PROVE  Announced(l, t)'
        <5>1. PICK i \in 1 .. Len(updates[l]) : updates[l][i].slot = t
          BY Zenon, <4>1 DEF Announced
        <5>2. i \in 1 .. Len(updates'[l]) /\ updates'[l][i] = updates[l][i]
          <6>1. CASE l \notin to
            BY Zenon, <1>m, <1>5, <6>1
          <6>2. CASE l \in to
            <7>1. updates[l] \in Seq(EventUpdate) /\ updates'[l] = Append(updates[l], msg)
              BY Zenon, <1>i, <1>m, <1>1, <1>t, <6>2 DEF TypeOK
            <7> QED
              BY <1>4, <7>1, AppendOf
          <6> QED
            BY Zenon, <6>1, <6>2
        <5> QED
          BY Zenon, <5>1, <5>2 DEF Announced
      <4> QED
        BY Zenon, <1>8, <1>9, <2>3, <4>1
    <3>2. Users(t)' = Users(t)
      BY Zenon, <1>m, <1>u, <3>1 DEF Users
    <3> QED
      BY Zenon, <1>i, <1>c, <2>3, <3>2 DEF UsersCounted
  <2> QED
    BY Zenon, <1>c, <2>2, <2>3 DEF UsersCounted
<1>13. SlotsCounted'
  <2>1. /\ count'[s] = IF s \in draft' \/ alloc'[s] # 0 THEN 1 ELSE 0
        /\ s \notin draft' /\ manager' # 0
    BY <1>u, <1>2, <1>c
  <2>2. \A t \in Slot \ {s} : /\ t \in draft' <=> t \in draft
                              /\ count'[t] = count[t] /\ alloc'[t] = alloc[t]
    BY Zenon, <1>u, <1>c
  <2> QED
    BY Zenon, <1>i, <2>1, <2>2 DEF SlotsCounted
<1>14. PayloadIntact' /\ PathLeads'
  <2>1. \A r \in Reader : \A p \in reader'[r].held :
            pools'[links'[p.link].pool].memory[p.slot] = p.event
    BY Zenon, <1>i, <1>u DEF PayloadIntact
  <2>2. ASSUME NEW l \in Made, NEW i \in 1 .. Len(updates'[l])
        PROVE  pools[links[l].pool].memory[updates'[l][i].slot] = updates'[l][i].event
    <3>1. \/ i \in 1 .. Len(updates[l]) /\ updates'[l][i] = updates[l][i]
          \/ l \in to /\ updates'[l][i] = msg
      BY Zenon, <1>m, <1>5, <2>2
    <3>2. CASE i \in 1 .. Len(updates[l]) /\ updates'[l][i] = updates[l][i]
      BY Zenon, <1>i, <3>2 DEF PayloadIntact, Made
    <3>3. CASE l \in to /\ updates'[l][i] = msg
      BY Zenon, <1>3, <1>4, <3>3
    <3> QED
      BY Zenon, <3>1, <3>2, <3>3
  <2> QED
    BY Zenon, <1>i, <1>u, <2>1, <2>2 DEF PayloadIntact, Made, PathLeads
<1> QED
  BY Zenon, <1>6, <1>7, <1>11, <1>12, <1>13, <1>14 DEF IInv

\* A consumer is taken off when its link has no trace of the slot left.
LEMMA ReceiveConsumedStep ==
    ASSUME IInv, NEW c \in Link, ReceiveConsumed(c)
    PROVE  IInv'
<1>i. TypeOK /\ LinksKnown /\ OneTrace /\ UsersCounted /\ SlotsCounted /\ PathLeads /\ PayloadIntact
  BY Zenon DEF IInv
<1>0. PICK msg : msg = Head(consumed[c])
  BY Zenon
<1>1. /\ consumed[c] # <<>>
      /\ consumed' = [consumed EXCEPT ![c] = Tail(@)]
      /\ IF msg.link = c THEN PayloadConsumed(msg.slot) ELSE UNCHANGED <<alloc, count>>
  BY Zenon, <1>0 DEF ReceiveConsumed
<1>u. UNCHANGED <<fs, pools, config, manager, draft, links, served, link, reader, updates>>
  BY Zenon DEF ReceiveConsumed
<1>2. /\ msg \in PayloadDone /\ msg = consumed[c][1] /\ 1 \in 1 .. Len(consumed[c])
      /\ consumed'[c] \in Seq(PayloadDone)
      /\ \A i \in 1 .. Len(consumed'[c]) :
            i + 1 \in 1 .. Len(consumed[c]) /\ i + 1 # 1 /\ consumed'[c][i] = consumed[c][i + 1]
      /\ \A i, j \in 1 .. Len(consumed'[c]) : i + 1 = j + 1 => i = j
  <2>1. consumed[c] \in Seq(PayloadDone) /\ consumed'[c] = Tail(consumed[c])
    BY Zenon, <1>i, <1>1 DEF TypeOK
  <2>2. consumed[c] # <<>>
    BY Zenon, <1>1
  <2> QED
    BY <1>0, <2>1, <2>2, TailOf
<1>3. \A l \in Link \ {c} : consumed'[l] = consumed[l]
  BY Zenon, <1>i, <1>1 DEF TypeOK
<1>4. PICK s \in Slot : msg.slot = s /\ msg = [slot |-> s, link |-> msg.link]
  BY <1>2 DEF PayloadDone
<1>s. c \in served /\ c \in Made /\ links[c].pool = manager
  BY Zenon, <1>i, <1>1 DEF LinksKnown
<1>m. Made' = Made /\ Made \subseteq Link
  BY Zenon, <1>i, <1>u DEF Made, LinksKnown
<1>5. alloc' \in [Slot -> Nat] /\ count' \in [Slot -> {0, 1}] /\ SlotsCounted'
  <2>1. CASE msg.link = c
    <3>1. /\ alloc \in [Slot -> Nat] /\ count \in [Slot -> {0, 1}]
          /\ alloc' = [alloc EXCEPT ![s] = IF @ = 0 THEN 0 ELSE @ - 1]
          /\ count' = [count EXCEPT ![s] = IF alloc[s] = 1 THEN @ - 1 ELSE @]
      BY Zenon, <1>i, <1>1, <1>4, <2>1 DEF PayloadConsumed, TypeOK
    <3>2. /\ alloc[s] = 1 => count[s] = 1 /\ s \notin draft
          /\ count[s] = IF s \in draft \/ alloc[s] # 0 THEN 1 ELSE 0
          /\ manager = 0 => count[s] = 0
      BY <1>i DEF SlotsCounted
    <3>3. /\ alloc' \in [Slot -> Nat] /\ count' \in [Slot -> {0, 1}]
          /\ \A t \in Slot \ {s} : alloc'[t] = alloc[t] /\ count'[t] = count[t]
          /\ alloc'[s] = IF alloc[s] = 0 THEN 0 ELSE alloc[s] - 1
          /\ count'[s] = IF alloc[s] = 1 THEN 0 ELSE count[s]
      BY <3>1, <3>2
    <3>4. alloc[s] \in Nat
      BY Zenon, <3>1
    <3>5. /\ count'[s] = IF s \in draft \/ alloc'[s] # 0 THEN 1 ELSE 0
          /\ s \in draft => alloc'[s] = 0
          /\ manager = 0 => count'[s] = 0
      <4>1. s \in draft => alloc[s] = 0
        BY Zenon, <1>i DEF SlotsCounted
      <4> QED
        BY <3>2, <3>3, <3>4, <4>1
    <3> QED
      BY Zenon, <1>i, <1>u, <3>3, <3>5 DEF SlotsCounted
  <2>2. CASE msg.link # c
    <3>1. UNCHANGED <<alloc, count>>
      BY Zenon, <1>1, <2>2
    <3> QED
      BY Zenon, <1>i, <1>u, <3>1, SlotsKept DEF TypeOK
  <2> QED
    BY Zenon, <2>1, <2>2
<1>6. TypeOK'
  <2>1. consumed' \in [Link -> Seq(PayloadDone)]
    BY Zenon, <1>i, <1>1, <1>2 DEF TypeOK
  <2> QED
    BY Zenon, <1>i, <1>u, <1>5, <2>1 DEF TypeOK
<1>7. LinksKnown'
  <2>1. \A l \in Link : consumed'[l] # <<>> => l \in served
    BY Zenon, <1>i, <1>3, <1>s DEF LinksKnown
  <2> QED
    BY Zenon, <1>i, <1>u, <1>m, <2>1 DEF LinksKnown
<1>8. \A l \in Made, t \in Slot : /\ Announced(l, t)' <=> Announced(l, t)
                                  /\ Held(l, t)' <=> Held(l, t)
  BY Zenon, <1>u DEF Announced, Held
<1>9. \A l \in Made, t \in Slot : GivenBack(l, t)' => GivenBack(l, t)
  <2>1. \A l \in Made \ {c}, t \in Slot : GivenBack(l, t)' => GivenBack(l, t)
    BY Zenon, <1>m, <1>3 DEF GivenBack
  <2>2. \A t \in Slot : GivenBack(c, t)' => GivenBack(c, t)
    BY Zenon, <1>2 DEF GivenBack
  <2> QED
    BY Zenon, <2>1, <2>2
<1>10. OneTrace'
  <2>1. ASSUME NEW l \in Made, NEW i \in 1 .. Len(consumed'[l]),
               NEW j \in 1 .. Len(consumed'[l]),
               consumed'[l][i] = consumed'[l][j], consumed'[l][i].link = l
        PROVE  i = j
    <3>1. CASE l # c
      <4>1. consumed'[l] = consumed[l]
        BY Zenon, <1>m, <1>3, <3>1
      <4> QED
        BY Zenon, <1>i, <2>1, <4>1 DEF OneTrace
    <3>2. CASE l = c
      <4>1. /\ i + 1 \in 1 .. Len(consumed[c]) /\ j + 1 \in 1 .. Len(consumed[c])
            /\ consumed[c][i + 1] = consumed[c][j + 1] /\ consumed[c][i + 1].link = c
        BY Zenon, <1>2, <2>1, <3>2
      <4>2. i + 1 = j + 1
        BY Zenon, <1>i, <1>s, <4>1 DEF OneTrace
      <4> QED
        BY Zenon, <1>2, <2>1, <3>2, <4>2
    <3> QED
      BY Zenon, <3>1, <3>2
  <2>2. \A r \in Reader : \A a, b \in reader'[r].held :
          a.slot = b.slot /\ a.link = b.link => a = b
    BY Zenon, <1>i, <1>u DEF OneTrace
  <2>3. \A l \in Made : \A i, j \in 1 .. Len(updates'[l]) :
            updates'[l][i].slot = updates'[l][j].slot => i = j
    BY Zenon, <1>i, <1>u DEF OneTrace
  <2>4. \A l \in Made, t \in Slot : /\ Announced(l, t)' => ~Held(l, t)' /\ ~GivenBack(l, t)'
                                    /\ Held(l, t)' => ~GivenBack(l, t)'
    BY Zenon, <1>i, <1>8, <1>9 DEF OneTrace
  <2> QED
    BY Zenon, <1>m, <2>1, <2>2, <2>3, <2>4 DEF OneTrace
<1>11. UsersCounted'
  <2>1. \A t \in Slot : Users(t)' \subseteq Users(t)
    BY Zenon, <1>m, <1>u, <1>8, <1>9 DEF Users
  <2>2. CASE msg.link # c
    <3>1. alloc' = alloc
      BY Zenon, <1>1, <2>2
    <3> QED
      BY Zenon, <1>i, <2>1, <3>1, NoNewTrace
  <2>3. CASE msg.link = c
    <3>1. consumed[c][1] = [slot |-> s, link |-> c]
      BY Zenon, <1>2, <1>4, <2>3
    <3>2. GivenBack(c, s)
      BY Zenon, <1>2, <3>1 DEF GivenBack
    <3>3. ~Announced(c, s) /\ ~Held(c, s)
      BY Zenon, <1>i, <1>s, <3>2 DEF OneTrace
    <3>4. ~GivenBack(c, s)'
      <4> SUFFICES ASSUME NEW i \in 1 .. Len(consumed'[c]),
                          consumed'[c][i] = [slot |-> s, link |-> c]
                   PROVE  FALSE
        BY Zenon DEF GivenBack
      <4>1. i + 1 \in 1 .. Len(consumed[c]) /\ i + 1 # 1 /\ consumed[c][i + 1] = consumed[c][1]
        BY Zenon, <1>2, <3>1
      <4>2. consumed[c][i + 1].link = c
        BY Zenon, <1>2, <2>3, <4>1
      <4> QED
        BY Zenon, <1>i, <1>s, <1>2, <4>1, <4>2 DEF OneTrace
    <3>5. c \in Users(s) /\ c \notin Users(s)'
      BY Zenon, <1>s, <1>8, <3>2, <3>3, <3>4 DEF Users
    <3>6. \A t \in Slot : /\ Cardinality(Users(t)') \in Nat
                          /\ Cardinality(Users(t)') <= Cardinality(Users(t))
      <4> TAKE t \in Slot
      <4>1. Users(t)' \in SUBSET Users(t) /\ IsFiniteSet(Users(t))
        BY Zenon, <1>i, <2>1, UsersFinite
      <4> QED
        BY <4>1, FS_Subset, FS_CardinalityType
    <3>7. Cardinality(Users(s)') # Cardinality(Users(s))
      <4>1. Users(s)' \in SUBSET Users(s) /\ IsFiniteSet(Users(s)) /\ Users(s)' # Users(s)
        BY Zenon, <1>i, <2>1, <3>5, UsersFinite
      <4> QED
        BY <4>1, FS_Subset
    <3>8. \A t \in Slot : Cardinality(Users(t)) \in Nat /\ Cardinality(Users(t)) <= alloc[t]
      BY Zenon, <1>i, UsersFinite DEF UsersCounted
    <3>9. /\ \A t \in Slot \ {s} : alloc'[t] = alloc[t]
          /\ alloc'[s] = IF alloc[s] = 0 THEN 0 ELSE alloc[s] - 1
          /\ \A t \in Slot : alloc[t] \in Nat
      BY Zenon, <1>i, <1>1, <1>4, <2>3 DEF PayloadConsumed, TypeOK
    <3>10. \A t \in Slot \ {s} : Cardinality(Users(t)') <= alloc'[t]
      <4> TAKE t \in Slot \ {s}
      <4>1. \A a, b, d \in Nat : a <= b /\ b <= d => a <= d
        OBVIOUS
      <4> QED
        BY Zenon, <3>6, <3>8, <3>9, <4>1
    <3>11. Cardinality(Users(s)') <= alloc'[s]
      <4>1. \A a, b, d \in Nat : a <= b /\ a # b /\ b <= d => a <= (IF d = 0 THEN 0 ELSE d - 1)
        OBVIOUS
      <4> QED
        BY Zenon, <3>6, <3>7, <3>8, <3>9, <4>1
    <3> QED
      BY Zenon, <3>10, <3>11 DEF UsersCounted
  <2> QED
    BY Zenon, <2>2, <2>3
<1>12. PayloadIntact' /\ PathLeads'
  BY Zenon, <1>i, <1>u DEF PayloadIntact, PathLeads
<1> QED
  BY Zenon, <1>5, <1>6, <1>7, <1>10, <1>11, <1>12 DEF IInv

\* The view a reader uses, or opens: of the pool under the path.
LEMMA GetViewResult ==
    ASSUME TypeOK, LinksKnown, NEW q \in Reader, link[q] # 0
    PROVE  /\ GetView(q) \in ReaderState
           /\ GetView(q).held = reader[q].held
           /\ reader[q].view = 0 => GetView(q).view = fs
           /\ reader[q].view # 0 => GetView(q) = reader[q]
<1>1. reader[q] \in ReaderState /\ fs \in Nat
  BY Zenon DEF TypeOK
<1>2. CASE reader[q].view # 0
  BY Zenon, <1>1, <1>2 DEF GetView
<1>3. CASE reader[q].view = 0
  <2> DEFINE k == pools[links[link[q]].pool].config
  <2>1. links[link[q]].pool \in 1 .. Len(pools)
    BY Zenon DEF LinksKnown
  <2>2. pools[links[link[q]].pool] \in Pool
    BY <2>1 DEF TypeOK
  <2>3. k \in Config
    BY Zenon, <2>2 DEF Pool
  <2>4. GetView(q) = [reader[q] EXCEPT !.view = fs, !.sizes = k]
    BY Zenon, <1>3 DEF GetView
  <2> HIDE DEF k
  <2> QED
    BY Zenon, <1>1, <1>3, <2>3, <2>4 DEF ReaderState
<1> QED
  BY Zenon, <1>2, <1>3

\* A message becomes a payload, or the reader ends.
LEMMA ReceiveUpdateStep ==
    ASSUME IInv, NEW q \in Reader, ReceiveUpdate(q)
    PROVE  IInv'
<1>i. TypeOK /\ LinksKnown /\ OneTrace /\ UsersCounted /\ SlotsCounted /\ PathLeads /\ PayloadIntact
  BY Zenon DEF IInv
<1>0. PICK c, msg, view, payload :
        /\ c = link[q] /\ msg = Head(updates[c]) /\ view = GetView(q)
        /\ payload = [slot |-> msg.slot, event |-> msg.event, link |-> c]
  BY Zenon
<1>u. UNCHANGED <<fs, pools, manager, count, config, draft, alloc, links, served, consumed>>
  BY Zenon DEF ReceiveUpdate, poolVars
<1>1. c # 0 /\ updates[c] # <<>>
  BY Zenon, <1>0 DEF ReceiveUpdate
<1>c. CASE reader' = [reader EXCEPT ![q] = Down] /\ Unlinked(q)
  <2>1. /\ link' \in [Reader -> Nat] /\ updates' \in [Link -> Seq(EventUpdate)]
        /\ \A r \in Reader : link'[r] = link[r] \/ link'[r] = 0
        /\ \A l \in Link : updates'[l] = updates[l] \/ updates'[l] = <<>>
    BY Zenon, <1>i, <1>c, UnlinkedResult
  <2>2. /\ reader' \in [Reader -> ReaderState]
        /\ \A r \in Reader : reader'[r].held \subseteq reader[r].held
    BY Zenon, <1>i, <1>c, DownResult
  <2>3. TypeOK' /\ PathLeads'
    BY Zenon, <1>i, <1>u, <2>1, <2>2 DEF TypeOK, PathLeads
  <2> QED
    BY Zenon, <1>u, <2>1, <2>2, <2>3, QuietStep
<1>h. CASE /\ reader' = [reader EXCEPT ![q] = [view EXCEPT !.held = @ \cup {payload}]]
           /\ updates' = [updates EXCEPT ![c] = Tail(@)]
           /\ UNCHANGED link
  <2>m. Made' = Made /\ Made \subseteq Link
    BY Zenon, <1>i, <1>u DEF Made, LinksKnown
  <2>0. c \in Made /\ c \in Link /\ links[c].reader = q /\ c \in Nat
    BY Zenon, <1>i, <1>0, <1>1, <2>m DEF LinksKnown, TypeOK
  <2>1. /\ msg \in EventUpdate /\ msg = updates[c][1] /\ 1 \in 1 .. Len(updates[c])
        /\ updates'[c] \in Seq(EventUpdate)
        /\ \A i \in 1 .. Len(updates'[c]) :
              i + 1 \in 1 .. Len(updates[c]) /\ i + 1 # 1 /\ updates'[c][i] = updates[c][i + 1]
        /\ \A i, j \in 1 .. Len(updates'[c]) : i + 1 = j + 1 => i = j
    <3>1. updates[c] \in Seq(EventUpdate) /\ updates'[c] = Tail(updates[c]) /\ updates[c] # <<>>
      BY Zenon, <1>i, <1>1, <1>h, <2>0 DEF TypeOK
    <3> QED
      BY <1>0, <3>1, TailOf
  <2>2. \A l \in Link \ {c} : updates'[l] = updates[l]
    BY Zenon, <1>i, <1>h DEF TypeOK
  <2>3. PICK s \in Slot : msg.slot = s
    BY Zenon, <2>1 DEF EventUpdate
  <2>4. payload \in Payload /\ payload.slot = s /\ payload.event = msg.event /\ payload.link = c
    BY <1>0, <2>0, <2>1, <2>3 DEF Payload, EventUpdate
  <2>5. view \in ReaderState /\ view.held = reader[q].held
    BY Zenon, <1>i, <1>0, <1>1, GetViewResult
  <2>6. reader'[q] \in ReaderState /\ reader'[q].held = reader[q].held \cup {payload}
    <3>1. reader'[q] = [view EXCEPT !.held = @ \cup {payload}]
      BY Zenon, <1>i, <1>h DEF TypeOK
    <3> QED
      BY <2>4, <2>5, <3>1 DEF ReaderState
  <2>7. \A r \in Reader \ {q} : reader'[r] = reader[r]
    BY Zenon, <1>i, <1>h DEF TypeOK
  <2>8. TypeOK'
    <3>1. reader' \in [Reader -> ReaderState]
      BY Zenon, <1>i, <1>h, <2>6 DEF TypeOK
    <3>2. updates' \in [Link -> Seq(EventUpdate)]
      BY Zenon, <1>i, <1>h, <2>1 DEF TypeOK
    <3> QED
      BY Zenon, <1>i, <1>u, <1>h, <3>1, <3>2 DEF TypeOK
  <2>9. LinksKnown'
    <3>1. \A r \in Reader : \A p \in reader'[r].held : p.link \in Made /\ links[p.link].reader = r
      <4> SUFFICES ASSUME NEW r \in Reader, NEW p \in reader'[r].held
                   PROVE  p.link \in Made /\ links[p.link].reader = r
        BY Zenon
      <4>1. p \in reader[r].held \/ (r = q /\ p = payload)
        BY Zenon, <2>6, <2>7
      <4> QED
        BY Zenon, <1>i, <2>0, <2>4, <4>1 DEF LinksKnown
    <3>2. \A l \in Link : updates'[l] # <<>> => l \in Made
      BY Zenon, <1>i, <2>0, <2>2 DEF LinksKnown
    <3> QED
      BY Zenon, <1>i, <1>u, <1>h, <2>m, <3>1, <3>2 DEF LinksKnown
  <2>10. Announced(c, s) /\ ~Held(c, s) /\ ~GivenBack(c, s)
    BY Zenon, <1>i, <2>0, <2>1, <2>3 DEF Announced, OneTrace
  <2>11. \A l \in Made, t \in Slot : GivenBack(l, t)' <=> GivenBack(l, t)
    BY Zenon, <1>u DEF GivenBack
  <2>12. \A l \in Made, t \in Slot : Held(l, t)' => Held(l, t) \/ (l = c /\ t = s)
    <3> SUFFICES ASSUME NEW l \in Made, NEW t \in Slot, Held(l, t)'
                 PROVE  Held(l, t) \/ (l = c /\ t = s)
      BY Zenon
    <3>0. links' = links
      BY Zenon, <1>u
    <3>p. PICK p \in reader'[links[l].reader].held : p.slot = t /\ p.link = l
      BY Zenon, <3>0 DEF Held
    <3>1. links[l].reader \in Reader
      BY Zenon, <1>i, ReaderOfLink
    <3>2. p \in reader[links[l].reader].held \/ p = payload
      BY Zenon, <2>6, <2>7, <3>1
    <3> QED
      BY Zenon, <2>4, <3>p, <3>2 DEF Held
  <2>13. \A l \in Made, t \in Slot : Announced(l, t)' => Announced(l, t)
    <3>1. \A t \in Slot : Announced(c, t)' => Announced(c, t)
      BY Zenon, <2>1 DEF Announced
    <3>2. \A l \in Made \ {c}, t \in Slot : Announced(l, t)' => Announced(l, t)
      BY Zenon, <2>m, <2>2 DEF Announced
    <3> QED
      BY Zenon, <3>1, <3>2
  <2>14. ~Announced(c, s)'
    <3> SUFFICES ASSUME NEW i \in 1 .. Len(updates'[c]), updates'[c][i].slot = s
                 PROVE  FALSE
      BY Zenon DEF Announced
    <3>1. i + 1 \in 1 .. Len(updates[c]) /\ i + 1 # 1 /\ updates[c][i + 1].slot = updates[c][1].slot
      BY Zenon, <2>1, <2>3
    <3> QED
      BY Zenon, <1>i, <2>0, <2>1, <3>1 DEF OneTrace
  <2>15. OneTrace'
    <3>1. ASSUME NEW l \in Made, NEW i \in 1 .. Len(updates'[l]), NEW j \in 1 .. Len(updates'[l]),
                 updates'[l][i].slot = updates'[l][j].slot
          PROVE  i = j
      <4>1. CASE l # c
        <5>1. updates'[l] = updates[l]
          BY Zenon, <2>m, <2>2, <4>1
        <5> QED
          BY Zenon, <1>i, <3>1, <5>1 DEF OneTrace
      <4>2. CASE l = c
        <5>1. /\ i + 1 \in 1 .. Len(updates[c]) /\ j + 1 \in 1 .. Len(updates[c])
              /\ updates[c][i + 1].slot = updates[c][j + 1].slot
          BY Zenon, <2>1, <3>1, <4>2
        <5>2. i + 1 = j + 1
          BY Zenon, <1>i, <2>0, <5>1 DEF OneTrace
        <5> QED
          BY Zenon, <2>1, <3>1, <4>2, <5>2
      <4> QED
        BY Zenon, <4>1, <4>2
    <3>2. ASSUME NEW r \in Reader, NEW a \in reader'[r].held, NEW b \in reader'[r].held,
                 a.slot = b.slot, a.link = b.link
          PROVE  a = b
      <4>1. CASE r # q
        BY Zenon, <1>i, <2>7, <3>2, <4>1 DEF OneTrace
      <4>2. CASE r = q
        <5>1. \A p \in reader[q].held : ~(p.slot = s /\ p.link = c)
          BY Zenon, <2>0, <2>10 DEF Held
        <5>2. (a \in reader[q].held \/ a = payload) /\ (b \in reader[q].held \/ b = payload)
          BY Zenon, <2>6, <3>2, <4>2
        <5> QED
          BY Zenon, <1>i, <2>4, <3>2, <5>1, <5>2 DEF OneTrace
      <4> QED
        BY Zenon, <4>1, <4>2
    <3>3. \A l \in Made, t \in Slot : /\ Announced(l, t)' => ~Held(l, t)' /\ ~GivenBack(l, t)'
                                      /\ Held(l, t)' => ~GivenBack(l, t)'
      BY Zenon, <1>i, <2>10, <2>11, <2>12, <2>13, <2>14 DEF OneTrace
    <3>4. \A l \in Made : \A i, j \in 1 .. Len(consumed'[l]) :
              consumed'[l][i] = consumed'[l][j] /\ consumed'[l][i].link = l => i = j
      BY Zenon, <1>i, <1>u DEF OneTrace
    <3> QED
      BY Zenon, <2>m, <3>1, <3>2, <3>3, <3>4 DEF OneTrace
  <2>16. UsersCounted'
    <3>1. \A t \in Slot : Users(t)' \subseteq Users(t)
      BY Zenon, <1>u, <2>m, <2>10, <2>11, <2>12, <2>13 DEF Users
    <3> QED
      BY Zenon, <1>i, <1>u, <3>1, NoNewTrace
  <2>17. SlotsCounted' /\ PathLeads'
    BY Zenon, <1>i, <1>u, SlotsKept DEF PathLeads
  <2>18. PayloadIntact'
    <3>1. ASSUME NEW r \in Reader, NEW p \in reader'[r].held
          PROVE  pools[links[p.link].pool].memory[p.slot] = p.event
      <4>1. CASE p \in reader[r].held
        BY Zenon, <1>i, <4>1 DEF PayloadIntact
      <4>2. CASE p = payload
        <5>1. pools[links[c].pool].memory[updates[c][1].slot] = updates[c][1].event
          BY Zenon, <1>i, <2>0, <2>1 DEF PayloadIntact, Made
        <5> QED
          BY Zenon, <2>1, <2>3, <2>4, <4>2, <5>1
      <4> QED
        BY Zenon, <2>6, <2>7, <3>1, <4>1, <4>2
    <3>2. ASSUME NEW l \in Made, NEW i \in 1 .. Len(updates'[l])
          PROVE  pools[links[l].pool].memory[updates'[l][i].slot] = updates'[l][i].event
      <4>1. CASE l # c
        <5>1. updates'[l] = updates[l] /\ i \in 1 .. Len(updates[l])
          BY Zenon, <2>m, <2>2, <3>2, <4>1
        <5>2. pools[links[l].pool].memory[updates[l][i].slot] = updates[l][i].event
          BY Zenon, <1>i, <5>1 DEF PayloadIntact, Made
        <5> QED
          BY Zenon, <5>1, <5>2
      <4>2. CASE l = c
        <5>1. i + 1 \in 1 .. Len(updates[c]) /\ updates'[c][i] = updates[c][i + 1]
          BY Zenon, <2>1, <3>2, <4>2
        <5> QED
          BY Zenon, <1>i, <2>0, <4>2, <5>1 DEF PayloadIntact, Made
      <4> QED
        BY Zenon, <4>1, <4>2
    <3> QED
      BY Zenon, <1>u, <2>m, <3>1, <3>2 DEF PayloadIntact, Made
  <2> QED
    BY Zenon, <2>8, <2>9, <2>15, <2>16, <2>17, <2>18 DEF IInv
<1> QED
  <2>1. \/ /\ reader' = [reader EXCEPT ![q] = [view EXCEPT !.held = @ \cup {payload}]]
           /\ updates' = [updates EXCEPT ![c] = Tail(@)]
           /\ UNCHANGED link
        \/ reader' = [reader EXCEPT ![q] = Down] /\ Unlinked(q)
    BY Zenon, <1>0 DEF ReceiveUpdate
  <2> QED
    BY Zenon, <1>c, <1>h, <2>1

\* A payload becomes the message that it is done, or nothing.
LEMMA DropPayloadStep ==
    ASSUME IInv, NEW q \in Reader, DropPayload(q)
    PROVE  IInv'
<1>i. TypeOK /\ LinksKnown /\ OneTrace /\ UsersCounted /\ SlotsCounted /\ PathLeads /\ PayloadIntact
  BY Zenon DEF IInv
<1>1. PICK p \in reader[q].held :
        /\ reader' = [reader EXCEPT ![q].held = @ \ {p}]
        /\ consumed' = IF link[q] \notin served THEN consumed
                       ELSE [consumed EXCEPT ![link[q]] =
                                 Append(@, [slot |-> p.slot, link |-> p.link])]
  BY Zenon DEF DropPayload
<1>u. UNCHANGED <<fs, pools, manager, count, config, draft, alloc, links, served, link, updates>>
  BY Zenon DEF DropPayload, poolVars
<1>2. p \in Payload
  BY Zenon, <1>i DEF TypeOK, ReaderState
<1>3. PICK s \in Slot : p.slot = s
  BY Zenon, <1>2 DEF Payload
<1>0. PICK c, d, msg : c = link[q] /\ d = p.link /\ msg = [slot |-> p.slot, link |-> p.link]
  BY Zenon
<1>4. msg \in PayloadDone /\ msg = [slot |-> s, link |-> d] /\ msg.link = d /\ msg.slot = s
  BY <1>0, <1>2, <1>3 DEF Payload, PayloadDone
<1>d. d \in Made /\ links[d].reader = q
  BY Zenon, <1>i, <1>0 DEF LinksKnown
<1>m. Made' = Made /\ Made \subseteq Link
  BY Zenon, <1>i, <1>u DEF Made, LinksKnown
<1>5. \A r \in Reader : /\ reader'[r] \in ReaderState
                        /\ reader'[r].held = IF r = q THEN reader[q].held \ {p}
                                             ELSE reader[r].held
  BY Zenon, <1>i, <1>1 DEF TypeOK, ReaderState
<1>6. \A r \in Reader : reader'[r].held \subseteq reader[r].held
  BY Zenon, <1>5
<1>7. /\ consumed' \in [Link -> Seq(PayloadDone)]
      /\ \A l \in Link : \/ consumed'[l] = consumed[l]
                         \/ /\ l = c /\ l \in served
                            /\ \A i \in 1 .. Len(consumed'[l]) :
                                 \/ i \in 1 .. Len(consumed[l]) /\ consumed'[l][i] = consumed[l][i]
                                 \/ i = Len(consumed[l]) + 1 /\ consumed'[l][i] = msg
  <2>1. /\ consumed \in [Link -> Seq(PayloadDone)]
        /\ consumed' = IF c \notin served THEN consumed
                       ELSE [consumed EXCEPT ![c] = Append(@, msg)]
    BY Zenon, <1>i, <1>0, <1>1 DEF TypeOK
  <2>2. CASE c \notin served
    BY Zenon, <2>1, <2>2
  <2>3. CASE c \in served
    <3>0. c \in Link
      BY Zenon, <1>i, <2>3 DEF TypeOK
    <3>1. /\ consumed'[c] = Append(consumed[c], msg) /\ consumed[c] \in Seq(PayloadDone)
          /\ \A l \in Link \ {c} : consumed'[l] = consumed[l]
      BY Zenon, <2>1, <2>3, <3>0
    <3>2. /\ consumed'[c] \in Seq(PayloadDone)
          /\ \A i \in 1 .. Len(consumed'[c]) :
               \/ i \in 1 .. Len(consumed[c]) /\ consumed'[c][i] = consumed[c][i]
               \/ i = Len(consumed[c]) + 1 /\ consumed'[c][i] = msg
      BY <1>4, <3>1, AppendOf
    <3>3. consumed' \in [Link -> Seq(PayloadDone)]
      BY Zenon, <2>1, <2>3, <3>1, <3>2
    <3> QED
      BY Zenon, <2>3, <3>1, <3>2, <3>3
  <2> QED
    BY Zenon, <2>2, <2>3
<1>8. TypeOK'
  <2>1. reader' \in [Reader -> ReaderState]
    BY Zenon, <1>i, <1>1, <1>5 DEF TypeOK
  <2> QED
    BY Zenon, <1>i, <1>u, <1>7, <2>1 DEF TypeOK
<1>9. LinksKnown'
  <2>1. \A l \in Link : consumed'[l] # <<>> => l \in served
    BY Zenon, <1>i, <1>7 DEF LinksKnown
  <2>2. \A r \in Reader : \A a \in reader'[r].held : a.link \in Made /\ links[a.link].reader = r
    BY Zenon, <1>i, <1>6 DEF LinksKnown
  <2> QED
    BY Zenon, <1>i, <1>u, <1>m, <2>1, <2>2 DEF LinksKnown
<1>10. /\ Held(d, s) /\ ~GivenBack(d, s) /\ ~Announced(d, s)
       /\ \A a \in reader[q].held : a.slot = s /\ a.link = d => a = p
  <2>1. Held(d, s)
    BY Zenon, <1>0, <1>3, <1>d DEF Held
  <2>2. ~GivenBack(d, s) /\ ~Announced(d, s)
    BY Zenon, <1>i, <1>d, <2>1 DEF OneTrace
  <2>3. \A a \in reader[q].held : a.slot = s /\ a.link = d => a = p
    BY Zenon, <1>i, <1>0, <1>3 DEF OneTrace
  <2> QED
    BY Zenon, <2>1, <2>2, <2>3
<1>11. ~Held(d, s)'
  <2>1. reader'[q].held = reader[q].held \ {p} /\ links'[d].reader = q
    BY Zenon, <1>5, <1>u, <1>d
  <2> QED
    BY Zenon, <1>10, <2>1 DEF Held
<1>12. \A l \in Made, t \in Slot : Announced(l, t)' <=> Announced(l, t)
  BY Zenon, <1>u DEF Announced
<1>13. \A l \in Made, t \in Slot : Held(l, t)' => Held(l, t)
  <2>1. links' = links /\ \A l \in Made : links[l].reader \in Reader
    BY Zenon, <1>i, <1>u, ReaderOfLink
  <2> QED
    BY Zenon, <1>6, <2>1 DEF Held
<1>14. \A l \in Made, t \in Slot : GivenBack(l, t)' => GivenBack(l, t) \/ (l = d /\ t = s)
  <2> SUFFICES ASSUME NEW l \in Made, NEW t \in Slot, NEW i \in 1 .. Len(consumed'[l]),
                      consumed'[l][i] = [slot |-> t, link |-> l]
               PROVE  GivenBack(l, t) \/ (l = d /\ t = s)
    BY Zenon DEF GivenBack
  <2>1. CASE i \in 1 .. Len(consumed[l]) /\ consumed'[l][i] = consumed[l][i]
    BY Zenon, <2>1 DEF GivenBack
  <2>2. CASE consumed'[l][i] = msg
    <3>1. [slot |-> s, link |-> d] = [slot |-> t, link |-> l]
      BY Zenon, <1>4, <2>2
    <3> QED
      BY Zenon, <3>1
  <2> QED
    BY Zenon, <1>m, <1>7, <2>1, <2>2
<1>15. OneTrace'
  <2>1. ASSUME NEW l \in Made, NEW i \in 1 .. Len(consumed'[l]),
               NEW j \in 1 .. Len(consumed'[l]),
               consumed'[l][i] = consumed'[l][j], consumed'[l][i].link = l
        PROVE  i = j
    <3>1. /\ \/ i \in 1 .. Len(consumed[l]) /\ consumed'[l][i] = consumed[l][i]
             \/ i = Len(consumed[l]) + 1 /\ consumed'[l][i] = msg
          /\ \/ j \in 1 .. Len(consumed[l]) /\ consumed'[l][j] = consumed[l][j]
             \/ j = Len(consumed[l]) + 1 /\ consumed'[l][j] = msg
      BY Zenon, <1>m, <1>7, <2>1
    <3>2. \A k \in 1 .. Len(consumed[l]) : l = d => consumed[l][k] # msg
      BY Zenon, <1>4, <1>10 DEF GivenBack
    <3>3. CASE consumed'[l][i] = msg
      <4>1. l = d
        BY Zenon, <1>4, <2>1, <3>3
      <4> QED
        BY Zenon, <2>1, <3>1, <3>2, <3>3, <4>1
    <3>4. CASE consumed'[l][i] # msg
      BY Zenon, <1>i, <2>1, <3>1, <3>4 DEF OneTrace
    <3> QED
      BY Zenon, <3>3, <3>4
  <2>2. \A r \in Reader : \A a, b \in reader'[r].held :
          a.slot = b.slot /\ a.link = b.link => a = b
    BY Zenon, <1>i, <1>6 DEF OneTrace
  <2>3. \A l \in Made, t \in Slot : /\ Announced(l, t)' => ~Held(l, t)' /\ ~GivenBack(l, t)'
                                    /\ Held(l, t)' => ~GivenBack(l, t)'
    BY Zenon, <1>i, <1>10, <1>11, <1>12, <1>13, <1>14 DEF OneTrace
  <2>4. \A l \in Made : \A i, j \in 1 .. Len(updates'[l]) :
            updates'[l][i].slot = updates'[l][j].slot => i = j
    BY Zenon, <1>i, <1>u DEF OneTrace
  <2> QED
    BY Zenon, <1>m, <2>1, <2>2, <2>3, <2>4 DEF OneTrace
<1>16. UsersCounted'
  <2>1. \A t \in Slot : Users(t)' \subseteq Users(t)
    BY Zenon, <1>u, <1>m, <1>10, <1>12, <1>13, <1>14 DEF Users
  <2> QED
    BY Zenon, <1>i, <1>u, <2>1, NoNewTrace
<1>17. SlotsCounted' /\ PathLeads'
  BY Zenon, <1>i, <1>u, SlotsKept DEF PathLeads
<1>18. PayloadIntact'
  BY Zenon, <1>i, <1>u, <1>6, IntactKept
<1> QED
  BY Zenon, <1>8, <1>9, <1>15, <1>16, <1>17, <1>18 DEF IInv

-----------------------------------------------------------------------------
LEMMA NextIInv ==
    ASSUME IInv, [Next]_vars
    PROVE  IInv'
<1>1. CASE \E k \in Config : RegisterConfiguration(k)
  BY Zenon, <1>1, RegisterConfigurationStep
<1>2. CASE AllocateAndWrite
  BY Zenon, <1>2, AllocateAndWriteStep
<1>3. CASE \E s \in Slot : Publish(s)
  BY Zenon, <1>3, PublishStep
<1>4. CASE \E o \in BOOLEAN : StopWriter(o)
  BY Zenon, <1>4, StopWriterStep
<1>5. CASE \E l \in Link : ReceiveConsumed(l) \/ RemoveClient(l)
  BY Zenon, <1>5, ReceiveConsumedStep, RemoveClientStep
<1>6. ASSUME NEW r \in Reader,
             \/ ConnectService(r) \/ StartReader(r) \/ ReceiveUpdate(r)
             \/ DropPayload(r) \/ LoseLink(r) \/ \E o \in BOOLEAN : StopReader(r, o)
      PROVE  IInv'
  BY Zenon, <1>6, ConnectServiceStep, StartReaderStep, ReceiveUpdateStep,
     DropPayloadStep, LoseLinkStep, StopReaderStep
<1>7. CASE UNCHANGED vars
  <2>1. UNCHANGED <<fs, pools, config, manager, count, draft, alloc, links, served, link, reader,
                    updates, consumed>>
    BY Zenon, <1>7 DEF vars
  <2>2. TypeOK' /\ PathLeads'
    BY Zenon, <2>1 DEF IInv, TypeOK, PathLeads
  <2> QED
    BY Zenon, <2>1, <2>2, QuietStep
<1> QED
  BY Zenon, <1>1, <1>2, <1>3, <1>4, <1>5, <1>6, <1>7 DEF Next

\* No slot is written again while a reader has a payload made of it or the
\* message with it is on the way (insert_allocation() and payload_consumed() of
\* shared_memory_managers.hpp), whichever side loses links, ends or restarts.
THEOREM PayloadsStayIntact == Spec => []PayloadIntact
<1>1. IInv => PayloadIntact
  BY Zenon DEF IInv
<1> QED
  BY <1>1, InitIInv, NextIInv, PTL DEF Spec

\* Only ReceiveUpdate opens a view, of the pool under the path.
LEMMA OpensPath ==
    ASSUME TypeOK, LinksKnown, [Next]_vars, NEW q \in Reader,
           reader[q].view = 0, reader'[q].view # 0
    PROVE  reader'[q].view = fs
<1>s. ASSUME reader'[q] = reader[q]
      PROVE  FALSE
  BY Zenon, <1>s
<1>1. CASE \E k \in Config : RegisterConfiguration(k)
  BY Zenon, <1>1, <1>s DEF RegisterConfiguration
<1>2. CASE AllocateAndWrite
  BY Zenon, <1>2, <1>s DEF AllocateAndWrite
<1>3. CASE \E s \in Slot : Publish(s)
  BY Zenon, <1>3, <1>s DEF Publish
<1>4. CASE \E o \in BOOLEAN : StopWriter(o)
  BY Zenon, <1>4, <1>s DEF StopWriter
<1>5. CASE \E l \in Link : ReceiveConsumed(l) \/ RemoveClient(l)
  BY Zenon, <1>5, <1>s DEF ReceiveConsumed, RemoveClient
<1>t. reader \in [Reader -> ReaderState] /\ reader[q] \in ReaderState
  BY Zenon DEF TypeOK
<1>6. ASSUME NEW r \in Reader,
             \/ ConnectService(r) \/ StartReader(r) \/ ReceiveUpdate(r)
             \/ DropPayload(r) \/ LoseLink(r) \/ \E o \in BOOLEAN : StopReader(r, o)
      PROVE  reader'[q].view = fs
  <2>1. CASE ConnectService(r) \/ LoseLink(r)
    BY Zenon, <2>1, <1>s DEF ConnectService, LoseLink
  <2>2. CASE StartReader(r)
    <3>1. reader' = [reader EXCEPT ![r].up = TRUE]
      BY Zenon, <2>2 DEF StartReader
    <3> QED
      BY Zenon, <1>t, <3>1 DEF ReaderState
  <2>3. CASE DropPayload(r)
    <3>1. PICK p \in reader[r].held : reader' = [reader EXCEPT ![r].held = @ \ {p}]
      BY Zenon, <2>3 DEF DropPayload
    <3> QED
      BY Zenon, <1>t, <3>1 DEF ReaderState
  <2>4. ASSUME reader' = [reader EXCEPT ![r] = Down]
        PROVE  FALSE
    <3>1. reader'[r].view = 0 /\ \A w \in Reader \ {r} : reader'[w] = reader[w]
      BY Zenon, <2>4, DownResult
    <3> QED
      BY Zenon, <1>s, <3>1
  <2>5. CASE \E o \in BOOLEAN : StopReader(r, o)
    BY Zenon, <2>4, <2>5 DEF StopReader
  <2>6. CASE ReceiveUpdate(r)
    <3>0. PICK view, payload, msg :
            /\ view = GetView(r) /\ msg = Head(updates[link[r]])
            /\ payload = [slot |-> msg.slot, event |-> msg.event, link |-> link[r]]
      BY Zenon
    <3>1. link[r] # 0
      BY Zenon, <2>6 DEF ReceiveUpdate
    <3>2. \/ reader' = [reader EXCEPT ![r] = [view EXCEPT !.held = @ \cup {payload}]]
          \/ reader' = [reader EXCEPT ![r] = Down]
      BY Zenon, <2>6, <3>0 DEF ReceiveUpdate
    <3>3. reader' = [reader EXCEPT ![r] = [view EXCEPT !.held = @ \cup {payload}]]
      BY Zenon, <2>4, <3>2
    <3>4. CASE r # q
      BY Zenon, <1>s, <1>t, <3>3, <3>4
    <3>5. CASE r = q
      <4>1. view \in ReaderState /\ view.view = fs
        BY Zenon, <3>0, <3>1, <3>5, GetViewResult
      <4>2. reader'[q] = [view EXCEPT !.held = @ \cup {payload}]
        BY Zenon, <1>t, <3>3, <3>5
      <4> QED
        BY <4>1, <4>2 DEF ReaderState
    <3> QED
      BY Zenon, <3>4, <3>5
  <2> QED
    BY Zenon, <1>6, <2>1, <2>2, <2>3, <2>5, <2>6
<1>7. CASE UNCHANGED vars
  BY Zenon, <1>7, <1>s DEF vars
<1> QED
  BY Zenon, <1>1, <1>2, <1>3, <1>4, <1>5, <1>6, <1>7 DEF Next

\* A reader that opens the path while a writer has a pool opens that pool: the
\* entry of a writer that crashed is gone before the path is told again
\* (create_shared_memory_slot_manager(), RemoveStaleArtefacts).
THEOREM ReadersOpenRunningPool == Spec => OpensRunningPool
<1> DEFINE Opens == \A r \in Reader : reader[r].view = 0 /\ reader'[r].view # 0 /\ manager # 0 =>
                                        reader'[r].view = manager
<1>1. ASSUME IInv, [Next]_vars
      PROVE  Opens
  <2> SUFFICES ASSUME NEW r \in Reader, reader[r].view = 0, reader'[r].view # 0, manager # 0
               PROVE  reader'[r].view = manager
    BY Zenon
  <2>1. reader'[r].view = fs
    BY Zenon, <1>1, OpensPath DEF IInv
  <2> QED
    BY Zenon, <1>1, <2>1 DEF IInv, PathLeads
<1>2. IInv /\ [Next]_vars => [Opens]_vars
  BY Zenon, <1>1
<1> QED
  BY <1>2, InitIInv, NextIInv, PTL DEF Spec, OpensRunningPool
=============================================================================
