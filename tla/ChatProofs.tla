----------------------------- MODULE ChatProofs -----------------------------
(***************************************************************************)
(* What the users of the chat know of each other, for any number of users, *)
(* of those who came before them and of texts typed ahead.                 *)
(***************************************************************************)
EXTENDS Chat, FiniteSetTheorems, SequenceTheorems, WellFoundedInduction, TLAPS

(* The inductive invariant *)

\* A user that left, and does not come back.
Gone(u) == link[u] \in {"fin", "reset", "broken"}

\* A descriptor is the connection of one user, and one that waits has none.
Connected == \A f \in Fds : peer[f] \in Users => link[peer[f]] # "away"
PeersDistinct == \A f, g \in Fds : f # g => peer[f] # peer[g] \/ peer[f] = Nobody
Waiting ==
    \A k \in 1..Len(backlog) :
      /\ link[backlog[k]] # "away"
      /\ \A f \in Fds : peer[f] # backlog[k]
      /\ \A l \in 1..Len(backlog) : l # k => backlog[l] # backlog[k]

\* What select() said of a descriptor holds until it is handled.
SnapshotReady == \A f \in tmp_fds : Ready(f)

\* Every connection is listed, and nothing but the connections there were.
AllListed == \A f \in Open : \E k \in 1..Len(clients) : clients[k] = f
Came == {u \in Users : link[u] # "away" /\ \A k \in 1..Len(backlog) : backlog[k] # u}
ListCounts == \E n \in Pasts : Len(clients) = n + Cardinality(Came)

\* Whoever is thought to be at a descriptor is, or left.
Right(v, f) == v \in Users => peer[f] = v \/ Gone(v)
ToldRight == \A u \in Users, f \in Fds : Right(told[u][f], f)
SeenRight == \A u \in Users, f \in Fds : Right(seen[u][f], f)
MeantRight ==
    \A u \in Users : \A k \in 1..Len(lines[u]) : Right(lines[u][k].meant, lines[u][k].dest)

LinesBounded == \A u \in Users : Len(lines[u]) <= Ahead

\* What is still to be sent is true, but that the list may not hold the newcomer.
NewsRight ==
    \A k \in 1..Len(outgoing), g \in Fds :
      \/ outgoing[k].news[g] = Unsaid
      \/ outgoing[k].news[g] = peer[g]
      \/ outgoing[k].news[g] = Unlisted /\ (peer[g] = Nobody \/ g = outgoing[k].to)

\* A connected user knows every other's number, or will once all is sent.
WillKnow ==
    alive => \A f \in Open, g \in Fds :
               Reachable(peer[f]) /\ f # g =>
                 \/ told[peer[f]][g] = peer[g]
                 \/ peer[g] = Nobody /\ (told[peer[f]][g] = Unlisted \/ Skipped(f, g))
                 \/ \E k \in 1..Len(outgoing) : /\ outgoing[k].to = f
                                               /\ outgoing[k].news[g] # Unsaid

\* Only who is connected and accepted was told anything.
Untold == \A u \in Users : ~Reachable(u) \/ (\A f \in Fds : peer[f] # u) => told[u] = Nothing

\* With one text at a time a text goes to who was meant, unless that user left.
PendingMeant ==
    Ahead = 1 => \A k \in 1..Len(outgoing) :
                   \A u \in outgoing[k].meant : Right(u, outgoing[k].to)

Tables == TypeOK /\ Connected /\ PeersDistinct /\ Waiting /\ SnapshotReady
            /\ AllListed /\ ListCounts
News == NewsRight /\ WillKnow /\ Untold /\ PendingMeant
Knowledge == ToldRight /\ SeenRight /\ MeantRight /\ LinesBounded /\ News
Inv == Tables /\ Knowledge
-----------------------------------------------------------------------------
(* Lemmas on sequences and sets *)

LEMMA AppendStays ==
    ASSUME NEW S, NEW s \in Seq(S), NEW x \in S
    PROVE  /\ Append(s, x) \in Seq(S)
           /\ Len(Append(s, x)) = Len(s) + 1
           /\ Append(s, x)[Len(s) + 1] = x
           /\ \A k \in 1..Len(s) : Append(s, x)[k] = s[k]
  OBVIOUS

LEMMA JoinOne ==
    ASSUME NEW S, NEW s \in Seq(S), NEW t \in Seq(S), Len(t) = 1
    PROVE  /\ s \o t \in Seq(S)
           /\ Len(s \o t) = Len(s) + 1
           /\ \A k \in 1..Len(s) : (s \o t)[k] = s[k]
           /\ (s \o t)[Len(s) + 1] = t[1]
<1>1. Len(s) \in Nat /\ Len(s) + Len(t) = Len(s) + 1
  OBVIOUS
<1>2. /\ s \o t \in Seq(S)
      /\ Len(s \o t) = Len(s) + 1
      /\ \A k \in 1..Len(s) + 1 : (s \o t)[k] = IF k <= Len(s) THEN s[k] ELSE t[k - Len(s)]
  BY <1>1, ConcatProperties
<1>3. ASSUME NEW k \in 1..Len(s)
      PROVE  (s \o t)[k] = s[k]
  BY <1>1, <1>2
<1>4. (s \o t)[Len(s) + 1] = t[1]
  <2>1. Len(s) + 1 \in 1..Len(s) + 1 /\ ~(Len(s) + 1 <= Len(s)) /\ (Len(s) + 1) - Len(s) = 1
    BY <1>1
  <2> QED
    BY <1>2, <2>1
<1> QED
  BY <1>2, <1>3, <1>4

LEMMA HeadTailStay ==
    ASSUME NEW S, NEW s \in Seq(S), s # <<>>
    PROVE  /\ Head(s) \in S
           /\ Head(s) = s[1]
           /\ Tail(s) \in Seq(S)
           /\ Len(s) \in Nat \ {0}
           /\ Len(Tail(s)) = Len(s) - 1
           /\ \A k \in 1..Len(s) - 1 : Tail(s)[k] = s[k + 1]
  BY HeadTailProperties, EmptySeq

LEMMA MinIsIn ==
    ASSUME NEW S \in SUBSET Nat, S # {}
    PROVE  Min(S) \in S
<1> DEFINE R == OpToRel(<, Nat)
<1>1. IsWellFoundedOn(R, Nat) /\ S \subseteq Nat
  BY NatLessThanWellFounded
<1>2. R = {ss \in Nat \X Nat : ss[1] < ss[2]}
  BY DEF OpToRel
<1> HIDE DEF R
<1>3. PICK x \in S : \A y \in S : ~(<<y, x>> \in R)
  BY <1>1, WFMin, Zenon
<1>4. ASSUME NEW y \in S
      PROVE  x <= y
  <2>1. <<y, x>> \in Nat \X Nat
    OBVIOUS
  <2>2. ~(y < x)
    BY <1>2, <1>3, <2>1
  <2> QED
    BY <2>2
<1> QED
  BY <1>4 DEF Min

LEMMA Numbers ==
    /\ Users \subseteq Nat \ {0} /\ Fds \subseteq Nat
    /\ IsFiniteSet(Users) /\ Cardinality(Users) = Population
    /\ IsFiniteSet(Fds) /\ Cardinality(Fds) = Population
    /\ sockfd \notin Fds /\ Nobody \notin Users /\ Unlisted \notin Users /\ Nobody # Unlisted
    /\ Unsaid \notin Users /\ Unsaid # Nobody /\ Unsaid # Unlisted
<1>1. Population \in Nat \ {0}
  BY ChatAssumption
<1>2. IsFiniteSet(1..Population) /\ Cardinality(1..Population) = Population
  BY <1>1, FS_Interval
<1>3. IsFiniteSet(4..3 + Population) /\ Cardinality(4..3 + Population) = Population
  BY <1>1, FS_Interval
<1>4. Fds = 4..3 + Population
  BY DEF Fds, sockfd
<1> QED
  BY <1>1, <1>2, <1>3, <1>4 DEF Users, sockfd, Nobody, Unlisted, Unsaid

\* accept() finds a descriptor for a user that waits.
LEMMA FreeFd ==
    ASSUME TypeOK, PeersDistinct, Waiting, backlog # <<>>
    PROVE  LowestFree \in Fds /\ LowestFree \notin Open
<1>1. Head(backlog) \in Users /\ \A f \in Fds : peer[f] # Head(backlog)
  <2>1. backlog \in Seq(Users)
    BY DEF TypeOK
  <2>2. Head(backlog) \in Users /\ Head(backlog) = backlog[1] /\ 1 \in 1..Len(backlog)
    BY <2>1, HeadTailStay
  <2> QED
    BY <2>2 DEF Waiting
<1>2. Fds \ Open # {}
  <2> SUFFICES ASSUME \A f \in Fds : peer[f] # Nobody
               PROVE  FALSE
    BY DEF Open
  <2> DEFINE T == Users \ {Head(backlog)}
  <2>1. IsFiniteSet(T) /\ Cardinality(T) = Population - 1
    BY <1>1, Numbers, FS_RemoveElement
  <2>2. peer \in [Fds -> T]
    BY <1>1 DEF TypeOK
  <2>3. Population - 1 < Population
    BY ChatAssumption
  <2> HIDE DEF T
  <2>4. \E f, g \in Fds : f # g /\ peer[f] = peer[g]
    BY <2>1, <2>2, <2>3, Numbers, FS_PigeonHole
  <2> QED
    BY <2>4 DEF PeersDistinct
<1>3. Fds \ Open \in SUBSET Nat
  BY Numbers
<1> QED
  BY <1>2, <1>3, MinIsIn DEF LowestFree
-----------------------------------------------------------------------------
(* The invariant holds at first *)

LEMMA InitInv == Init => Inv
<1> SUFFICES ASSUME Init
             PROVE  Inv
  OBVIOUS
<1>1. PICK n \in Pasts : clients = [k \in 1..n |-> sockfd + 1]
  BY DEF Init
<1>2. n \in Nat /\ n + Population <= 10 /\ Population \in Nat \ {0}
  BY ChatAssumption
<1>3. clients \in Seq(Fds) /\ Len(clients) = n
  <2>1. sockfd + 1 \in Fds
    BY <1>2 DEF Fds, sockfd
  <2> QED
    BY <1>1, <1>2, <2>1
<1>4. TypeOK
  <2>1. backlog \in Seq(Users) /\ lines \in [Users -> Seq(Texts)]
    BY EmptySeq DEF Init
  <2>2. outgoing \in Seq(Messages)
    BY EmptySeq DEF Init
  <2>3. /\ told \in [Users -> [Fds -> Users \cup {Nobody, Unlisted}]]
        /\ seen \in [Users -> [Fds -> Users \cup {Nobody, Unlisted}]]
    BY DEF Init, Nothing
  <2>4. alive \in BOOLEAN /\ unread \in [Users -> 0..QueueCap]
    BY ChatAssumption DEF Init
  <2>5. /\ tmp_fds \subseteq {sockfd} \cup Fds
        /\ peer \in [Fds -> Users \cup {Nobody}]
        /\ link \in [Users -> {"away", "open", "fin", "reset", "broken"}]
    BY DEF Init
  <2>6. Len(clients) <= 10
    BY <1>2, <1>3
  <2> QED
    BY <1>3, <2>1, <2>2, <2>3, <2>4, <2>5, <2>6 DEF TypeOK
<1>5. Connected /\ PeersDistinct /\ Waiting /\ SnapshotReady /\ AllListed
  BY Numbers DEF Init, Connected, PeersDistinct, Waiting, SnapshotReady, AllListed, Open
<1>6. ListCounts
  <2>1. Came = {}
    BY DEF Init, Came
  <2> QED
    BY <1>2, <1>3, <2>1, FS_EmptySet DEF ListCounts
<1>7. NewsRight /\ WillKnow /\ Untold /\ PendingMeant
  BY DEF Init, NewsRight, WillKnow, Untold, PendingMeant, Open
<1>8. ToldRight /\ SeenRight
  BY Numbers DEF Init, ToldRight, SeenRight, Right, Nothing
<1>9. MeantRight /\ LinesBounded
  BY ChatAssumption DEF Init, MeantRight, LinesBounded
<1> QED
  BY <1>4, <1>5, <1>6, <1>7, <1>8, <1>9 DEF Inv, Tables, Knowledge, News
-----------------------------------------------------------------------------
(* What the users do keeps it *)

\* Neither the users nor send() change a table, only links and what is known.
LEMMA TablesStay ==
    ASSUME Tables, TypeOK', UNCHANGED <<tmp_fds, clients, peer, backlog>>,
           \A u \in Users : link'[u] = link[u] \/ (link[u] # "away" /\ Gone(u)'),
           \A u \in Users : lines[u] # <<>> => lines'[u] # <<>>
    PROVE  Tables'
<1>1. Connected' /\ PeersDistinct'
  BY DEF Tables, TypeOK, Connected, PeersDistinct, Gone
<1>2. Waiting'
  <2>1. backlog \in Seq(Users)
    BY DEF Tables, TypeOK
  <2>2. \A k \in 1..Len(backlog) : backlog[k] \in Users
    BY <2>1
  <2> QED
    BY <2>2 DEF Tables, Waiting, Gone
<1>3. SnapshotReady'
  <2> SUFFICES ASSUME NEW f \in tmp_fds
               PROVE  Ready(f)'
    BY DEF SnapshotReady
  <2>1. Ready(f)
    BY DEF Tables, SnapshotReady
  <2>2. CASE f = sockfd /\ backlog # <<>>
    BY <2>2 DEF Ready
  <2>3. CASE f \in Open /\ (lines[peer[f]] # <<>> \/ link[peer[f]] # "open")
    <3>1. peer[f] \in Users /\ f \in Open'
      BY <2>3 DEF Tables, TypeOK, Open
    <3>2. lines'[peer[f]] # <<>> \/ link'[peer[f]] # "open"
      BY <2>3, <3>1 DEF Gone
    <3> QED
      BY <3>1, <3>2 DEF Ready
  <2> QED
    BY <2>1, <2>2, <2>3 DEF Ready
<1>4. AllListed'
  BY DEF Tables, AllListed, Open
<1>5. ListCounts'
  <2>1. Came' = Came
    BY DEF Came, Gone
  <2> QED
    BY <2>1 DEF Tables, ListCounts
<1> QED
  BY <1>1, <1>2, <1>3, <1>4, <1>5 DEF Tables

\* News stays right while nobody sends, learns or changes a table.
LEMMA NewsStay ==
    ASSUME NewsRight, WillKnow, Untold, PendingMeant,
           UNCHANGED <<alive, clients, outgoing, peer, link, told>>
    PROVE  NewsRight' /\ WillKnow' /\ Untold' /\ PendingMeant'
<1>1. NewsRight' /\ Untold'
  BY DEF NewsRight, Untold, Reachable
<1>2. WillKnow'
  BY DEF WillKnow, Reachable, Skipped, Open
<1>3. PendingMeant'
  BY DEF PendingMeant, Right, Gone
<1> QED
  BY <1>1, <1>2, <1>3

LEMMA ConnectKeeps ==
    ASSUME Inv, NEW u \in Users, Connect(u)
    PROVE  Inv'
<1>1. /\ TypeOK /\ Connected /\ PeersDistinct /\ Waiting /\ SnapshotReady
      /\ AllListed /\ ListCounts
      /\ ToldRight /\ SeenRight /\ MeantRight /\ LinesBounded
      /\ NewsRight /\ WillKnow /\ Untold /\ PendingMeant
  BY DEF Inv, Tables, Knowledge, News
<1>2. /\ UNCHANGED <<alive, tmp_fds, clients, outgoing, peer, lines, unread, told, seen>>
      /\ link[u] = "away"
      /\ link' = [link EXCEPT ![u] = "open"]
      /\ backlog' = Append(backlog, u)
  BY DEF Connect, serverVars
<1>3. /\ backlog \in Seq(Users) /\ backlog' \in Seq(Users)
      /\ Len(backlog') = Len(backlog) + 1 /\ Len(backlog) \in Nat
      /\ backlog'[Len(backlog) + 1] = u
      /\ \A k \in 1..Len(backlog) : backlog'[k] = backlog[k] /\ backlog[k] \in Users
  BY <1>1, <1>2, AppendStays DEF TypeOK
<1>4. link'[u] = "open" /\ \A v \in Users \ {u} : link'[v] = link[v]
  BY <1>1, <1>2 DEF TypeOK
<1>5. TypeOK'
  BY <1>1, <1>2, <1>3 DEF TypeOK
<1>6. \A v \in Users : Gone(v) <=> Gone(v)'
  BY <1>2, <1>4 DEF Gone
<1>7. Connected' /\ PeersDistinct' /\ AllListed'
  BY <1>1, <1>2, <1>4 DEF Connected, PeersDistinct, AllListed, Open
<1>8. Waiting'
  <2>1. \A f \in Fds : peer[f] # u
    BY <1>1, <1>2 DEF Connected
  <2>2. \A k \in 1..Len(backlog) : backlog[k] # u
    BY <1>1, <1>2 DEF Waiting
  <2>3. \A k \in 1..Len(backlog') : k \in 1..Len(backlog) \/ k = Len(backlog) + 1
    BY <1>3
  <2> QED
    BY <1>1, <1>2, <1>3, <1>4, <2>1, <2>2, <2>3 DEF Waiting
<1>9. SnapshotReady'
  <2> SUFFICES ASSUME NEW f \in tmp_fds
               PROVE  Ready(f)'
    BY <1>2 DEF SnapshotReady
  <2>1. Ready(f)
    BY <1>1 DEF SnapshotReady
  <2>2. backlog' # <<>>
    BY <1>3
  <2>3. CASE f = sockfd
    BY <2>2, <2>3 DEF Ready
  <2>4. CASE f \in Open /\ (lines[peer[f]] # <<>> \/ link[peer[f]] # "open")
    <3>1. peer[f] \in Users /\ peer[f] # u /\ f \in Open'
      BY <1>1, <1>2, <2>4 DEF TypeOK, Connected, Open
    <3> QED
      BY <1>2, <1>4, <2>4, <3>1 DEF Ready
  <2> QED
    BY <2>1, <2>3, <2>4 DEF Ready
<1>10. ListCounts'
  <2>1. Came' = Came
    <3>1. u \notin Came /\ u \notin Came'
      BY <1>2, <1>3 DEF Came
    <3>2. \A v \in Users \ {u} : v \in Came <=> v \in Came'
      <4>1. \A k \in 1..Len(backlog') : k \in 1..Len(backlog) \/ k = Len(backlog) + 1
        BY <1>3
      <4>2. \A k \in 1..Len(backlog) : k \in 1..Len(backlog')
        BY <1>3
      <4> QED
        BY <1>3, <1>4, <4>1, <4>2 DEF Came
    <3>3. Came \subseteq Users /\ Came' \subseteq Users
      BY DEF Came
    <3> QED
      BY <3>1, <3>2, <3>3
  <2> QED
    BY <1>1, <1>2, <2>1 DEF ListCounts
<1>11. NewsRight' /\ WillKnow' /\ Untold'
  <2>1. \A f \in Open : peer[f] \in Users /\ peer[f] # u /\ link'[peer[f]] = link[peer[f]]
    BY <1>1, <1>2, <1>4 DEF TypeOK, Connected, Open
  <2> QED
    <3>1. NewsRight'
      BY <1>1, <1>2 DEF NewsRight
    <3>2. WillKnow'
      BY <1>1, <1>2, <2>1 DEF WillKnow, Reachable, Skipped, Open
    <3>3. \A f \in Fds : peer[f] # u
      BY <1>1, <1>2 DEF Connected
    <3>4. Untold'
      BY <1>1, <1>2, <1>4, <3>3 DEF Untold, Reachable
    <3> QED
      BY <3>1, <3>2, <3>4
<1>12. ToldRight' /\ SeenRight' /\ MeantRight'
  BY <1>1, <1>2, <1>6 DEF ToldRight, SeenRight, MeantRight, Right
<1>13. LinesBounded'
  BY <1>1, <1>2 DEF LinesBounded
<1>14. PendingMeant'
  <2>2. \A v, f : Right(v, f) <=> Right(v, f)'
    BY <1>2, <1>6 DEF Right
  <2> QED
    BY <1>1, <1>2, <2>2 DEF PendingMeant
<1> QED
  BY <1>1, <1>5, <1>7, <1>8, <1>9, <1>10, <1>11, <1>12, <1>13, <1>14
     DEF Inv, Tables, Knowledge, News

LEMMA TypeKeeps ==
    ASSUME Inv, NEW u \in Users, NEW d \in Fds, Type(u, d)
    PROVE  Inv'
<1>1. /\ TypeOK /\ Tables
      /\ ToldRight /\ SeenRight /\ MeantRight /\ LinesBounded
      /\ NewsRight /\ WillKnow /\ Untold /\ PendingMeant
  BY DEF Inv, Tables, Knowledge, News
<1>2. /\ UNCHANGED <<alive, tmp_fds, clients, outgoing, peer, backlog, link, unread, told, seen>>
      /\ seen[u][d] # Unlisted /\ Len(lines[u]) < Ahead
  BY DEF Type, serverVars
<1> DEFINE t == [dest |-> d, meant |-> seen[u][d]]
<1>3. t \in Texts
  BY <1>1, <1>2 DEF TypeOK, Texts
<1>4. t.dest = d /\ t.meant = seen[u][d]
  OBVIOUS
<1>5. lines' = [lines EXCEPT ![u] = Append(lines[u], t)]
  BY DEF Type
<1> HIDE DEF t
<1>6. /\ lines[u] \in Seq(Texts) /\ Append(lines[u], t) \in Seq(Texts)
      /\ Len(lines[u]) \in Nat
      /\ Len(Append(lines[u], t)) = Len(lines[u]) + 1
      /\ Append(lines[u], t)[Len(lines[u]) + 1] = t
      /\ \A k \in 1..Len(lines[u]) : Append(lines[u], t)[k] = lines[u][k]
  BY <1>1, <1>3, AppendStays DEF TypeOK
<1>7. /\ lines' \in [Users -> Seq(Texts)]
      /\ lines'[u] = Append(lines[u], t)
      /\ \A v \in Users \ {u} : lines'[v] = lines[v]
  BY <1>1, <1>5, <1>6 DEF TypeOK
<1>8. TypeOK'
  BY <1>1, <1>2, <1>7 DEF TypeOK
<1>9. \A v \in Users : lines[v] # <<>> => lines'[v] # <<>>
  <2>1. lines'[u] # <<>>
    BY <1>6, <1>7
  <2> QED
    BY <1>7, <2>1
<1>10. Tables'
  BY <1>1, <1>2, <1>8, <1>9, TablesStay
<1>11. ToldRight' /\ SeenRight' /\ NewsRight' /\ WillKnow' /\ Untold' /\ PendingMeant'
  BY <1>1, <1>2, NewsStay DEF ToldRight, SeenRight, Right, Gone
<1>12. MeantRight'
  <2> SUFFICES ASSUME NEW v \in Users, NEW k \in 1..Len(lines'[v])
               PROVE  Right(lines'[v][k].meant, lines'[v][k].dest)
    BY <1>2 DEF MeantRight, Right, Gone
  <2>1. CASE v # u
    BY <1>1, <1>7, <2>1 DEF MeantRight
  <2>2. CASE v = u /\ k \in 1..Len(lines[u])
    BY <1>1, <1>6, <1>7, <2>2 DEF MeantRight
  <2>3. CASE v = u /\ k = Len(lines[u]) + 1
    <3>1. lines'[v][k] = t
      BY <1>6, <1>7, <2>3
    <3> QED
      BY <1>1, <1>4, <3>1 DEF SeenRight
  <2> QED
    BY <1>6, <1>7, <2>1, <2>2, <2>3
<1>13. LinesBounded'
  <2>1. Len(lines'[u]) <= Ahead
    BY <1>2, <1>6, <1>7, ChatAssumption
  <2> QED
    BY <1>1, <1>7, <2>1 DEF LinesBounded
<1> QED
  BY <1>10, <1>11, <1>12, <1>13 DEF Inv, Knowledge, News

LEMMA ShowKeeps ==
    ASSUME Inv, NEW u \in Users, Show(u)
    PROVE  Inv'
<1>1. /\ TypeOK /\ Tables
      /\ ToldRight /\ SeenRight /\ MeantRight /\ LinesBounded
      /\ NewsRight /\ WillKnow /\ Untold /\ PendingMeant
  BY DEF Inv, Tables, Knowledge, News
<1>2. /\ UNCHANGED <<alive, tmp_fds, clients, outgoing, peer, backlog, link, lines, told>>
      /\ unread' = [unread EXCEPT ![u] = 0]
      /\ seen' = [seen EXCEPT ![u] = told[u]]
  BY DEF Show, serverVars
<1>3. /\ unread' \in [Users -> 0..QueueCap]
      /\ seen' \in [Users -> [Fds -> Users \cup {Nobody, Unlisted}]]
      /\ seen'[u] = told[u] /\ \A v \in Users \ {u} : seen'[v] = seen[v]
  BY <1>1, <1>2, ChatAssumption DEF TypeOK
<1>4. TypeOK'
  BY <1>1, <1>2, <1>3 DEF TypeOK
<1>5. Tables'
  BY <1>1, <1>2, <1>4, TablesStay
<1>6. /\ ToldRight' /\ MeantRight' /\ LinesBounded'
      /\ NewsRight' /\ WillKnow' /\ Untold' /\ PendingMeant'
  BY <1>1, <1>2, NewsStay DEF ToldRight, MeantRight, LinesBounded, Right, Gone
<1>7. SeenRight'
  <2> SUFFICES ASSUME NEW v \in Users, NEW f \in Fds
               PROVE  Right(seen'[v][f], f)
    BY <1>2 DEF SeenRight, Right, Gone
  <2> QED
    BY <1>1, <1>3 DEF SeenRight, ToldRight
<1> QED
  BY <1>5, <1>6, <1>7 DEF Inv, Knowledge, News

LEMMA ExitKeeps ==
    ASSUME Inv, NEW u \in Users, Exit(u)
    PROVE  Inv'
<1>1. /\ TypeOK /\ Tables
      /\ ToldRight /\ SeenRight /\ MeantRight /\ LinesBounded
      /\ NewsRight /\ WillKnow /\ Untold /\ PendingMeant
  BY DEF Inv, Tables, Knowledge, News
<1>2. /\ UNCHANGED <<alive, tmp_fds, clients, outgoing, peer, backlog, lines>>
      /\ link[u] = "open"
      /\ link' = [link EXCEPT ![u] = IF unread[u] > 0 THEN "reset" ELSE "fin"]
      /\ unread' = [unread EXCEPT ![u] = 0]
      /\ told' = [told EXCEPT ![u] = Nothing]
      /\ seen' = [seen EXCEPT ![u] = Nothing]
  BY DEF Exit, serverVars
<1>3. Nothing \in [Fds -> Users \cup {Nobody, Unlisted}] /\ \A f \in Fds : Nothing[f] = Unlisted
  BY DEF Nothing
<1>4. /\ link' \in [Users -> {"away", "open", "fin", "reset", "broken"}]
      /\ link'[u] \in {"fin", "reset"} /\ \A v \in Users \ {u} : link'[v] = link[v]
  BY <1>1, <1>2 DEF TypeOK
<1> HIDE DEF Nothing
<1>5. /\ told' \in [Users -> [Fds -> Users \cup {Nobody, Unlisted}]]
      /\ seen' \in [Users -> [Fds -> Users \cup {Nobody, Unlisted}]]
      /\ told'[u] = Nothing /\ \A v \in Users \ {u} : told'[v] = told[v]
      /\ seen'[u] = Nothing /\ \A v \in Users \ {u} : seen'[v] = seen[v]
  BY <1>1, <1>2, <1>3 DEF TypeOK
<1>6. TypeOK'
  <2>1. unread' \in [Users -> 0..QueueCap]
    BY <1>1, <1>2, ChatAssumption DEF TypeOK
  <2> QED
    BY <1>1, <1>2, <1>4, <1>5, <2>1 DEF TypeOK
<1>7. \A v \in Users : link'[v] = link[v] \/ (link[v] = "open" /\ Gone(v)')
  BY <1>2, <1>4 DEF Gone
<1>8. Tables'
  BY <1>1, <1>2, <1>6, <1>7, TablesStay
<1>9. \A v \in Users : Gone(v) => Gone(v)'
  BY <1>7 DEF Gone
<1>10. \A v, f : Right(v, f) => Right(v, f)'
  BY <1>2, <1>9 DEF Right
<1>11. WillKnow'
  <2> SUFFICES ASSUME alive, NEW f \in Open, NEW g \in Fds, link'[peer[f]] = "open", f # g
               PROVE  \/ told'[peer[f]][g] = peer[g]
                      \/ peer[g] = Nobody /\ (told'[peer[f]][g] = Unlisted \/ Skipped(f, g))
                      \/ \E k \in 1..Len(outgoing) : /\ outgoing[k].to = f
                                                    /\ outgoing[k].news[g] # Unsaid
    BY <1>2 DEF WillKnow, Reachable, Skipped, Open
  <2>1. peer[f] \in Users \ {u} /\ link[peer[f]] = "open"
    BY <1>1, <1>4 DEF TypeOK, Open
  <2> QED
    BY <1>1, <1>5, <2>1 DEF WillKnow, Reachable
<1>12. ToldRight' /\ SeenRight'
  <2>1. \A v \in Users, f \in Fds : Right(told'[v][f], f) /\ Right(seen'[v][f], f)
    BY <1>1, <1>3, <1>5, Numbers DEF ToldRight, SeenRight, Right
  <2> QED
    BY <1>2, <1>9, <2>1 DEF ToldRight, SeenRight, Right
<1>13. MeantRight' /\ LinesBounded'
  BY <1>1, <1>2, <1>10 DEF MeantRight, LinesBounded
<1>14. NewsRight' /\ PendingMeant' /\ Untold'
  <2>1. NewsRight' /\ PendingMeant'
    BY <1>1, <1>2, <1>10 DEF NewsRight, PendingMeant
  <2>2. Untold'
    BY <1>1, <1>2, <1>4, <1>5 DEF Untold, Reachable, Nothing
  <2> QED
    BY <2>1, <2>2
<1> QED
  BY <1>8, <1>11, <1>12, <1>13, <1>14 DEF Inv, Knowledge, News
-----------------------------------------------------------------------------
(* What the server does keeps it *)

LEMMA SelectKeeps ==
    ASSUME Inv, Select
    PROVE  Inv'
<1>1. /\ TypeOK /\ Connected /\ PeersDistinct /\ Waiting /\ AllListed /\ ListCounts
      /\ ToldRight /\ SeenRight /\ MeantRight /\ LinesBounded
      /\ NewsRight /\ WillKnow /\ Untold /\ PendingMeant
  BY DEF Inv, Tables, Knowledge, News
<1>2. /\ UNCHANGED <<alive, clients, outgoing, peer, backlog, link, lines, unread, told, seen>>
      /\ tmp_fds' = {f \in {sockfd} \cup Open : Ready(f)}
  BY DEF Select, Round
<1>3. TypeOK'
  BY <1>1, <1>2 DEF TypeOK, Open
<1>4. SnapshotReady'
  <2>1. \A f \in tmp_fds' : Ready(f)
    BY <1>2
  <2> QED
    BY <1>2, <2>1 DEF SnapshotReady, Ready, Open
<1>5. Connected' /\ PeersDistinct' /\ Waiting' /\ AllListed' /\ ListCounts'
  BY <1>1, <1>2 DEF Connected, PeersDistinct, Waiting, AllListed, ListCounts, Came, Open
<1>6. /\ ToldRight' /\ SeenRight' /\ MeantRight' /\ LinesBounded'
      /\ NewsRight' /\ WillKnow' /\ Untold' /\ PendingMeant'
  BY <1>1, <1>2, NewsStay DEF ToldRight, SeenRight, MeantRight, LinesBounded, Right, Gone
<1> QED
  BY <1>3, <1>4, <1>5, <1>6 DEF Inv, Tables, Knowledge, News

LEMMA DieKeeps ==
    ASSUME Inv, NEW f \in Fds, Die(f)
    PROVE  Inv'
<1>1. /\ TypeOK /\ Connected /\ PeersDistinct /\ Waiting /\ SnapshotReady
      /\ AllListed /\ ListCounts
      /\ ToldRight /\ SeenRight /\ MeantRight /\ LinesBounded
      /\ NewsRight /\ WillKnow /\ Untold /\ PendingMeant
  BY DEF Inv, Tables, Knowledge, News
<1>2. /\ UNCHANGED <<tmp_fds, clients, outgoing, peer, backlog, link, lines, unread, told, seen>>
      /\ alive' = FALSE
  BY DEF Die
<1>3. TypeOK'
  BY <1>1, <1>2 DEF TypeOK
<1>4. /\ Connected' /\ PeersDistinct' /\ Waiting' /\ SnapshotReady'
      /\ AllListed' /\ ListCounts'
  BY <1>1, <1>2 DEF Connected, PeersDistinct, Waiting, SnapshotReady, Ready, AllListed,
                    ListCounts, Came, Open
<1>5. NewsRight' /\ WillKnow' /\ Untold' /\ PendingMeant'
  BY <1>1, <1>2 DEF NewsRight, WillKnow, Untold, PendingMeant, Reachable, Right, Gone
<1>6. ToldRight' /\ SeenRight' /\ MeantRight' /\ LinesBounded'
  BY <1>1, <1>2 DEF ToldRight, SeenRight, MeantRight, LinesBounded, Right, Gone
<1> QED
  BY <1>3, <1>4, <1>5, <1>6 DEF Inv, Tables, Knowledge, News

\* What is read of a line is a text.
LEMMA TextsKept ==
    ASSUME TypeOK
    PROVE  \A u \in Users : \A k \in 1..Len(lines[u]) :
             /\ lines[u][k] \in Texts
             /\ lines[u][k].dest \in Fds
             /\ lines[u][k].meant \in Users \cup {Nobody}
<1> SUFFICES ASSUME NEW u \in Users, NEW k \in 1..Len(lines[u])
             PROVE  /\ lines[u][k] \in Texts
                    /\ lines[u][k].dest \in Fds
                    /\ lines[u][k].meant \in Users \cup {Nobody}
  OBVIOUS
<1>1. lines[u] \in Seq(Texts)
  BY DEF TypeOK
<1>2. lines[u][k] \in Texts
  BY <1>1
<1> QED
  BY <1>2 DEF Texts

\* Right stays right where only users that left lose their descriptor.
LEMMA RightStays ==
    ASSUME TypeOK, \A u \in Users : Gone(u) => Gone(u)',
           \A f \in Fds : peer'[f] = peer[f] \/ peer[f] = Nobody \/ Gone(peer[f])
    PROVE  \A f \in Fds : \A v : Right(v, f) => Right(v, f)'
<1> SUFFICES ASSUME NEW f \in Fds, NEW v \in Users, peer[f] = v \/ Gone(v)
             PROVE  peer'[f] = v \/ Gone(v)'
  BY DEF Right
<1> QED
  BY Numbers

\* What is left of the round is still to be done: the descriptor that is
\* handled is the only one of its user.
LEMMA RoundStays ==
    ASSUME Inv, NEW f \in Fds, At(f), Handled(f), UNCHANGED backlog,
           \A g \in Fds \ {f} : peer'[g] = peer[g],
           \A u \in Users \ {peer[f]} : lines'[u] = lines[u],
           UNCHANGED link
    PROVE  SnapshotReady'
<1>1. TypeOK /\ PeersDistinct /\ SnapshotReady
  BY DEF Inv, Tables
<1>2. tmp_fds' = tmp_fds \ {f}
  BY DEF Handled
<1> SUFFICES ASSUME NEW g \in tmp_fds, g # f
             PROVE  Ready(g)'
  BY <1>2 DEF SnapshotReady
<1>3. Ready(g)
  BY <1>1 DEF SnapshotReady
<1>4. CASE g = sockfd /\ backlog # <<>>
  BY <1>4 DEF Ready
<1>5. CASE g \in Open /\ (lines[peer[g]] # <<>> \/ link[peer[g]] # "open")
  <2>1. g \in Fds /\ peer'[g] = peer[g] /\ peer[g] \in Users /\ peer[g] # Nobody
    BY <1>1, <1>5 DEF TypeOK, Open
  <2>2. peer[g] # peer[f]
    BY <1>1, <2>1 DEF PeersDistinct
  <2>3. lines'[peer[g]] = lines[peer[g]]
    BY <2>1, <2>2
  <2>4. link'[peer[g]] # "open" <=> link[peer[g]] # "open"
    BY <2>1
  <2>5. g \in Open'
    BY <2>1 DEF Open
  <2> QED
    BY <1>5, <2>1, <2>3, <2>4, <2>5 DEF Ready
<1> QED
  BY <1>3, <1>4, <1>5 DEF Ready

\* What is to be sent are messages.
LEMMA MessagesKept ==
    ASSUME TypeOK
    PROVE  \A k \in 1..Len(outgoing) :
             /\ outgoing[k] \in Messages
             /\ outgoing[k].to \in Fds
             /\ outgoing[k].news \in [Fds -> Users \cup {Nobody, Unlisted, Unsaid}]
             /\ outgoing[k].meant \subseteq Users \cup {Nobody}
<1> SUFFICES ASSUME NEW k \in 1..Len(outgoing)
             PROVE  /\ outgoing[k] \in Messages
                    /\ outgoing[k].to \in Fds
                    /\ outgoing[k].news \in [Fds -> Users \cup {Nobody, Unlisted, Unsaid}]
                    /\ outgoing[k].meant \subseteq Users \cup {Nobody}
  OBVIOUS
<1>1. outgoing \in Seq(Messages)
  BY DEF TypeOK
<1>2. outgoing[k] \in Messages
  BY <1>1
<1> QED
  BY <1>2 DEF Messages

\* The messages of one round of notices.
LEMMA ToEachIs ==
    ASSUME NEW fds \in Seq(Fds), NEW news \in [Fds -> Users \cup {Nobody, Unlisted, Unsaid}]
    PROVE  /\ ToEach(fds, news) \in Seq(Messages)
           /\ Len(ToEach(fds, news)) = Len(fds)
           /\ \A k \in 1..Len(fds) : /\ ToEach(fds, news)[k].to = fds[k]
                                     /\ ToEach(fds, news)[k].news = news
                                     /\ ToEach(fds, news)[k].meant = {}
<1> DEFINE message(k) == [to |-> fds[k], news |-> news, meant |-> {}]
<1>1. \A k \in 1..Len(fds) : /\ message(k) \in Messages
                              /\ message(k).to = fds[k]
                              /\ message(k).news = news
                              /\ message(k).meant = {}
  BY DEF Messages
<1>2. ToEach(fds, news) = [k \in 1..Len(fds) |-> message(k)]
  BY DEF ToEach
<1>3. Len(fds) \in Nat
  OBVIOUS
<1> HIDE DEF message
<1>4. /\ ToEach(fds, news) \in Seq(Messages)
      /\ Len(ToEach(fds, news)) = Len(fds)
      /\ \A k \in 1..Len(fds) : ToEach(fds, news)[k] = message(k)
  BY <1>1, <1>2, <1>3
<1> QED
  BY <1>1, <1>4

LEMMA ToOneIs ==
    ASSUME NEW f \in Fds, NEW news \in [Fds -> Users \cup {Nobody, Unlisted, Unsaid}]
    PROVE  /\ ToEach(<<f>>, news) \in Seq(Messages)
           /\ Len(ToEach(<<f>>, news)) = 1
           /\ ToEach(<<f>>, news)[1].to = f
           /\ ToEach(<<f>>, news)[1].news = news
           /\ ToEach(<<f>>, news)[1].meant = {}
<1>1. /\ [to |-> f, news |-> news, meant |-> {}] \in Messages
      /\ [to |-> f, news |-> news, meant |-> {}].to = f
      /\ [to |-> f, news |-> news, meant |-> {}].news = news
      /\ [to |-> f, news |-> news, meant |-> {}].meant = {}
  BY DEF Messages
<1> PICK message : message = [to |-> f, news |-> news, meant |-> {}]
  OBVIOUS
<1>2. ToEach(<<f>>, news) = [k \in 1..1 |-> message]
  BY DEF ToEach
<1>3. message \in Messages /\ message.to = f /\ message.news = news /\ message.meant = {}
  BY <1>1
<1>4. /\ ToEach(<<f>>, news) \in Seq(Messages)
      /\ Len(ToEach(<<f>>, news)) = 1 /\ ToEach(<<f>>, news)[1] = message
  <2> DEFINE all == [k \in 1..1 |-> message]
  <2>1. all \in Seq(Messages) /\ Len(all) = 1 /\ all[1] = message
    BY <1>3
  <2> HIDE DEF all
  <2>2. ToEach(<<f>>, news) = all
    BY <1>2 DEF all
  <2> QED
    BY <2>1, <2>2
<1> QED
  BY <1>3, <1>4

LEMMA NewsOfIs ==
    ASSUME NEW f \in Fds, NEW u \in Users \cup {Nobody, Unlisted}
    PROVE  /\ NewsOf(f, u) \in [Fds -> Users \cup {Nobody, Unlisted, Unsaid}]
           /\ NewsOf(f, u)[f] = u
           /\ \A g \in Fds \ {f} : NewsOf(f, u)[g] = Unsaid
  BY DEF NewsOf

LEMMA HangUpKeeps ==
    ASSUME Inv, NEW f \in Fds, HangUp(f)
    PROVE  Inv'
<1>1. /\ TypeOK /\ Connected /\ PeersDistinct /\ Waiting /\ SnapshotReady
      /\ AllListed /\ ListCounts
      /\ ToldRight /\ SeenRight /\ MeantRight /\ LinesBounded
      /\ NewsRight /\ WillKnow /\ Untold /\ PendingMeant
  BY DEF Inv, Tables, Knowledge, News
<1>2. /\ UNCHANGED <<alive, clients, backlog, link, lines, unread, told, seen>>
      /\ At(f) /\ f \in Open /\ lines[peer[f]] = <<>>
      /\ alive /\ outgoing = <<>>
      /\ Handled(f) /\ tmp_fds' = tmp_fds \ {f}
      /\ peer' = [peer EXCEPT ![f] = Nobody]
  BY DEF HangUp, Handled, At
<1>3. outgoing' = ToEach(Others(f), NewsOf(f, Unlisted))
  BY DEF HangUp
<1>4. /\ peer' \in [Fds -> Users \cup {Nobody}]
      /\ peer'[f] = Nobody /\ \A g \in Fds \ {f} : peer'[g] = peer[g]
  BY <1>1, <1>2 DEF TypeOK
<1>5. /\ Others(f) \in Seq(Fds) /\ Len(Others(f)) = Len(clients)
      /\ \A k \in 1..Len(clients) : k - 1 # f => Others(f)[k] = clients[k]
  <2>1. clients \in Seq(Fds)
    BY <1>1 DEF TypeOK
  <2> QED
    BY <2>1 DEF Others
<1>6. \A g \in Fds : peer'[g] \in Users => link[peer'[g]] # "away"
  BY <1>1, <1>4, Numbers DEF Connected
<1>7. /\ outgoing' \in Seq(Messages) /\ Len(outgoing') = Len(clients)
      /\ \A k \in 1..Len(clients) : /\ outgoing'[k].to = Others(f)[k]
                                    /\ outgoing'[k].news = NewsOf(f, Unlisted)
                                    /\ outgoing'[k].meant = {}
  BY <1>3, <1>5, NewsOfIs, ToEachIs
<1>8. \A u \in Users : Gone(u) <=> Gone(u)'
  BY <1>2 DEF Gone
<1>9. peer[f] \in Users /\ Gone(peer[f])
  <2>1. peer[f] \in Users
    BY <1>1, <1>2 DEF TypeOK, Open
  <2>2. Ready(f)
    BY <1>1, <1>2 DEF At, SnapshotReady
  <2>3. link[peer[f]] # "open"
    BY <1>2, <2>2, Numbers DEF Ready
  <2>4. link[peer[f]] # "away" /\ link[peer[f]] \in {"away", "open", "fin", "reset", "broken"}
    BY <1>1, <2>1 DEF Connected, TypeOK
  <2> QED
    BY <2>1, <2>3, <2>4 DEF Gone
<1>11. TypeOK'
  BY <1>1, <1>2, <1>4, <1>7 DEF TypeOK
<1>12. Connected' /\ PeersDistinct' /\ Waiting' /\ AllListed'
  <2>1. Connected' /\ PeersDistinct'
    <3>1. Connected'
      BY <1>2, <1>6 DEF Connected
    <3>2. PeersDistinct'
      BY <1>1, <1>4 DEF PeersDistinct
    <3> QED
      BY <3>1, <3>2
  <2>3. Waiting'
    <3>1. \A k \in 1..Len(backlog) : backlog[k] \in Users
      <4>1. backlog \in Seq(Users)
        BY <1>1 DEF TypeOK
      <4> QED
        BY <4>1
    <3>2. \A u \in Users, g \in Fds : peer[g] # u => peer'[g] # u
      BY <1>4, Numbers
    <3> QED
      BY <1>1, <1>2, <3>1, <3>2 DEF Waiting
  <2>4. AllListed'
    BY <1>1, <1>2, <1>4 DEF AllListed, Open
  <2> QED
    BY <2>1, <2>3, <2>4
<1>13. SnapshotReady'
  BY <1>2, <1>4, RoundStays
<1>14. ListCounts'
  <2>1. Came' = Came
    BY <1>2 DEF Came
  <2> QED
    BY <1>1, <1>2, <2>1 DEF ListCounts
<1>15. WillKnow'
  <2> SUFFICES ASSUME NEW h \in Open', NEW g \in Fds, link[peer'[h]] = "open", h # g
               PROVE  \/ told[peer'[h]][g] = peer'[g]
                      \/ peer'[g] = Nobody /\ (told[peer'[h]][g] = Unlisted \/ Skipped(h, g))
                      \/ \E k \in 1..Len(outgoing') : /\ outgoing'[k].to = h
                                                     /\ outgoing'[k].news[g] # Unsaid
    BY <1>2 DEF WillKnow, Reachable, Skipped
  <2>1. h \in Open /\ h # f /\ peer'[h] = peer[h] /\ peer[h] \in Users
    BY <1>1, <1>4 DEF Open, TypeOK
  <2>2. CASE g # f
    <3>1. peer'[g] = peer[g]
      BY <1>4, <2>2
    <3>2. Len(outgoing) = 0
      BY <1>2
    <3> QED
      BY <1>1, <1>2, <2>1, <3>1, <3>2 DEF WillKnow, Reachable
  <2>3. CASE g = f
    <3>1. PICK k \in 1..Len(clients) : clients[k] = h
      BY <1>1, <2>1 DEF AllListed
    <3>2. CASE k - 1 = f
      <4>1. clients \in Seq(Fds) /\ f \in Nat
        BY <1>1, Numbers DEF TypeOK
      <4>2. f < Len(clients) /\ f + 1 = k
        BY <3>2, <4>1
      <4> QED
        BY <1>4, <2>3, <3>1, <4>2 DEF Skipped
    <3>3. CASE k - 1 # f
      <4>1. outgoing'[k].to = h /\ outgoing'[k].news = NewsOf(f, Unlisted)
        BY <1>5, <1>7, <3>1, <3>3
      <4>2. NewsOf(f, Unlisted)[f] # Unsaid
        BY NewsOfIs, Numbers
      <4> QED
        BY <1>7, <2>3, <4>1, <4>2
    <3> QED
      BY <3>2, <3>3
  <2> QED
    BY <2>2, <2>3
<1>16. \A g \in Fds : \A v : Right(v, g) => Right(v, g)'
  BY <1>1, <1>4, <1>8, <1>9, RightStays
<1>17. ToldRight' /\ SeenRight'
  BY <1>1, <1>2, <1>16 DEF ToldRight, SeenRight, Right
<1>18. NewsRight' /\ PendingMeant' /\ Untold'
  <2>1. NewsRight'
    <3> SUFFICES ASSUME NEW k \in 1..Len(outgoing'), NEW g \in Fds
                 PROVE  \/ outgoing'[k].news[g] = Unsaid
                        \/ outgoing'[k].news[g] = Unlisted /\ peer'[g] = Nobody
      BY DEF NewsRight
    <3>1. outgoing'[k].news = NewsOf(f, Unlisted)
      BY <1>7
    <3> QED
      BY <1>4, <3>1, NewsOfIs
  <2>2. PendingMeant'
    BY <1>7 DEF PendingMeant
  <2>3. Untold'
    <3> SUFFICES ASSUME NEW u \in Users, ~Reachable(u) \/ (\A g \in Fds : peer'[g] # u)
                 PROVE  told[u] = Nothing
      BY <1>2 DEF Untold, Reachable
    <3>1. ~Reachable(peer[f])
      BY <1>9 DEF Gone, Reachable
    <3>2. ~Reachable(u) \/ (\A g \in Fds : peer[g] # u)
      BY <1>4, <3>1
    <3> QED
      BY <1>1, <3>2 DEF Untold
  <2> QED
    BY <2>1, <2>2, <2>3
<1>19. MeantRight' /\ LinesBounded'
  <2>1. \A v \in Users : \A k \in 1..Len(lines[v]) : lines[v][k].dest \in Fds
    BY <1>1, TextsKept
  <2>2. MeantRight'
    BY <1>1, <1>2, <1>16, <2>1 DEF MeantRight, Right
  <2> QED
    BY <1>1, <1>2, <2>2 DEF LinesBounded
<1> QED
  BY <1>11, <1>12, <1>13, <1>14, <1>15, <1>17, <1>18, <1>19 DEF Inv, Tables, Knowledge, News

LEMMA RelayKeeps ==
    ASSUME Inv, NEW f \in Fds, Relay(f)
    PROVE  Inv'
<1>1. /\ TypeOK /\ Connected /\ PeersDistinct /\ Waiting /\ SnapshotReady
      /\ AllListed /\ ListCounts
      /\ ToldRight /\ SeenRight /\ MeantRight /\ LinesBounded
      /\ NewsRight /\ WillKnow /\ Untold /\ PendingMeant
  BY DEF Inv, Tables, Knowledge, News
<1> DEFINE texts == lines[peer[f]]
           dest == texts[1].dest
           message == [to |-> dest, news |-> [g \in Fds |-> Unsaid],
                       meant |-> {t.meant : t \in Range(texts)}]
<1>2. /\ UNCHANGED <<alive, clients, peer, backlog, link, unread, told, seen>>
      /\ At(f) /\ f \in Open /\ texts # <<>>
      /\ alive /\ outgoing = <<>>
      /\ Handled(f) /\ tmp_fds' = tmp_fds \ {f}
      /\ lines' = [lines EXCEPT ![peer[f]] = <<>>]
  BY DEF Relay, Handled, At
<1>3. outgoing' = <<message>>
  BY DEF Relay, Destination
<1>4. peer[f] \in Users
  BY <1>1, <1>2 DEF TypeOK, Open
<1>5. texts \in Seq(Texts) /\ Len(texts) \in Nat \ {0} /\ dest \in Fds
  <2>1. texts \in Seq(Texts)
    BY <1>1, <1>4 DEF TypeOK
  <2>2. Len(texts) \in Nat \ {0} /\ 1 \in 1..Len(texts)
    BY <1>2, <2>1, EmptySeq
  <2> QED
    BY <1>1, <1>4, <2>1, <2>2, TextsKept
<1>6. Range(texts) = {texts[k] : k \in 1..Len(texts)}
  BY <1>5 DEF Range
<1>7. {t.meant : t \in Range(texts)} \subseteq Users \cup {Nobody}
  <2>1. \A k \in 1..Len(texts) : texts[k].meant \in Users \cup {Nobody}
    BY <1>1, <1>4, TextsKept
  <2> HIDE DEF texts
  <2> QED
    BY <1>6, <2>1
<1>8. /\ lines' \in [Users -> Seq(Texts)]
      /\ lines'[peer[f]] = <<>> /\ \A v \in Users \ {peer[f]} : lines'[v] = lines[v]
  BY <1>1, <1>2, <1>4, EmptySeq DEF TypeOK
<1> HIDE DEF dest
<1>9. /\ message \in Messages
      /\ message.to = dest
      /\ \A g \in Fds : message.news[g] = Unsaid
      /\ message.meant = {t.meant : t \in Range(texts)}
  <2> HIDE DEF texts
  <2> QED
    BY <1>5, <1>7 DEF Messages
<1> HIDE DEF message
<1>10. outgoing' \in Seq(Messages) /\ Len(outgoing') = 1 /\ outgoing'[1] = message
  BY <1>3, <1>9
<1>11. \A u \in Users : Gone(u) <=> Gone(u)'
  BY <1>2 DEF Gone
<1>13. TypeOK'
  <2>1. tmp_fds' \subseteq {sockfd} \cup Fds
    BY <1>1, <1>2 DEF TypeOK
  <2> QED
    BY <1>1, <1>2, <1>8, <1>10, <2>1 DEF TypeOK
<1>14. Connected' /\ PeersDistinct' /\ Waiting' /\ AllListed'
  <2>1. Connected' /\ PeersDistinct' /\ AllListed'
    BY <1>1, <1>2 DEF Connected, PeersDistinct, AllListed, Open
  <2>2. \A k \in 1..Len(backlog) : backlog[k] \in Users
    <3>1. backlog \in Seq(Users)
      BY <1>1 DEF TypeOK
    <3> QED
      BY <3>1
  <2>3. Waiting'
    BY <1>1, <1>2, <2>2 DEF Waiting
  <2> QED
    BY <2>1, <2>3
<1>15. SnapshotReady'
  BY <1>2, <1>8, RoundStays
<1>16. ListCounts'
  <2>1. Came' = Came
    BY <1>2 DEF Came
  <2> QED
    BY <1>1, <1>2, <2>1 DEF ListCounts
<1>17. NewsRight' /\ WillKnow' /\ Untold'
  <2>1. NewsRight'
    BY <1>9, <1>10 DEF NewsRight
  <2>2. WillKnow'
    <3>1. Len(outgoing) = 0
      BY <1>2
    <3> QED
      BY <1>1, <1>2, <3>1 DEF WillKnow, Reachable, Skipped, Open
  <2>3. Untold'
    BY <1>1, <1>2 DEF Untold, Reachable
  <2> QED
    BY <2>1, <2>2, <2>3
<1>18. \A g \in Fds : \A v : Right(v, g) => Right(v, g)'
  BY <1>1, <1>2, <1>11, RightStays
<1>19. ToldRight' /\ SeenRight'
  BY <1>1, <1>2, <1>18 DEF ToldRight, SeenRight, Right
<1>20. MeantRight' /\ LinesBounded'
  <2>1. MeantRight'
    <3> SUFFICES ASSUME NEW v \in Users, NEW k \in 1..Len(lines'[v]), NEW t, t = lines'[v][k]
                 PROVE  Right(t.meant, t.dest)'
      BY DEF MeantRight, Right, Gone
    <3>1. v # peer[f]
      BY <1>8
    <3>2. t = lines[v][k] /\ k \in 1..Len(lines[v])
      BY <1>8, <3>1
    <3>3. t.dest \in Fds
      BY <1>1, <3>2, TextsKept
    <3>4. Right(t.meant, t.dest)
      BY <1>1, <3>2 DEF MeantRight
    <3> QED
      BY <1>18, <3>3, <3>4
  <2>2. LinesBounded'
    <3>1. Len(<<>>) <= Ahead
      BY ChatAssumption
    <3> QED
      BY <1>1, <1>8, <3>1 DEF LinesBounded
  <2> QED
    BY <2>1, <2>2
<1>21. PendingMeant'
  <2> SUFFICES ASSUME Ahead = 1, NEW u \in message.meant
               PROVE  Right(u, dest)
    <3>1. \A k \in 1..Len(outgoing') : outgoing'[k] = message
      BY <1>10
    <3>2. message.to = dest
      BY <1>9
    <3> QED
      BY <1>2, <1>11, <3>1, <3>2 DEF PendingMeant, Right
  <2>1. Len(texts) = 1
    <3>1. Len(lines[peer[f]]) <= 1
      BY <1>1, <1>4 DEF LinesBounded
    <3>2. Len(lines[peer[f]]) \in Nat \ {0}
      BY <1>5
    <3>3. \A n \in Nat \ {0} : n <= 1 => n = 1
      OBVIOUS
    <3> QED
      BY <3>1, <3>2, <3>3, Zenon
  <2>2. u = texts[1].meant
    BY <1>6, <1>9, <2>1
  <2>3. Right(texts[1].meant, texts[1].dest)
    BY <1>1, <1>4, <2>1 DEF MeantRight
  <2> QED
    BY <2>2, <2>3 DEF dest
<1> QED
  BY <1>13, <1>14, <1>15, <1>16, <1>17, <1>19, <1>20, <1>21 DEF Inv, Tables, Knowledge, News

\* The list that a newcomer is sent.
NewsOfAll == [g \in Fds |-> IF g \in Range(clients) THEN peer'[g] ELSE Unlisted]

\* What accept() does, with its user and its descriptor named.
LEMMA AcceptDoes ==
    ASSUME Inv, Accept, NEW u, u = Head(backlog), NEW n, n = LowestFree
    PROVE  /\ UNCHANGED <<alive, link, lines, unread, told, seen>>
           /\ outgoing = <<>>
           /\ backlog # <<>> /\ backlog' = Tail(backlog)
           /\ u \in Users /\ u = backlog[1] /\ link[u] # "away"
           /\ n \in Fds /\ peer[n] = Nobody
           /\ alive /\ tmp_fds' = tmp_fds \ {sockfd}
           /\ peer' \in [Fds -> Users \cup {Nobody}]
           /\ peer'[n] = u /\ \A g \in Fds \ {n} : peer'[g] = peer[g]
           /\ clients' = Append(clients, n)
           /\ outgoing' = ToEach(clients, NewsOf(n, u))
                            \o (IF clients = <<>> THEN <<>> ELSE ToEach(<<n>>, NewsOfAll))
<1>1. TypeOK /\ PeersDistinct /\ Waiting /\ SnapshotReady
  BY DEF Inv, Tables
<1>2. backlog # <<>>
  <2>1. sockfd \in tmp_fds
    BY DEF Accept, At
  <2>2. sockfd \notin Open
    BY Numbers DEF Open
  <2> QED
    BY <1>1, <2>1, <2>2 DEF SnapshotReady, Ready
<1>3. n \in Fds /\ peer[n] = Nobody
  BY <1>1, <1>2, FreeFd DEF Open
<1>4. u \in Users /\ u = backlog[1] /\ link[u] # "away"
  <2>1. backlog \in Seq(Users)
    BY <1>1 DEF TypeOK
  <2>2. u \in Users /\ u = backlog[1] /\ 1 \in 1..Len(backlog)
    BY <1>2, <2>1, HeadTailStay
  <2> QED
    BY <1>1, <2>2 DEF Waiting
<1>5. peer' = [peer EXCEPT ![n] = u]
  BY DEF Accept
<1>6. /\ peer' \in [Fds -> Users \cup {Nobody}]
      /\ peer'[n] = u /\ \A g \in Fds \ {n} : peer'[g] = peer[g]
  BY <1>1, <1>3, <1>4, <1>5 DEF TypeOK
<1>7. /\ UNCHANGED <<alive, link, lines, unread, told, seen>> /\ backlog' = Tail(backlog)
      /\ clients' = Append(clients, n)
      /\ alive /\ outgoing = <<>> /\ tmp_fds' = tmp_fds \ {sockfd}
  BY DEF Accept, Listed, At, Handled
<1>8. outgoing' = ToEach(clients, NewsOf(n, u))
                    \o (IF clients = <<>> THEN <<>> ELSE ToEach(<<n>>, NewsOfAll))
  BY DEF Accept, NewsOfAll
<1> QED
  BY <1>2, <1>3, <1>4, <1>6, <1>7, <1>8

LEMMA AcceptKeeps ==
    ASSUME Inv, Accept
    PROVE  Inv'
<1>1. /\ TypeOK /\ Connected /\ PeersDistinct /\ Waiting /\ SnapshotReady
      /\ AllListed /\ ListCounts
      /\ ToldRight /\ SeenRight /\ MeantRight /\ LinesBounded
      /\ NewsRight /\ WillKnow /\ Untold /\ PendingMeant
  BY DEF Inv, Tables, Knowledge, News
<1> PICK u : u = Head(backlog)
  OBVIOUS
<1> PICK n : n = LowestFree
  OBVIOUS
<1>2. /\ UNCHANGED <<alive, link, lines, unread, told, seen>>
      /\ outgoing = <<>>
      /\ backlog # <<>> /\ backlog' = Tail(backlog)
      /\ alive /\ tmp_fds' = tmp_fds \ {sockfd}
  BY AcceptDoes
<1>3. /\ u \in Users /\ u = backlog[1] /\ link[u] # "away"
      /\ n \in Fds /\ peer[n] = Nobody
  BY AcceptDoes
<1>4. /\ peer' \in [Fds -> Users \cup {Nobody}]
      /\ peer'[n] = u /\ \A g \in Fds \ {n} : peer'[g] = peer[g]
  BY AcceptDoes
<1>5. /\ clients \in Seq(Fds) /\ clients' \in Seq(Fds) /\ Len(clients) \in Nat
      /\ Len(clients') = Len(clients) + 1 /\ clients'[Len(clients) + 1] = n
      /\ \A k \in 1..Len(clients) : clients'[k] = clients[k] /\ clients[k] \in Fds
  <2>1. clients \in Seq(Fds) /\ clients' = Append(clients, n)
    BY <1>1, AcceptDoes DEF TypeOK
  <2> QED
    BY <1>3, <2>1, AppendStays
<1>6. /\ backlog \in Seq(Users) /\ backlog' \in Seq(Users)
      /\ Len(backlog) \in Nat \ {0} /\ Len(backlog') = Len(backlog) - 1
      /\ \A k \in 1..Len(backlog') : /\ backlog'[k] = backlog[k + 1]
                                     /\ k + 1 \in 1..Len(backlog) /\ k + 1 # 1
      /\ \A k \in 1..Len(backlog) : k = 1 \/ k - 1 \in 1..Len(backlog')
      /\ \A k \in 1..Len(backlog) : backlog[k] \in Users
  <2>1. backlog \in Seq(Users)
    BY <1>1 DEF TypeOK
  <2> QED
    BY <1>2, <2>1, HeadTailStay
<1>7. /\ outgoing' \in Seq(Messages)
      /\ \A k \in 1..Len(clients) : /\ k \in 1..Len(outgoing')
                                    /\ outgoing'[k].to = clients[k]
                                    /\ outgoing'[k].news = NewsOf(n, u)
                                    /\ outgoing'[k].meant = {}
      /\ clients # <<>> =>
           /\ Len(clients) + 1 \in 1..Len(outgoing')
           /\ outgoing'[Len(clients) + 1].to = n
           /\ outgoing'[Len(clients) + 1].news = NewsOfAll
           /\ outgoing'[Len(clients) + 1].meant = {}
      /\ \A k \in 1..Len(outgoing') :
           k \in 1..Len(clients) \/ (k = Len(clients) + 1 /\ clients # <<>>)
  <2> DEFINE notices == ToEach(clients, NewsOf(n, u))
             list == IF clients = <<>> THEN <<>> ELSE ToEach(<<n>>, NewsOfAll)
  <2>1. outgoing' = notices \o list
    BY AcceptDoes
  <2>2. NewsOf(n, u) \in [Fds -> Users \cup {Nobody, Unlisted, Unsaid}]
    BY <1>3, NewsOfIs
  <2>3. NewsOfAll \in [Fds -> Users \cup {Nobody, Unlisted, Unsaid}]
    BY <1>4 DEF NewsOfAll
  <2>4. /\ notices \in Seq(Messages) /\ Len(notices) = Len(clients)
        /\ \A k \in 1..Len(clients) : /\ notices[k].to = clients[k]
                                      /\ notices[k].news = NewsOf(n, u)
                                      /\ notices[k].meant = {}
    BY <1>5, <2>2, ToEachIs
  <2>5. CASE clients = <<>>
    <3>1. list = <<>> /\ Len(clients) = 0
      BY <2>5
    <3> HIDE DEF notices, list
    <3>2. outgoing' = notices
      BY <2>1, <2>4, <3>1
    <3> QED
      BY <2>4, <2>5, <3>1, <3>2
  <2>6. CASE clients # <<>>
    <3>2. /\ ToEach(<<n>>, NewsOfAll) \in Seq(Messages)
          /\ Len(ToEach(<<n>>, NewsOfAll)) = 1
          /\ ToEach(<<n>>, NewsOfAll)[1].to = n
          /\ ToEach(<<n>>, NewsOfAll)[1].news = NewsOfAll
          /\ ToEach(<<n>>, NewsOfAll)[1].meant = {}
      BY <1>3, <2>3, ToOneIs
    <3>3. list = ToEach(<<n>>, NewsOfAll)
      BY <2>6
    <3>4. /\ list \in Seq(Messages) /\ Len(list) = 1
          /\ list[1].to = n /\ list[1].news = NewsOfAll /\ list[1].meant = {}
      BY <3>2, <3>3
    <3> HIDE DEF notices, list
    <3>5. /\ outgoing' \in Seq(Messages) /\ Len(outgoing') = Len(clients) + 1
          /\ \A k \in 1..Len(clients) : outgoing'[k] = notices[k]
          /\ outgoing'[Len(clients) + 1] = list[1]
      <4>1. notices \in Seq(Messages) /\ Len(notices) = Len(clients)
        BY <2>4
      <4>2. list \in Seq(Messages) /\ Len(list) = 1
        BY <3>4
      <4> QED
        BY <1>5, <2>1, <4>1, <4>2, JoinOne
    <3>6. /\ Len(clients) + 1 \in 1..Len(outgoing')
          /\ \A k \in 1..Len(clients) : k \in 1..Len(outgoing')
          /\ \A k \in 1..Len(outgoing') : k \in 1..Len(clients) \/ k = Len(clients) + 1
      BY <1>5, <3>5
    <3>7. \A k \in 1..Len(clients) : /\ outgoing'[k].to = clients[k]
                                     /\ outgoing'[k].news = NewsOf(n, u)
                                     /\ outgoing'[k].meant = {}
      BY <2>4, <3>5
    <3>8. /\ outgoing'[Len(clients) + 1].to = n
          /\ outgoing'[Len(clients) + 1].news = NewsOfAll
          /\ outgoing'[Len(clients) + 1].meant = {}
      BY <3>4, <3>5
    <3> QED
      BY <2>6, <3>5, <3>6, <3>7, <3>8
  <2> QED
    BY <2>5, <2>6
<1>8. \A v \in Users : Gone(v) <=> Gone(v)'
  BY <1>2 DEF Gone
<1>9. \A k \in 1..Len(backlog) : \A g \in Fds : peer[g] # backlog[k]
  BY <1>1 DEF Waiting
<1>12. Connected' /\ PeersDistinct' /\ AllListed'
  <2>1. Connected'
    BY <1>1, <1>2, <1>3, <1>4 DEF Connected
  <2>2. \A g \in Fds : peer[g] # u
    BY <1>3, <1>6, <1>9
  <2>3. PeersDistinct'
    BY <1>1, <1>4, <2>2 DEF PeersDistinct
  <2>4. AllListed'
    <3> SUFFICES ASSUME NEW h \in Open'
                 PROVE  \E k \in 1..Len(clients') : clients'[k] = h
      BY DEF AllListed
    <3>1. CASE h = n
      BY <1>5, <3>1
    <3>2. CASE h # n
      <4>1. h \in Open
        BY <1>4, <3>2 DEF Open
      <4>2. PICK k \in 1..Len(clients) : clients[k] = h
        BY <1>1, <4>1 DEF AllListed
      <4>3. k \in 1..Len(clients')
        BY <1>5
      <4> QED
        BY <1>5, <4>2, <4>3
    <3> QED
      BY <3>1, <3>2
  <2> QED
    BY <2>1, <2>3, <2>4
<1>13. Waiting'
  <2> SUFFICES ASSUME NEW k \in 1..Len(backlog')
               PROVE  /\ link'[backlog'[k]] # "away"
                      /\ \A g \in Fds : peer'[g] # backlog'[k]
                      /\ \A l \in 1..Len(backlog') : l # k => backlog'[l] # backlog'[k]
    BY DEF Waiting
  <2>1. /\ backlog'[k] = backlog[k + 1] /\ k + 1 \in 1..Len(backlog) /\ k + 1 # 1
        /\ backlog[k + 1] \in Users /\ 1 \in 1..Len(backlog)
    BY <1>6
  <2>2. backlog[k + 1] # u
    BY <1>1, <1>3, <2>1 DEF Waiting
  <2>3. link'[backlog'[k]] # "away"
    BY <1>1, <1>2, <2>1 DEF Waiting
  <2>4. \A g \in Fds : peer'[g] # backlog'[k]
    BY <1>4, <1>9, <2>1, <2>2
  <2>5. ASSUME NEW l \in 1..Len(backlog'), l # k
        PROVE  backlog'[l] # backlog'[k]
    <3>1. backlog'[l] = backlog[l + 1] /\ l + 1 \in 1..Len(backlog) /\ l + 1 # k + 1
      BY <1>6, <2>5
    <3> QED
      BY <1>1, <2>1, <3>1 DEF Waiting
  <2> QED
    BY <2>3, <2>4, <2>5
<1>14. SnapshotReady'
  <2> SUFFICES ASSUME NEW g \in tmp_fds, g # sockfd
               PROVE  Ready(g)'
    BY <1>2 DEF SnapshotReady
  <2>1. g \in Open /\ (lines[peer[g]] # <<>> \/ link[peer[g]] # "open")
    BY <1>1 DEF SnapshotReady, Ready
  <2>2. g \in Fds /\ g # n /\ peer'[g] = peer[g] /\ peer[g] \in Users
    BY <1>1, <1>3, <1>4, <2>1 DEF Open, TypeOK
  <2>3. g \in Open' /\ (link'[peer[g]] # "open" <=> link[peer[g]] # "open")
    BY <1>2, <2>1, <2>2 DEF Open
  <2> QED
    BY <1>2, <2>1, <2>2, <2>3 DEF Ready
<1>15. ListCounts' /\ Len(clients') <= 10
  <2>1. u \notin Came /\ Came \subseteq Users
    BY <1>3, <1>6 DEF Came
  <2>2. \A v \in Users \ {u} : v \in Came <=> v \in Came'
    <3> SUFFICES ASSUME NEW v \in Users, v # u
                 PROVE  (\A k \in 1..Len(backlog) : backlog[k] # v)
                          <=> (\A k \in 1..Len(backlog') : backlog'[k] # v)
      BY <1>2 DEF Came
    <3>1. ASSUME NEW k \in 1..Len(backlog), backlog[k] = v
          PROVE  \E l \in 1..Len(backlog') : backlog'[l] = v
      <4>1. k - 1 \in 1..Len(backlog')
        BY <1>3, <1>6, <3>1
      <4>2. backlog'[k - 1] = backlog[(k - 1) + 1] /\ (k - 1) + 1 = k
        BY <1>6, <4>1
      <4> QED
        BY <3>1, <4>1, <4>2
    <3> QED
      BY <1>6, <3>1
  <2>3. u \in Came'
    <3>1. link'[u] # "away"
      BY <1>2, <1>3
    <3>2. \A k \in 1..Len(backlog') : backlog'[k] # u
      BY <1>1, <1>3, <1>6 DEF Waiting
    <3> QED
      BY <1>3, <3>1, <3>2 DEF Came
  <2>4. Came' = Came \cup {u} /\ Came' \subseteq Users
    <3>1. Came' \subseteq Users
      BY DEF Came
    <3> QED
      BY <1>3, <2>1, <2>2, <2>3, <3>1
  <2>5. PICK m \in Pasts : Len(clients) = m + Cardinality(Came)
    BY <1>1 DEF ListCounts
  <2>6. IsFiniteSet(Came) /\ Cardinality(Came) \in Nat
    BY <2>1, Numbers, FS_Subset, FS_CardinalityType
  <2>7. Cardinality(Came') = Cardinality(Came) + 1
    BY <2>1, <2>4, <2>6, FS_AddElement
  <2>8. Cardinality(Came') <= Population
    BY <2>4, Numbers, FS_Subset
  <2>9. m \in Nat /\ m + Population <= 10 /\ Population \in Nat
    BY ChatAssumption
  <2>10. Len(clients') = m + Cardinality(Came')
    BY <1>5, <2>5, <2>6, <2>7, <2>9
  <2>11. Len(clients') <= 10
    BY <2>6, <2>7, <2>8, <2>9, <2>10
  <2> QED
    BY <2>10, <2>11 DEF ListCounts
<1>16. TypeOK'
  BY <1>1, <1>2, <1>4, <1>5, <1>6, <1>7, <1>15 DEF TypeOK
<1>17. WillKnow'
  <2> SUFFICES ASSUME NEW h \in Open', NEW g \in Fds, link[peer'[h]] = "open", h # g
               PROVE  \/ told[peer'[h]][g] = peer'[g]
                      \/ /\ peer'[g] = Nobody
                         /\ told[peer'[h]][g] = Unlisted \/ Skipped(h, g)'
                      \/ \E k \in 1..Len(outgoing') : /\ outgoing'[k].to = h
                                                     /\ outgoing'[k].news[g] # Unsaid
    BY <1>2 DEF WillKnow, Reachable
  <2>1. CASE h = n /\ clients = <<>>
    <3>1. peer'[h] = u
      BY <1>4, <2>1
    <3>2. told[u] = Nothing
      BY <1>1, <1>3, <1>6, <1>9 DEF Untold
    <3>3. Open = {} /\ g # n
      BY <1>1, <2>1 DEF AllListed
    <3>4. peer'[g] = Nobody
      BY <1>4, <3>3 DEF Open
    <3> QED
      BY <3>1, <3>2, <3>4 DEF Nothing
  <2>2. CASE h = n /\ clients # <<>>
    <3>1. NewsOfAll[g] # Unsaid
      <4>1. peer'[g] \in Users \cup {Nobody}
        BY <1>4
      <4> QED
        BY <4>1, Numbers DEF NewsOfAll
    <3> QED
      BY <1>7, <2>2, <3>1
  <2>3. CASE h # n
    <3>1. h \in Open /\ h \in Fds /\ peer'[h] = peer[h] /\ peer[h] \in Users
      BY <1>1, <1>3, <1>4, <2>3 DEF Open, TypeOK
    <3>2. CASE g = n
      <4>1. PICK k \in 1..Len(clients) : clients[k] = h
        BY <1>1, <3>1 DEF AllListed
      <4>2. NewsOf(n, u)[n] # Unsaid
        BY <1>3, NewsOfIs, Numbers
      <4> QED
        BY <1>7, <3>2, <4>1, <4>2
    <3>3. CASE g # n
      <4>1. Len(outgoing) = 0
        BY <1>2
      <4>2. \/ told[peer[h]][g] = peer[g]
            \/ peer[g] = Nobody /\ (told[peer[h]][g] = Unlisted \/ Skipped(h, g))
        BY <1>1, <1>2, <3>1, <4>1 DEF WillKnow, Reachable
      <4>3. Skipped(h, g) => Skipped(h, g)'
        <5> HAVE Skipped(h, g)
        <5>1. g \in Nat /\ g < Len(clients) /\ clients[g + 1] = h
          BY Numbers DEF Skipped
        <5>2. g < Len(clients') /\ g + 1 \in 1..Len(clients)
          BY <1>5, <5>1
        <5> QED
          BY <1>5, <5>1, <5>2 DEF Skipped
      <4> QED
        BY <1>4, <3>1, <3>3, <4>2, <4>3
    <3> QED
      BY <3>2, <3>3
  <2> QED
    BY <2>1, <2>2, <2>3
<1>18. \A g \in Fds : \A v : Right(v, g) => Right(v, g)'
  BY <1>1, <1>3, <1>4, <1>8, RightStays
<1>19. NewsRight'
  <2> SUFFICES ASSUME NEW k \in 1..Len(outgoing'), NEW g \in Fds
               PROVE  \/ outgoing'[k].news[g] = Unsaid
                      \/ outgoing'[k].news[g] = peer'[g]
                      \/ /\ outgoing'[k].news[g] = Unlisted
                         /\ peer'[g] = Nobody \/ g = outgoing'[k].to
    BY DEF NewsRight
  <2>1. CASE k \in 1..Len(clients)
    <3>1. outgoing'[k].news = NewsOf(n, u)
      BY <1>7, <2>1
    <3> QED
      BY <1>3, <1>4, <3>1, NewsOfIs
  <2>2. CASE k = Len(clients) + 1 /\ clients # <<>>
    <3>1. outgoing'[k].news = NewsOfAll /\ outgoing'[k].to = n
      BY <1>7, <2>2
    <3>2. CASE g \in Range(clients)
      BY <3>1, <3>2 DEF NewsOfAll
    <3>3. CASE g \notin Range(clients)
      <4>1. g \notin Open
        BY <1>1, <1>5, <3>3 DEF AllListed, Range
      <4>2. g = n \/ peer'[g] = Nobody
        BY <1>4, <4>1 DEF Open
      <4> QED
        BY <3>1, <3>3, <4>2 DEF NewsOfAll
    <3> QED
      BY <3>2, <3>3
  <2> QED
    BY <1>7, <2>1, <2>2
<1>20. Untold' /\ PendingMeant'
  <2>1. PendingMeant'
    <3>1. \A k \in 1..Len(outgoing') : outgoing'[k].meant = {}
      BY <1>7
    <3> QED
      BY <3>1 DEF PendingMeant
  <2>2. Untold'
    <3> SUFFICES ASSUME NEW v \in Users, ~Reachable(v) \/ (\A g \in Fds : peer'[g] # v)
                 PROVE  told[v] = Nothing
      BY <1>2 DEF Untold, Reachable
    <3>1. ~Reachable(v) \/ (\A g \in Fds : peer[g] # v)
      BY <1>3, <1>4, Numbers
    <3> QED
      BY <1>1, <3>1 DEF Untold
  <2> QED
    BY <2>1, <2>2
<1>21. ToldRight' /\ SeenRight'
  BY <1>1, <1>2, <1>18 DEF ToldRight, SeenRight, Right
<1>22. MeantRight' /\ LinesBounded'
  <2>1. \A v \in Users : \A k \in 1..Len(lines[v]) : lines[v][k].dest \in Fds
    BY <1>1, TextsKept
  <2>2. MeantRight'
    BY <1>1, <1>2, <1>18, <2>1 DEF MeantRight, Right
  <2> QED
    BY <1>1, <1>2, <2>2 DEF LinesBounded
<1> QED
  BY <1>12, <1>13, <1>14, <1>15, <1>16, <1>17, <1>19, <1>20, <1>21, <1>22
     DEF Inv, Tables, Knowledge, News

\* What user u knows once s has reached it, and what sending s to it does.
Learned(s, u) == [g \in Fds |-> IF s.news[g] = Unsaid THEN told[u][g] ELSE s.news[g]]
SendEffect(s, u) ==
    \/ u = Nobody /\ UNCHANGED <<alive, link, unread, told>>
    \/ /\ u \in Users /\ Reachable(u) /\ UNCHANGED <<alive, link>>
       /\ unread[u] < QueueCap /\ unread' = [unread EXCEPT ![u] = unread[u] + 1]
       /\ told' = [told EXCEPT ![u] = Learned(s, u)]
    \/ /\ u \in Users /\ link[u] \in {"fin", "reset"}
       /\ link' = [link EXCEPT ![u] = "broken"] /\ UNCHANGED <<alive, unread, told>>
    \/ /\ u \in Users /\ alive' = FALSE /\ ~Reachable(u)
       /\ UNCHANGED <<link, unread, told>>

\* One send() reaches the user it is for, breaks a link that its user closed, ends
\* the server, or does nothing.
LEMMA SendDoes ==
    ASSUME Inv, Send, NEW s, s = outgoing[1], NEW u, u = peer[s.to]
    PROVE  /\ UNCHANGED <<tmp_fds, clients, peer, backlog, lines, seen>>
           /\ alive
           /\ outgoing \in Seq(Messages) /\ outgoing' \in Seq(Messages)
           /\ Len(outgoing) \in Nat \ {0} /\ Len(outgoing') = Len(outgoing) - 1
           /\ \A k \in 1..Len(outgoing') : /\ outgoing'[k] = outgoing[k + 1]
                                           /\ k + 1 \in 1..Len(outgoing)
           /\ s.to \in Fds /\ u \in Users \cup {Nobody}
           /\ s.news \in [Fds -> Users \cup {Nobody, Unlisted, Unsaid}]
           /\ SendEffect(s, u)
<1>1. TypeOK /\ outgoing # <<>> /\ outgoing' = Tail(outgoing)
  BY DEF Inv, Tables, Send
<1>2. outgoing \in Seq(Messages)
  BY <1>1 DEF TypeOK
<1>3. /\ Head(outgoing) = s /\ outgoing' \in Seq(Messages)
      /\ Len(outgoing) \in Nat \ {0} /\ Len(outgoing') = Len(outgoing) - 1
      /\ \A k \in 1..Len(outgoing) - 1 : outgoing'[k] = outgoing[k + 1]
  BY <1>1, <1>2, HeadTailStay
<1>4. \A k \in 1..Len(outgoing') : /\ outgoing'[k] = outgoing[k + 1]
                                  /\ k + 1 \in 1..Len(outgoing)
  BY <1>3
<1>5. /\ s.to \in Fds
      /\ s.news \in [Fds -> Users \cup {Nobody, Unlisted, Unsaid}]
  <2>1. 1 \in 1..Len(outgoing)
    BY <1>3
  <2> QED
    BY <1>1, <2>1, MessagesKept
<1>6. u \in Users \cup {Nobody}
  BY <1>1, <1>5 DEF TypeOK
<1>7. peer[Head(outgoing).to] = u
  BY <1>3
<1>8. \/ u = Nobody /\ UNCHANGED <<alive, link, unread, told>>
      \/ /\ u # Nobody /\ Reachable(u)
         /\ unread[u] < QueueCap
         /\ Arrives(u, s)
      \/ /\ u # Nobody /\ link[u] \in {"fin", "reset"}
         /\ link' = [link EXCEPT ![u] = "broken"]
         /\ UNCHANGED <<alive, unread, told>>
      \/ /\ u # Nobody /\ link[u] = "broken"
         /\ alive' = FALSE
         /\ UNCHANGED <<link, unread, told>>
  BY <1>3, <1>7 DEF Send
<1>9. /\ UNCHANGED <<tmp_fds, clients, peer, backlog, lines, seen>> /\ alive
  BY DEF Send
<1> QED
  BY <1>2, <1>3, <1>4, <1>5, <1>6, <1>8, <1>9 DEF SendEffect, Learned, Arrives, Reachable

LEMMA SendKeeps ==
    ASSUME Inv, Send
    PROVE  Inv'
<1>1. /\ TypeOK /\ Tables /\ PeersDistinct
      /\ ToldRight /\ SeenRight /\ MeantRight /\ LinesBounded
      /\ NewsRight /\ WillKnow /\ Untold /\ PendingMeant
  BY DEF Inv, Tables, Knowledge, News
<1> PICK s : s = outgoing[1]
  OBVIOUS
<1> PICK u : u = peer[s.to]
  OBVIOUS
<1>2. /\ UNCHANGED <<tmp_fds, clients, peer, backlog, lines, seen>>
      /\ alive
      /\ outgoing \in Seq(Messages) /\ outgoing' \in Seq(Messages)
      /\ Len(outgoing) \in Nat \ {0} /\ Len(outgoing') = Len(outgoing) - 1
      /\ \A k \in 1..Len(outgoing') : /\ outgoing'[k] = outgoing[k + 1]
                                      /\ k + 1 \in 1..Len(outgoing)
      /\ s.to \in Fds /\ u \in Users \cup {Nobody}
      /\ s.news \in [Fds -> Users \cup {Nobody, Unlisted, Unsaid}]
  BY SendDoes
<1>3. SendEffect(s, u)
  BY SendDoes
<1> DEFINE fresh == Learned(s, u)
<1>4. u \in Users =>
        /\ fresh \in [Fds -> Users \cup {Nobody, Unlisted}]
        /\ \A g \in Fds : fresh[g] = IF s.news[g] = Unsaid THEN told[u][g] ELSE s.news[g]
  BY <1>1, <1>2 DEF TypeOK, Learned
<1>5. /\ u \in Users /\ Reachable(u) /\ told' = [told EXCEPT ![u] = fresh]
      \/ told' = told
  BY <1>3 DEF SendEffect
<1> HIDE DEF fresh
<1>6. /\ told' \in [Users -> [Fds -> Users \cup {Nobody, Unlisted}]]
      /\ \A v \in Users \ {u} : told'[v] = told[v]
      /\ u \in Users => told'[u] = fresh \/ told'[u] = told[u]
  <2>1. told \in [Users -> [Fds -> Users \cup {Nobody, Unlisted}]]
    BY <1>1 DEF TypeOK
  <2>2. CASE told' = told
    BY <2>1, <2>2
  <2>3. CASE u \in Users /\ told' = [told EXCEPT ![u] = fresh]
    BY <1>4, <2>1, <2>3
  <2> QED
    BY <1>5, <2>2, <2>3
<1>7. /\ link' \in [Users -> {"away", "open", "fin", "reset", "broken"}]
      /\ \A v \in Users : link'[v] = link[v] \/ (link[v] \in {"fin", "reset"} /\ link'[v] = "broken")
  BY <1>1, <1>3 DEF TypeOK, SendEffect
<1>8. TypeOK'
  <2>1. unread' \in [Users -> 0..QueueCap]
    BY <1>1, <1>3, ChatAssumption DEF TypeOK, SendEffect
  <2>2. alive' \in BOOLEAN
    BY <1>2, <1>3 DEF SendEffect
  <2> QED
    BY <1>1, <1>2, <1>6, <1>7, <2>1, <2>2 DEF TypeOK
<1>9. /\ \A v \in Users : link'[v] = link[v] \/ (link[v] # "away" /\ Gone(v)')
      /\ \A v \in Users : Gone(v) <=> Gone(v)'
      /\ \A v \in Users : link'[v] = "open" <=> link[v] = "open"
  BY <1>7 DEF Gone
<1>10. Tables'
  BY <1>1, <1>2, <1>8, <1>9, TablesStay
<1>11. \A v, g : Right(v, g) <=> Right(v, g)'
  BY <1>2, <1>9 DEF Right
<1>12. \A g \in Fds : \/ s.news[g] = Unsaid
                      \/ s.news[g] = peer[g]
                      \/ s.news[g] = Unlisted /\ (peer[g] = Nobody \/ g = s.to)
  <2>1. 1 \in 1..Len(outgoing)
    BY <1>2
  <2> QED
    BY <1>1, <2>1 DEF NewsRight
<1>13. ToldRight' /\ SeenRight' /\ MeantRight' /\ LinesBounded'
  <2>1. ToldRight'
    <3> SUFFICES ASSUME NEW v \in Users, NEW g \in Fds
                 PROVE  Right(told'[v][g], g)
      BY <1>11 DEF ToldRight
    <3>1. CASE told'[v] = told[v]
      BY <1>1, <3>1 DEF ToldRight
    <3>2. CASE v = u /\ told'[u] = fresh
      <4>1. \/ fresh[g] = told[u][g]
            \/ fresh[g] = peer[g]
            \/ fresh[g] = Unlisted
        BY <1>4, <1>12, <3>2
      <4> QED
        BY <1>1, <3>2, <4>1, Numbers DEF ToldRight, Right
    <3> QED
      BY <1>6, <3>1, <3>2
  <2> QED
    BY <1>1, <1>2, <1>11, <2>1 DEF SeenRight, MeantRight, LinesBounded
<1>14. NewsRight'
  BY <1>1, <1>2 DEF NewsRight
<1>15. Untold'
  <2> SUFFICES ASSUME NEW v \in Users, ~Reachable(v) \/ (\A g \in Fds : peer[g] # v)
               PROVE  told'[v] = Nothing
    BY <1>2, <1>9 DEF Untold, Reachable
  <2>1. told[v] = Nothing
    BY <1>1 DEF Untold
  <2>2. v # u \/ ~Reachable(u)
    BY <1>2
  <2> QED
    BY <1>5, <1>6, <2>1, <2>2
<1>16. PendingMeant'
  BY <1>1, <1>2, <1>11 DEF PendingMeant
<1>17. WillKnow'
  <2> SUFFICES ASSUME alive', NEW f \in Open, NEW g \in Fds, link[peer[f]] = "open", f # g
               PROVE  \/ told'[peer[f]][g] = peer[g]
                      \/ peer[g] = Nobody /\ (told'[peer[f]][g] = Unlisted \/ Skipped(f, g))
                      \/ \E k \in 1..Len(outgoing') : /\ outgoing'[k].to = f
                                                     /\ outgoing'[k].news[g] # Unsaid
    <3>1. \A f \in Open : peer[f] \in Users
      BY <1>1 DEF TypeOK, Open
    <3> QED
      BY <1>2, <1>9, <3>1 DEF WillKnow, Reachable, Skipped, Open
  <2>1. peer[f] \in Users /\ f \in Fds /\ peer[f] # Nobody
    BY <1>1 DEF TypeOK, Open
  <2>2. \/ told[peer[f]][g] = peer[g]
        \/ peer[g] = Nobody /\ (told[peer[f]][g] = Unlisted \/ Skipped(f, g))
        \/ \E k \in 1..Len(outgoing) : /\ outgoing[k].to = f
                                      /\ outgoing[k].news[g] # Unsaid
    BY <1>1, <1>2 DEF WillKnow, Reachable
  <2>3. CASE peer[f] = u
    <3>1. f = s.to
      BY <1>1, <1>2, <2>1, <2>3 DEF PeersDistinct
    <3>2. told'[u] = fresh
      <4>1. u \in Users /\ told' = [told EXCEPT ![u] = fresh]
        BY <1>3, <2>1, <2>3 DEF Reachable, fresh, SendEffect
      <4> QED
        BY <1>1, <4>1 DEF TypeOK
    <3>3. CASE s.news[g] # Unsaid
      <4>1. fresh[g] = s.news[g]
        BY <1>4, <2>1, <2>3, <3>3
      <4> QED
        BY <1>12, <2>3, <3>1, <3>2, <3>3, <4>1
    <3>4. CASE s.news[g] = Unsaid
      <4>1. told'[u][g] = told[u][g]
        BY <1>4, <2>1, <2>3, <3>2, <3>4
      <4>2. ASSUME NEW k \in 1..Len(outgoing), outgoing[k].to = f, outgoing[k].news[g] # Unsaid
            PROVE  \E l \in 1..Len(outgoing') : /\ outgoing'[l].to = f
                                               /\ outgoing'[l].news[g] # Unsaid
        <5>1. k # 1
          BY <3>4, <4>2
        <5>2. k - 1 \in 1..Len(outgoing') /\ (k - 1) + 1 = k
          BY <1>2, <5>1
        <5>3. outgoing'[k - 1] = outgoing[(k - 1) + 1]
          BY <1>2, <5>2
        <5> QED
          BY <4>2, <5>2, <5>3
      <4> QED
        BY <2>2, <2>3, <4>1, <4>2
    <3> QED
      BY <3>3, <3>4
  <2>4. CASE peer[f] # u
    <3>1. told'[peer[f]] = told[peer[f]]
      BY <1>6, <2>1, <2>4
    <3>2. ASSUME NEW k \in 1..Len(outgoing), outgoing[k].to = f, outgoing[k].news[g] # Unsaid
          PROVE  \E l \in 1..Len(outgoing') : /\ outgoing'[l].to = f
                                             /\ outgoing'[l].news[g] # Unsaid
      <4>1. k # 1
        BY <2>4, <3>2
      <4>2. k - 1 \in 1..Len(outgoing') /\ (k - 1) + 1 = k
        BY <1>2, <4>1
      <4>3. outgoing'[k - 1] = outgoing[(k - 1) + 1]
        BY <1>2, <4>2
      <4> QED
        BY <3>2, <4>2, <4>3
    <3> QED
      BY <2>2, <3>1, <3>2
  <2> QED
    BY <2>3, <2>4
<1> QED
  BY <1>10, <1>13, <1>14, <1>15, <1>16, <1>17 DEF Inv, Knowledge, News

-----------------------------------------------------------------------------
(* The theorems *)

LEMMA NextInv == Inv /\ [Next]_vars => Inv'
<1> SUFFICES ASSUME Inv, [Next]_vars
             PROVE  Inv'
  OBVIOUS
<1>1. ASSUME NEW u \in Users, Connect(u)
      PROVE  Inv'
  BY <1>1, ConnectKeeps
<1>2. ASSUME NEW u \in Users, Show(u)
      PROVE  Inv'
  BY <1>2, ShowKeeps
<1>3. ASSUME NEW u \in Users, Exit(u)
      PROVE  Inv'
  BY <1>3, ExitKeeps
<1>4. ASSUME NEW u \in Users, NEW f \in Fds, Type(u, f)
      PROVE  Inv'
  BY <1>4, TypeKeeps
<1>5. CASE Select
  BY <1>5, SelectKeeps
<1>11. CASE Send
  BY <1>11, SendKeeps
<1>6. CASE Accept
  BY <1>6, AcceptKeeps
<1>7. ASSUME NEW f \in Fds, HangUp(f)
      PROVE  Inv'
  BY <1>7, HangUpKeeps
<1>8. ASSUME NEW f \in Fds, Die(f)
      PROVE  Inv'
  BY <1>8, DieKeeps
<1>9. ASSUME NEW f \in Fds, Relay(f)
      PROVE  Inv'
  BY <1>9, RelayKeeps
<1>10. CASE UNCHANGED vars
  <2>1. UNCHANGED <<alive, tmp_fds, clients, outgoing, peer, backlog, link, lines, unread, told, seen>>
    BY <1>10 DEF vars, serverVars
  <2>2. Tables'
    <3>1. TypeOK'
      BY <2>1 DEF Inv, Tables, TypeOK
    <3>2. Connected' /\ PeersDistinct' /\ Waiting' /\ SnapshotReady'
      BY <2>1 DEF Inv, Tables, Connected, PeersDistinct, Waiting, SnapshotReady, Ready, Open
    <3>3. AllListed' /\ ListCounts'
      BY <2>1 DEF Inv, Tables, AllListed, ListCounts, Came, Open
    <3> QED
      BY <3>1, <3>2, <3>3 DEF Tables
  <2>3. News'
    BY <2>1, NewsStay DEF Inv, Knowledge, News
  <2>4. Knowledge'
    BY <2>1, <2>3 DEF Inv, Knowledge, ToldRight, SeenRight, MeantRight, LinesBounded, Right, Gone
  <2> QED
    BY <2>2, <2>4 DEF Inv
<1> QED
  BY <1>1, <1>2, <1>3, <1>4, <1>5, <1>6, <1>7, <1>8, <1>9, <1>10, <1>11 DEF Next, ServerStep

\* The inductive invariant: the tables of the server agree with the kernel's, and
\* what the users know is true or out of date only about a user that left.
THEOREM ChatInvariance == Spec => []Inv
  BY InitInv, NextInv, PTL DEF Spec

\* Every variable keeps its type; clients[] is never written past its ten entries.
THEOREM ChatTypeCorrect == Spec => []TypeOK
<1>1. Inv => TypeOK
  BY DEF Inv, Tables
<1> QED
  BY <1>1, ChatInvariance, PTL

\* The notices of server.c, sent by list and by index, leave every connected user
\* knowing every other's number once they are sent, however descriptors are used
\* again and whoever's full queue they waited for.
THEOREM ChatKnowEachOther == Spec => []KnowEachOther
<1>1. Inv => KnowEachOther
  <2> SUFFICES ASSUME WillKnow, outgoing = <<>>
               PROVE  KnowEachOther
    BY DEF Inv, Knowledge, News, KnowEachOther
  <2>1. Len(outgoing) = 0
    OBVIOUS
  <2> QED
    BY <2>1 DEF WillKnow, KnowEachOther
<1> QED
  BY <1>1, ChatInvariance, PTL

\* Where users wait for the server to read a text before they type another, a
\* text that goes to somebody else was meant for a user that left.
THEOREM ChatOnlyMeant == Ahead = 1 => (Spec => []OnlyMeant)
<1> SUFFICES ASSUME Ahead = 1
             PROVE  Spec => []OnlyMeant
  OBVIOUS
<1>1. Inv => OnlyMeant
  <2> SUFFICES ASSUME Inv, NEW k \in 1..Len(outgoing),
                      NEW u \in outgoing[k].meant, u # Nobody, u # peer[outgoing[k].to]
               PROVE  ~Reachable(u)
    BY DEF OnlyMeant
  <2>1. u \in Users
    BY MessagesKept DEF Inv, Tables
  <2>2. Right(u, outgoing[k].to)
    BY DEF Inv, Knowledge, News, PendingMeant
  <2> QED
    BY <2>1, <2>2 DEF Right, Gone, Reachable
<1> QED
  BY <1>1, ChatInvariance, PTL
=============================================================================
