---------------------- MODULE EdenMatchmaking_proofs ----------------------
(***************************************************************************)
(* Proofs about EdenMatchmaking, for any players, parties, lobby sizes and *)
(* numbers of entries: who is told of a match had entered, the tables of   *)
(* the queue agree, and what TryFormLobby forms is a lobby of whole        *)
(* parties without a player all ledgers ban.                               *)
(***************************************************************************)
EXTENDS EdenMatchmaking, EdenFolds, TLAPS

\* What the actions of one node read of the per-node variables.
Shape ==
    /\ entries \in [Nodes -> Nat]
    /\ DOMAIN inQueue = Nodes
    /\ DOMAIN accepted = Nodes
    /\ DOMAIN best = Nodes
    /\ DOMAIN matched = Nodes

\* Each stage a proposal passes on its way to the game is reached by a node
\* that has entered: NeverMatchedUnasked alone says nothing of best.
StagesFollowEntry ==
    \A n \in Nodes :
        (\/ inQueue[n] = TRUE
         \/ accepted[n] # {}
         \/ best[n] # None
         \/ matched[n] # None) => entries[n] > 0

Inv == Shape /\ StagesFollowEntry

\* The invariant is inductive: one step per action, as each moves a proposal
\* one stage on, or queues a node.
LEMMA Inductive == Inv /\ [Next]_vars => Inv'
<1> SUFFICES ASSUME Inv, [Next]_vars PROVE Inv'
  OBVIOUS
<1> USE DEF Inv, Shape, StagesFollowEntry, queueVars, lobbyVars
<1>1. ASSUME NEW n \in Nodes, NEW party \in Parties[n], EnterMatchmaking(n, party)
      PROVE  Inv'
  BY <1>1, SMT DEF EnterMatchmaking
<1>2. ASSUME NEW n \in Nodes, LeaveMatchmaking(n) PROVE Inv'
  BY <1>2, SMT DEF LeaveMatchmaking, LeftQueue
<1>3. ASSUME NEW n \in Nodes, NEW t \in queueTopic[n], ReceiveTicket(n, t)
      PROVE  Inv'
  BY <1>3, SMT DEF ReceiveTicket
<1>4. ASSUME NEW n \in Nodes, TryFormLobby(n) PROVE Inv'
  BY <1>4, SMT DEF TryFormLobby
<1>5. ASSUME NEW n \in Nodes, NEW p \in proposals[n], CheckProposal(n, p)
      PROVE  Inv'
  BY <1>5, SMT DEF CheckProposal
<1>6. ASSUME NEW n \in Nodes, NEW p \in accepted[n], KeepProposal(n, p)
      PROVE  Inv'
  <2>1. entries[n] > 0
    BY SMT
  <2>. QED
    BY <1>6, <2>1, SMT DEF KeepProposal
<1>7. ASSUME NEW n \in Nodes, LockInLobby(n) PROVE Inv'
  <2>1. entries[n] > 0 /\ entries' = entries
    BY <1>7, SMT DEF LockInLobby, LeftQueue
  <2>. QED
    BY <1>7, <2>1, SMT DEF LockInLobby, LeftQueue
<1>8. CASE UNCHANGED vars
  BY <1>8, SMT DEF vars
<1>. QED
  BY <1>1, <1>2, <1>3, <1>4, <1>5, <1>6, <1>7, <1>8 DEF Next

\* HandleLobbyProposal's inQueue check: whoever lists a player in a party, the
\* player's own game hears of a match only after its own EnterMatchmaking.
THEOREM NobodyMatchedUnasked == Spec => []NeverMatchedUnasked
<1>1. Init => Inv
  BY SMT DEF Init, Inv, Shape, StagesFollowEntry
<1>2. Inv => NeverMatchedUnasked
  BY DEF Inv, StagesFollowEntry, NeverMatchedUnasked
<1>. QED
  BY <1>1, <1>2, Inductive, PTL DEF Spec
-----------------------------------------------------------------------------
(* The queue state of a node: inQueue, myCurrentTicket and its entries.     *)

QueueShape ==
    /\ inQueue \in [Nodes -> BOOLEAN]
    /\ DOMAIN myTicket = Nodes /\ DOMAIN entries = Nodes

QueueInv == QueueShape /\ QueueStateAgrees

\* Leaving clears what the node has in the queue, and touches no other node.
LEMMA LeftQueueAgrees ==
  ASSUME QueueInv, NEW n \in Nodes, LeftQueue(n)
  PROVE  QueueInv'
<1>1. QueueShape'
  BY DEF QueueInv, QueueShape, LeftQueue
<1>2. ASSUME NEW m \in Nodes
      PROVE  /\ inQueue'[m] => inQueue[m] /\ m # n
             /\ m # n => inQueue'[m] = inQueue[m] /\ myTicket'[m] = myTicket[m]
             /\ myTicket'[n] = None
             /\ entries' = entries
  BY DEF QueueInv, QueueShape, LeftQueue
<1>3. QueueStateAgrees'
  BY <1>2 DEF QueueInv, QueueStateAgrees
<1> QED BY <1>1, <1>3 DEF QueueInv

LEMMA QueueInductive == QueueInv /\ [Next]_vars => QueueInv'
<1> SUFFICES ASSUME QueueInv, [Next]_vars PROVE QueueInv'
  OBVIOUS
<1>1. ASSUME NEW n \in Nodes, NEW party \in Parties[n], EnterMatchmaking(n, party)
      PROVE  QueueInv'
  <2>1. QueueShape'
    BY <1>1 DEF EnterMatchmaking, QueueInv, QueueShape
  <2>2. /\ inQueue' = [inQueue EXCEPT ![n] = TRUE]
        /\ entries' = [entries EXCEPT ![n] = entries[n] + 1]
        /\ myTicket' = [myTicket EXCEPT ![n] =
              [leader |-> n, number |-> entries[n] + 1, party |-> party]]
    BY <1>1 DEF EnterMatchmaking
  <2>3. QueueStateAgrees'
    BY <2>2 DEF QueueInv, QueueShape, QueueStateAgrees
  <2> QED BY <2>1, <2>3 DEF QueueInv
<1>2. ASSUME NEW n \in Nodes, LeaveMatchmaking(n) PROVE QueueInv'
  BY <1>2, LeftQueueAgrees DEF LeaveMatchmaking
<1>3. ASSUME NEW n \in Nodes, NEW t \in queueTopic[n], ReceiveTicket(n, t)
      PROVE  QueueInv'
  BY <1>3 DEF ReceiveTicket, QueueInv, QueueShape, QueueStateAgrees
<1>4. ASSUME NEW n \in Nodes, TryFormLobby(n) PROVE QueueInv'
  BY <1>4 DEF TryFormLobby, QueueInv, QueueShape, QueueStateAgrees
<1>5. ASSUME UNCHANGED queueVars PROVE QueueInv'
  BY <1>5 DEF queueVars, QueueInv, QueueShape, QueueStateAgrees
<1>6. ASSUME NEW n \in Nodes, NEW p \in proposals[n], CheckProposal(n, p)
      PROVE  QueueInv'
  BY <1>5, <1>6 DEF CheckProposal
<1>7. ASSUME NEW n \in Nodes, NEW p \in accepted[n], KeepProposal(n, p)
      PROVE  QueueInv'
  BY <1>5, <1>7 DEF KeepProposal
<1>8. ASSUME NEW n \in Nodes, LockInLobby(n) PROVE QueueInv'
  BY <1>5, <1>8, LeftQueueAgrees DEF LockInLobby
<1>9. CASE UNCHANGED vars
  BY <1>5, <1>9 DEF vars
<1> QED
  BY <1>1, <1>2, <1>3, <1>4, <1>6, <1>7, <1>8, <1>9 DEF Next

\* The ticket a node keeps publishing is that of its last entry, and none once
\* it is out of the queue: no call, timer, search or topic message takes
\* inQueue, myCurrentTicket and the entries made apart.
THEOREM QueueConsistent == Spec => []QueueStateAgrees
<1>1. Init => QueueInv
  BY DEF Init, QueueInv, QueueShape, QueueStateAgrees
<1>2. QueueInv => QueueStateAgrees
  BY DEF QueueInv
<1> QED BY <1>1, <1>2, QueueInductive, PTL DEF Spec
-----------------------------------------------------------------------------
(* Lobbies.                                                                *)

\* sort.Strings only changes the order.
LEMMA SortedPermutes ==
    ASSUME NEW s \in Seq(Nat)
    PROVE  /\ Sorted(s) \in Seq(ToSet(s))
           /\ Len(Sorted(s)) = Len(s)
           /\ ToSet(Sorted(s)) = ToSet(s)
<1> DEFINE Least(i, p) == /\ UpTo(s, p) >= i
                          /\ \A q \in ToSet(s) : UpTo(s, q) >= i => p <= q
           D(p) == {i \in DOMAIN s : s[i] <= p}
<1>1. DOMAIN s = 1 .. Len(s) /\ Len(s) \in Nat /\ ToSet(s) \subseteq Nat
      /\ \A i \in DOMAIN s : s[i] \in ToSet(s) /\ s[i] \in Nat
  BY DEF ToSet
<1>2. IsFiniteSet(DOMAIN s) /\ Cardinality(DOMAIN s) = Len(s)
  <2>1. 1 \in Int /\ Len(s) \in Int
    BY <1>1
  <2>2. IsFiniteSet(1 .. Len(s)) /\ Cardinality(1 .. Len(s)) = IF 1 > Len(s) THEN 0 ELSE Len(s) - 1 + 1
    BY <2>1, FS_Interval, Zenon
  <2> QED BY <2>2, <1>1
<1>3. ASSUME NEW p \in ToSet(s)
      PROVE  /\ D(p) \subseteq DOMAIN s /\ IsFiniteSet(D(p))
             /\ UpTo(s, p) = Cardinality(D(p)) /\ UpTo(s, p) \in Nat
             /\ UpTo(s, p) \in 0 .. Len(s)
             /\ UpTo(s, p) # 0
  <2>1. D(p) \subseteq DOMAIN s
    OBVIOUS
  <2>2. IsFiniteSet(D(p)) /\ Cardinality(D(p)) \in Nat /\ Cardinality(D(p)) <= Len(s)
    BY <2>1, <1>2, FS_Subset, FS_CardinalityType
  <2>3. UpTo(s, p) = Cardinality(D(p))
    BY DEF UpTo
  <2>4. PICK i \in DOMAIN s : s[i] = p
    BY DEF ToSet
  <2>5. i \in D(p)
    BY <2>4, <1>1
  <2>6. Cardinality(D(p)) # 0
    BY <2>2, <2>5, FS_EmptySet
  <2> QED BY <2>1, <2>2, <2>3, <2>6
<1>4. ASSUME NEW i \in DOMAIN s PROVE \E p \in ToSet(s) : Least(i, p)
  <2> DEFINE T == {p \in ToSet(s) : UpTo(s, p) >= i}
  <2>1. PICK j \in DOMAIN s : \A k \in DOMAIN s : s[k] <= s[j]
    <3> DEFINE I == DOMAIN s
    <3>1. IsFiniteSet(I) /\ I # {} /\ \A k \in I : s[k] \in Int
      BY <1>1, <1>2
    <3> HIDE DEF I
    <3>2. \E j \in I : \A k \in I : s[k] <= s[j]
      BY <3>1, HighestOf, Zenon
    <3> QED BY <3>2 DEF I
  <2>2. D(s[j]) = DOMAIN s
    BY <2>1
  <2>3. s[j] \in T
    BY <2>2, <1>1, <1>2, <1>3
  <2>4. T \in SUBSET Nat /\ T # {}
    BY <2>3, <1>1
  <2>5. PICK p \in T : \A q \in T : p <= q
    BY <2>4, LeastNatural, Zenon
  <2> QED BY <2>5
<1>5. ASSUME NEW i \in DOMAIN s
      PROVE  Sorted(s)[i] \in ToSet(s) /\ Least(i, Sorted(s)[i])
  <2>1. Sorted(s)[i] = CHOOSE p \in ToSet(s) : Least(i, p)
    BY DEF Sorted
  <2> HIDE DEF Least
  <2> QED BY <2>1, <1>4
<1>6. DOMAIN Sorted(s) = DOMAIN s
  BY DEF Sorted
<1>7. Sorted(s) = [i \in 1 .. Len(s) |-> Sorted(s)[i]]
  BY <1>1 DEF Sorted
<1>8. Sorted(s) \in Seq(ToSet(s)) /\ Len(Sorted(s)) = Len(s)
  BY <1>1, <1>5, <1>7
<1>9. ASSUME NEW p \in ToSet(s) PROVE \E i \in DOMAIN s : Sorted(s)[i] = p
  <2> DEFINE i == UpTo(s, p)
             q == Sorted(s)[i]
  <2>1. i \in DOMAIN s /\ i \in Nat
    <3>1. i \in 0 .. Len(s) /\ i # 0
      BY <1>3
    <3> HIDE DEF i
    <3> QED BY <3>1, <1>1
  <2>2. q \in ToSet(s) /\ UpTo(s, q) >= i /\ q <= p
    BY <2>1, <1>5
  <2>3. ASSUME q < p PROVE FALSE
    <3>1. p \in Nat /\ q \in Nat
      BY <1>1, <2>2
    <3>2. PICK j \in DOMAIN s : s[j] = p
      BY DEF ToSet
    <3>3. D(q) \subseteq D(p) /\ j \in D(p) /\ j \notin D(q)
      BY <3>1, <3>2, <1>1, <2>2, <2>3
    <3>4. D(q) \subseteq D(p) \ {j} /\ D(q) # D(p)
      BY <3>3
    <3> DEFINE Q == D(q)
               P == D(p)
    <3>5. IsFiniteSet(P) /\ Q \in SUBSET P /\ Q # P
      BY <3>4, <1>3
    <3>6. UpTo(s, q) = Cardinality(Q) /\ UpTo(s, p) = Cardinality(P)
          /\ UpTo(s, q) \in Nat /\ UpTo(s, p) \in Nat
      <4>1. ASSUME NEW x \in ToSet(s)
            PROVE  UpTo(s, x) = Cardinality(D(x)) /\ UpTo(s, x) \in Nat
        BY <1>3, Zenon
      <4>2. q \in ToSet(s)
        BY <2>2
      <4> HIDE DEF D, q, i
      <4> QED BY <4>1, <4>2
    <3>7. UpTo(s, q) >= UpTo(s, p)
      BY <2>2
    <3> HIDE DEF Q, P
    <3>8. Cardinality(Q) <= Cardinality(P) /\ (Cardinality(Q) = Cardinality(P) => Q = P)
      BY <3>5, FS_Subset
    <3> QED BY <3>5, <3>6, <3>7, <3>8
  <2>4. q = p
    <3>1. p \in Nat /\ q \in Nat
      BY <1>1, <2>2
    <3> QED BY <3>1, <2>2, <2>3
  <2> QED BY <2>1, <2>4
<1>10. ToSet(Sorted(s)) = {Sorted(s)[i] : i \in DOMAIN s}
  BY <1>6 DEF ToSet
<1>11. ToSet(Sorted(s)) \subseteq ToSet(s)
  BY <1>10, <1>5
<1>12. ToSet(s) \subseteq ToSet(Sorted(s))
  BY <1>10, <1>9
<1> QED BY <1>8, <1>11, <1>12
-----------------------------------------------------------------------------
(* What a formed lobby consists of.                                        *)

\* Sequences of players made of whole parties of tickets in T.
WholeParties(T) ==
    {w \in Seq(Players) :
        \A p \in ToSet(w) :
            \E t \in T : p \in ToSet(t.party) /\ ToSet(t.party) \subseteq ToSet(w)}

\* The elements of a concatenation.
LEMMA Concatenated ==
    ASSUME NEW S, NEW u \in Seq(S), NEW v \in Seq(S)
    PROVE  /\ u \o v \in Seq(S) /\ Len(u \o v) = Len(u) + Len(v)
           /\ ToSet(u \o v) = ToSet(u) \cup ToSet(v)
<1>1. u \o v \in Seq(S) /\ Len(u \o v) = Len(u) + Len(v)
  OBVIOUS
<1>2. /\ DOMAIN u = 1 .. Len(u) /\ DOMAIN v = 1 .. Len(v)
      /\ DOMAIN (u \o v) = 1 .. Len(u) + Len(v)
      /\ Len(u) \in Nat /\ Len(v) \in Nat
  OBVIOUS
<1>3. ASSUME NEW i \in DOMAIN (u \o v) PROVE (u \o v)[i] \in ToSet(u) \cup ToSet(v)
  <2>1. CASE i <= Len(u)
    <3>1. i \in DOMAIN u /\ (u \o v)[i] = u[i]
      BY <1>2, <2>1
    <3> QED BY <3>1 DEF ToSet
  <2>2. CASE ~ i <= Len(u)
    <3>1. i - Len(u) \in DOMAIN v /\ (u \o v)[i] = v[i - Len(u)]
      BY <1>2, <2>2
    <3> QED BY <3>1 DEF ToSet
  <2> QED BY <2>1, <2>2
<1>4. ASSUME NEW i \in DOMAIN u PROVE u[i] \in ToSet(u \o v)
  <2>1. i \in DOMAIN (u \o v) /\ (u \o v)[i] = u[i]
    BY <1>2
  <2> QED BY <2>1 DEF ToSet
<1>5. ASSUME NEW i \in DOMAIN v PROVE v[i] \in ToSet(u \o v)
  <2>1. Len(u) + i \in DOMAIN (u \o v) /\ (u \o v)[Len(u) + i] = v[i]
    BY <1>2
  <2> QED BY <2>1 DEF ToSet
<1>6. ToSet(u \o v) \subseteq ToSet(u) \cup ToSet(v)
  <2> DEFINE w == u \o v
  <2>1. \A i \in DOMAIN w : w[i] \in ToSet(u) \cup ToSet(v)
    BY <1>3
  <2> HIDE DEF w
  <2>2. ToSet(w) \subseteq ToSet(u) \cup ToSet(v)
    BY <2>1 DEF ToSet
  <2> QED BY <2>2 DEF w
<1>7. ToSet(u) \subseteq ToSet(u \o v) /\ ToSet(v) \subseteq ToSet(u \o v)
  <2> DEFINE w == u \o v
             W == ToSet(w)
  <2>1. (\A i \in DOMAIN u : u[i] \in W) /\ (\A i \in DOMAIN v : v[i] \in W)
    BY <1>4, <1>5
  <2> HIDE DEF W
  <2>2. ToSet(u) \subseteq W /\ ToSet(v) \subseteq W
    BY <2>1 DEF ToSet
  <2> QED BY <2>2 DEF W
<1> QED BY <1>1, <1>6, <1>7

\* Appending a ticket gathers one more whole party.
LEMMA OnePartyMore ==
    ASSUME NEW T, \A t \in T : t.party \in Seq(Players),
           NEW w \in WholeParties(T), NEW t \in T
    PROVE  w \o t.party \in WholeParties(T)
<1> DEFINE u == t.party
           x == w \o u
<1>1. w \in Seq(Players) /\ u \in Seq(Players)
  BY DEF WholeParties
<1>2. x \in Seq(Players) /\ ToSet(x) = ToSet(w) \cup ToSet(u)
  BY <1>1, Concatenated
<1> HIDE DEF x
<1>3. ASSUME NEW p \in ToSet(x)
      PROVE  \E r \in T : p \in ToSet(r.party) /\ ToSet(r.party) \subseteq ToSet(x)
  <2>1. CASE p \in ToSet(u)
    BY <2>1, <1>2
  <2>2. CASE p \in ToSet(w)
    <3>1. PICK r \in T : p \in ToSet(r.party) /\ ToSet(r.party) \subseteq ToSet(w)
      BY <2>2 DEF WholeParties
    <3> QED BY <3>1, <1>2
  <2> QED BY <2>1, <2>2, <1>2
<1>4. x \in WholeParties(T)
  BY <1>2, <1>3 DEF WholeParties
<1> QED BY <1>4 DEF x

\* The players of picked tickets are whole parties.
LEMMA GatheredFold ==
    ASSUME NEW T, \A t \in T : t.party \in Seq(Players)
    PROVE  /\ Gathered(<< >>) = << >>
           /\ \A s \in Seq(T) : Gathered(s) \in WholeParties(T)
           /\ \A s \in Seq(T), t \in T :
                 Gathered(Append(s, t)) = Gathered(s) \o t.party
<1> DEFINE A == WholeParties(T)
           G == [x \in A \X T |-> x[1] \o x[2].party]
           body(it, s) == [U \in SUBSET DOMAIN s |->
                             IF U = {} THEN << >>
                             ELSE it[U \ {Max(U)}] \o s[Max(U)].party]
<1>1. << >> \in A
  BY DEF WholeParties, ToSet
<1>2. \A w \in A, t \in T : w \o t.party \in A
  BY OnePartyMore
<1> HIDE DEF A
<1>3. G \in [A \X T -> A] /\ \A w \in A, t \in T : G[w, t] = w \o t.party
  BY <1>2
<1> HIDE DEF G
<1>4. PICK F : IsLeftFold(F, A, T, << >>, G)
  BY <1>1, <1>3, LeftFold, Zenon
<1>5. ASSUME NEW s \in Seq(T) PROVE Gathered(s) = F[s]
  <2>1. \A U \in SUBSET DOMAIN s :
           U # {} => Max(U) \in DOMAIN s /\ s[Max(U)] \in T
    BY NextElement
  <2>2. PICK jt \in [SUBSET DOMAIN s -> A] : RunsOver(jt, s, A, << >>, G)
    BY <1>4 DEF IsLeftFold
  <2>3. jt = body(jt, s)
    BY <2>1, <2>2, <1>3 DEF RunsOver
  <2> DEFINE it == CHOOSE it : it = body(it, s)
  <2>4. it = body(it, s)
    BY <2>3, Zenon
  <2>5. Gathered(s) = it[DOMAIN s]
    BY DEF Gathered, FoldLeft, MapThenFoldSet
  <2> HIDE DEF it
  <2>6. RunsOver(it, s, A, << >>, G)
    BY <2>1, <2>4, <1>3 DEF RunsOver
  <2> QED BY <2>5, <2>6, <1>4 DEF IsLeftFold
<1>6. << >> \in Seq(T)
  OBVIOUS
<1>7. F[<< >>] = << >>
  BY <1>4, Zenon DEF IsLeftFold
<1>8. ASSUME NEW s \in Seq(T) PROVE F[s] \in A
  BY <1>4 DEF IsLeftFold
<1>9. ASSUME NEW s \in Seq(T), NEW t \in T
      PROVE  F[Append(s, t)] = G[F[s], t]
  BY <1>4, Zenon DEF IsLeftFold
<1>10. ASSUME NEW s \in Seq(T), NEW t \in T
       PROVE  Gathered(Append(s, t)) = Gathered(s) \o t.party
  <2>1. Append(s, t) \in Seq(T)
    OBVIOUS
  <2>2. Gathered(Append(s, t)) = F[Append(s, t)] /\ Gathered(s) = F[s]
    BY <2>1, <1>5
  <2>3. G[F[s], t] = F[s] \o t.party
    BY <1>3, <1>8
  <2> QED BY <2>2, <2>3, <1>9
<1>11. ASSUME NEW s \in Seq(T) PROVE Gathered(s) \in A
  BY <1>5, <1>8
<1>12. Gathered(<< >>) = << >>
  BY <1>5, <1>6, <1>7, Zenon
<1> QED BY <1>10, <1>11, <1>12, Zenon DEF A
\* Tickets node n may pick from: those without a player its ledger bans.
Allowed(n) == {t \in AllTickets : ToSet(t.party) \cap BannedAt[n] = {}}

\* What the inner loop of TryFormLobby has picked: the count is the number of
\* players gathered.
Picks(n) ==
    {a \in [picked : Seq(Allowed(n)), count : Nat, closed : BOOLEAN] :
        a.count = Len(Gathered(a.picked))}

\* What makes a proposal one that TryFormLobby may have formed.
GoodLobby(l) ==
    /\ l.host \in ToSet(l.players)
    /\ Len(l.players) = Required
    /\ \A p \in ToSet(l.players) :
          \E t \in AllTickets :
             p \in ToSet(t.party) /\ ToSet(t.party) \subseteq ToSet(l.players)
    /\ \A p \in Players :
          (\A m \in Nodes : p \in BannedAt[m]) => p \notin ToSet(l.players)

LEMMA TicketParts ==
    ASSUME NEW t \in AllTickets
    PROVE  t.leader \in Nodes /\ t.party \in Seq(Players)
BY MatchmakingParameters DEF AllTickets

\* A ticket considered is skipped, ends the search or is picked with its
\* whole party.
LEMMA ConsiderPicks ==
    ASSUME NEW n, NEW first, NEW spread, NEW a \in Picks(n), NEW t \in AllTickets
    PROVE  Consider(n, first, spread, a, t) \in Picks(n)
<1>1. /\ a \in [picked : Seq(Allowed(n)), count : Nat, closed : BOOLEAN]
      /\ a.picked \in Seq(Allowed(n)) /\ a.count \in Nat
      /\ a.count = Len(Gathered(a.picked))
  BY DEF Picks
<1>2. \A r \in Allowed(n) : r.party \in Seq(Players)
  BY TicketParts DEF Allowed
<1>3. CASE a.closed \/ ToSet(t.party) \cap BannedAt[n] # {} \/ ~ Fits(a.count, t)
  BY <1>3 DEF Consider
<1>4. CASE /\ ~ (a.closed \/ ToSet(t.party) \cap BannedAt[n] # {} \/ ~ Fits(a.count, t))
           /\ TicketElo(t) - TicketElo(first) > spread * 6
  <2>1. Consider(n, first, spread, a, t) = [a EXCEPT !.closed = TRUE]
    BY <1>4, Zenon DEF Consider
  <2> DEFINE b == [a EXCEPT !.closed = TRUE]
  <2>2. b \in [picked : Seq(Allowed(n)), count : Nat, closed : BOOLEAN]
        /\ b.count = a.count /\ b.picked = a.picked
    BY <1>1
  <2> HIDE DEF b
  <2>3. b \in Picks(n)
    BY <2>2, <1>1 DEF Picks
  <2> QED BY <2>1, <2>3 DEF b
<1>5. CASE /\ ~ (a.closed \/ ToSet(t.party) \cap BannedAt[n] # {} \/ ~ Fits(a.count, t))
           /\ ~ TicketElo(t) - TicketElo(first) > spread * 6
  <2> DEFINE c == a.count + Len(t.party)
             d == c = Required
             w == Append(a.picked, t)
             b == [picked |-> w, count |-> c, closed |-> d]
  <2>1. Consider(n, first, spread, a, t) = b
    BY <1>5, Zenon DEF Consider
  <2>2. t \in Allowed(n) /\ t.party \in Seq(Players)
    BY <1>5, TicketParts DEF Allowed
  <2>3. w \in Seq(Allowed(n)) /\ c \in Nat /\ d \in BOOLEAN
    BY <1>1, <2>2
  <2>4. Gathered(w) = Gathered(a.picked) \o t.party
        /\ Gathered(a.picked) \in Seq(Players)
    <3> DEFINE T == Allowed(n)
    <3>1. t \in T /\ a.picked \in Seq(T) /\ \A r \in T : r.party \in Seq(Players)
      BY <2>2, <1>1, <1>2
    <3> HIDE DEF T
    <3>2. Gathered(w) = Gathered(a.picked) \o t.party
          /\ Gathered(a.picked) \in WholeParties(T)
      BY <3>1, GatheredFold, Zenon
    <3> QED BY <3>2 DEF WholeParties
  <2>5. Len(Gathered(w)) = c
    <3> DEFINE u == Gathered(a.picked)
               v == t.party
    <3>1. u \in Seq(Players) /\ v \in Seq(Players) /\ a.count = Len(u)
      BY <2>4, <2>2, <1>1
    <3> HIDE DEF u, v
    <3>2. Len(u \o v) = Len(u) + Len(v)
      BY <3>1
    <3>3. Gathered(w) = u \o v /\ c = Len(u) + Len(v)
      BY <3>1, <2>4 DEF u, v
    <3> QED BY <3>2, <3>3
  <2> HIDE DEF c, d, w
  <2>6. b \in Picks(n)
    BY <2>3, <2>5 DEF Picks
  <2> QED BY <2>1, <2>6
<1> QED BY <1>3, <1>4, <1>5

\* So a selection has counted the players of the parties it has picked.
LEMMA SelectionPicks ==
    ASSUME NEW n, NEW order \in Seq(AllTickets), NEW i \in 1 .. Len(order),
           NEW spread
    PROVE  Selection(n, order, i, spread) \in Picks(n)
<1> DEFINE A == Picks(n)
           B == AllTickets
           s == SubSeq(order, i, Len(order))
           base == [picked |-> << >>, count |-> 0, closed |-> FALSE]
           first == order[i]
           G == [x \in A \X B |-> Consider(n, first, spread, x[1], x[2])]
           body(it) == [U \in SUBSET DOMAIN s |->
                             IF U = {} THEN base
                             ELSE Consider(n, first, spread, it[U \ {Max(U)}], s[Max(U)])]
<1>1. base \in A
  <2> DEFINE T == Allowed(n)
  <2>1. \A r \in T : r.party \in Seq(Players)
    BY TicketParts DEF Allowed
  <2> HIDE DEF T
  <2>2. Gathered(<< >>) = << >>
    BY <2>1, GatheredFold, Zenon
  <2>3. base \in [picked : Seq(T), count : Nat, closed : BOOLEAN]
    OBVIOUS
  <2>4. base.count = Len(Gathered(base.picked))
    BY <2>2
  <2> QED BY <2>3, <2>4 DEF Picks, T
<1>2. \A a \in A, t \in B : Consider(n, first, spread, a, t) \in A
  BY ConsiderPicks
<1>3. s \in Seq(B)
  OBVIOUS
<1>4. Selection(n, order, i, spread)
        = FoldLeft(LAMBDA acc, t : Consider(n, first, spread, acc, t), base, s)
  BY DEF Selection
<1> HIDE DEF A, B, base, s, first
<1>5. G \in [A \X B -> A]
      /\ \A a \in A, t \in B : G[a, t] = Consider(n, first, spread, a, t)
  BY <1>2
<1> HIDE DEF G
<1>6. PICK F : IsLeftFold(F, A, B, base, G)
  BY <1>1, <1>5, LeftFold, Zenon
<1>7. \A U \in SUBSET DOMAIN s :
         U # {} => Max(U) \in DOMAIN s /\ s[Max(U)] \in B
  BY <1>3, NextElement
<1>8. PICK jt \in [SUBSET DOMAIN s -> A] : RunsOver(jt, s, A, base, G)
  BY <1>3, <1>6 DEF IsLeftFold
<1>9. jt = body(jt)
  BY <1>7, <1>8, <1>5 DEF RunsOver
<1> DEFINE it == CHOOSE it : it = body(it)
<1>10. it = body(it)
  BY <1>9, Zenon
<1>11. FoldLeft(LAMBDA acc, t : Consider(n, first, spread, acc, t), base, s) = it[DOMAIN s]
  BY DEF FoldLeft, MapThenFoldSet
<1> HIDE DEF it
<1>12. RunsOver(it, s, A, base, G)
  BY <1>7, <1>10, <1>5 DEF RunsOver
<1>13. it[DOMAIN s] = F[s] /\ F[s] \in A
  BY <1>12, <1>6, <1>3 DEF IsLeftFold
<1> QED BY <1>4, <1>11, <1>13 DEF A
\* Somebody of a lobby is elected: a first among the highest scores.
LEMMA HostIsElected ==
    ASSUME NEW n \in Nodes, NEW w \in Seq(Players), Len(w) > 0
    PROVE  ElectHost(n, w) \in ToSet(w)
<1> DEFINE S == ToSet(w)
           D == DOMAIN w
           f == [p \in S |-> Score(n, p)]
           g == [i \in D |-> f[w[i]]]
           Best(p) == \A q \in S :
                         \/ Score(n, p) > Score(n, q)
                         \/ Score(n, p) = Score(n, q) /\ p <= q
<1>1. /\ S \subseteq Players /\ S \subseteq Nat
      /\ \A i \in D : w[i] \in S
      /\ \A p \in S : \E i \in D : w[i] = p
  <2>1. \A i \in DOMAIN w : w[i] \in Players
    OBVIOUS
  <2>2. Players \subseteq Nat
    BY MatchmakingParameters
  <2> QED BY <2>1, <2>2 DEF ToSet
<1>2. IsFiniteSet(D) /\ D # {}
  <2>1. D = 1 .. Len(w) /\ 1 \in Int /\ Len(w) \in Int /\ 1 \in D
    OBVIOUS
  <2>2. IsFiniteSet(1 .. Len(w))
    BY <2>1, FS_Interval, Zenon
  <2> HIDE DEF D
  <2> QED BY <2>1, <2>2, Zenon
<1>3. \A p \in S : Score(n, p) \in Int
  <2>1. ASSUME NEW p \in S PROVE Elo[p] \in Int /\ Latency[n][p] \in Int
    BY <1>1, MatchmakingParameters
  <2> QED BY <2>1 DEF Score
<1>4. \A p \in S : f[p] = Score(n, p) /\ f[p] \in Int
  BY <1>3
<1> HIDE DEF f, S, D
<1>5. PICK x \in S : \A y \in S : f[y] <= f[x]
  <2>1. \A i \in D : g[i] = f[w[i]] /\ g[i] \in Int
    BY <1>1, <1>4
  <2> HIDE DEF g
  <2>2. PICK i \in D : \A j \in D : g[j] <= g[i]
    BY <1>2, <2>1, HighestOf, Zenon
  <2>3. w[i] \in S /\ \A y \in S : f[y] <= f[w[i]]
    BY <1>1, <2>1, <2>2
  <2> QED BY <2>3
<1> DEFINE T == {p \in S : f[p] = f[x]}
<1>6. T \in SUBSET Nat /\ T # {}
  BY <1>1, <1>5
<1>7. PICK r \in T : \A q \in T : r <= q
  BY <1>6, LeastNatural, Zenon
<1>8. r \in S /\ Best(r)
  <2>1. ASSUME NEW q \in S
        PROVE  \/ Score(n, r) > Score(n, q)
               \/ Score(n, r) = Score(n, q) /\ r <= q
    <3>1. f[r] \in Int /\ f[q] \in Int /\ f[q] <= f[r]
      BY <1>4, <1>5, <1>7
    <3>2. CASE f[q] = f[r]
      BY <3>2, <1>4, <1>7
    <3>3. CASE f[q] # f[r]
      BY <3>1, <3>3, <1>4, <1>7
    <3> QED BY <3>2, <3>3
  <2> QED BY <2>1, <1>7
<1>9. ElectHost(n, w) = CHOOSE p \in S : Best(p)
  BY DEF ElectHost, S
<1> HIDE DEF Best
<1>10. ElectHost(n, w) \in S
  BY <1>8, <1>9
<1> QED BY <1>10 DEF S

\* The proposal TryFormLobby makes of a full selection.
Formed(n, order, spread) ==
    LET lobby == Roster(Selection(n, order, Min(Full(n, order, spread)), spread).picked)
    IN  [players |-> lobby, host |-> ElectHost(n, lobby)]

\* Is what TryFormLobby should propose.
LEMMA FormedIsGood ==
    ASSUME NEW n \in Nodes, NEW order \in Seq(AllTickets), NEW spread,
           Full(n, order, spread) # {}
    PROVE  GoodLobby(Formed(n, order, spread))
<1> DEFINE full == Full(n, order, spread)
           i == Min(full)
           sel == Selection(n, order, i, spread)
           w == Gathered(sel.picked)
           lobby == Sorted(w)
           T == Allowed(n)
<1>1. full \subseteq 1 .. Len(order)
      /\ \A j \in full : Selection(n, order, j, spread).count = Required
  BY DEF Full
<1>2. i \in full
  <2>1. full \in SUBSET Nat /\ full # {}
    BY <1>1
  <2>2. \E j \in full : \A k \in full : j <= k
    <3> HIDE DEF full
    <3> QED BY <2>1, LeastNatural, Zenon
  <2> HIDE DEF full
  <2> QED BY <2>2 DEF Min
<1> HIDE DEF full, i
<1>3. sel \in Picks(n) /\ sel.count = Required
  BY <1>1, <1>2, SelectionPicks
<1> HIDE DEF sel
<1>4. sel.picked \in Seq(T) /\ Len(w) = Required
  BY <1>3 DEF Picks
<1>5. w \in WholeParties(T)
  <2>1. \A r \in T : r.party \in Seq(Players)
    BY TicketParts DEF Allowed
  <2> HIDE DEF T
  <2> QED BY <2>1, <1>4, GatheredFold, Zenon
<1> HIDE DEF w
<1>6. w \in Seq(Players) /\ w \in Seq(Nat) /\ ToSet(w) \subseteq Players
  <2>1. w \in Seq(Players)
    BY <1>5 DEF WholeParties
  <2>2. Players \subseteq Nat
    BY MatchmakingParameters
  <2> DEFINE v == w
  <2>3. v \in Seq(Players) /\ \A k \in DOMAIN v : v[k] \in Players
    BY <2>1
  <2>4. v \in Seq(Nat)
    <3>1. v = [k \in 1 .. Len(v) |-> v[k]] /\ DOMAIN v = 1 .. Len(v) /\ Len(v) \in Nat
      BY <2>3
    <3>2. \A k \in 1 .. Len(v) : v[k] \in Nat
      BY <2>2, <2>3, <3>1
    <3> QED BY <3>1, <3>2
  <2>5. ToSet(v) \subseteq Players
    BY <2>3 DEF ToSet
  <2> QED BY <2>3, <2>4, <2>5
<1>7. lobby \in Seq(ToSet(w)) /\ Len(lobby) = Len(w) /\ ToSet(lobby) = ToSet(w)
  BY <1>6, SortedPermutes
<1> HIDE DEF lobby
<1>8. lobby \in Seq(Players) /\ Len(lobby) = Required /\ Len(lobby) > 0
  BY <1>4, <1>6, <1>7, MatchmakingParameters
<1>9. ElectHost(n, lobby) \in ToSet(lobby)
  BY <1>8, HostIsElected
<1>10. \A p \in ToSet(lobby) :
          \E t \in AllTickets :
             p \in ToSet(t.party) /\ ToSet(t.party) \subseteq ToSet(lobby)
  BY <1>5, <1>7 DEF WholeParties, Allowed
<1>11. ASSUME NEW p \in Players, \A m \in Nodes : p \in BannedAt[m]
       PROVE  p \notin ToSet(lobby)
  <2>1. SUFFICES ASSUME p \in ToSet(w) PROVE FALSE
    BY <1>7
  <2>2. PICK t \in T : p \in ToSet(t.party)
    BY <2>1, <1>5 DEF WholeParties
  <2> QED BY <1>11, <2>2 DEF Allowed
<1>12. Formed(n, order, spread) = [players |-> lobby, host |-> ElectHost(n, lobby)]
  BY DEF Formed, Roster, full, i, sel, w, lobby
<1> QED BY <1>8, <1>9, <1>10, <1>11, <1>12 DEF GoodLobby
-----------------------------------------------------------------------------
(* The queue of every node, and the lobbies on their way to a game.        *)

TablesTyped ==
    /\ inQueue \in [Nodes -> BOOLEAN]
    /\ myTicket \in [Nodes -> AllTickets \cup {None}]
    /\ DOMAIN tickets = Nodes /\ DOMAIN queueTopic = Nodes
    /\ \A n \in Nodes : /\ tickets[n] \subseteq AllTickets
                        /\ queueTopic[n] \subseteq AllTickets
                        /\ IsFiniteSet(tickets[n])
    /\ entries \in [Nodes -> 0 .. MaxEntries]
    /\ tries \in [Nodes -> 0 .. MaxTries]

\* A lobby is good at every stage between TryFormLobby and the game: none of
\* the properties is inductive without the tables, since a search takes what
\* the topic has brought.
StagesGood ==
    /\ DOMAIN proposals = Nodes /\ DOMAIN accepted = Nodes
    /\ DOMAIN best = Nodes /\ DOMAIN matched = Nodes
    /\ \A n \in Nodes :
          /\ \A l \in proposals[n] : GoodLobby(l)
          /\ \A l \in accepted[n] : GoodLobby(l)
          /\ best[n] # None => GoodLobby(best[n])
          /\ matched[n] # None => GoodLobby(matched[n])

LobbyInv == TablesTyped /\ StagesGood

\* Only TryFormLobby makes proposals: it finds a good one or none.
LEMMA SearchFormsGood ==
    ASSUME LobbyInv, NEW n \in Nodes, TryFormLobby(n)
    PROVE  \/ proposals' = proposals
           \/ \E l : GoodLobby(l) /\ proposals' = [m \in Nodes |-> proposals[m] \cup {l}]
<1> SUFFICES ASSUME proposals' # proposals
             PROVE  \E l : GoodLobby(l) /\ proposals' = [m \in Nodes |-> proposals[m] \cup {l}]
  OBVIOUS
<1>0. PICK expired \in SUBSET tickets[n] :
         \E order \in Orders(tickets[n] \ expired), spread \in Spreads :
            /\ Full(n, order, spread) # {}
            /\ proposals' = [m \in Nodes |-> proposals[m] \cup {Formed(n, order, spread)}]
  BY Zenon DEF TryFormLobby, Formed
<1>1. PICK order \in Orders(tickets[n] \ expired), spread \in Spreads :
         /\ Full(n, order, spread) # {}
         /\ proposals' = [m \in Nodes |-> proposals[m] \cup {Formed(n, order, spread)}]
  BY <1>0
<1>2. order \in Seq(AllTickets)
  <2> DEFINE ts == tickets[n] \ expired
  <2>1. ts \subseteq AllTickets /\ IsFiniteSet(ts)
    BY FS_Subset DEF LobbyInv, TablesTyped
  <2>2. order \in [1 .. Cardinality(ts) -> ts]
    BY <1>1 DEF Orders, SetToSeqs
  <2> HIDE DEF ts
  <2>3. Cardinality(ts) \in Nat
    BY <2>1, FS_CardinalityType
  <2> QED BY <2>1, <2>2, <2>3
<1>3. GoodLobby(Formed(n, order, spread))
  BY <1>1, <1>2, FormedIsGood, Zenon
<1> QED BY <1>1, <1>3, Zenon

LEMMA LeftQueueTables ==
    ASSUME TablesTyped, NEW n \in Nodes, LeftQueue(n)
    PROVE  /\ inQueue' \in [Nodes -> BOOLEAN]
           /\ myTicket' \in [Nodes -> AllTickets \cup {None}]
           /\ DOMAIN tickets' = Nodes /\ entries' = entries
           /\ \A m \in Nodes : tickets'[m] \subseteq AllTickets /\ IsFiniteSet(tickets'[m])
<1>1. /\ inQueue' \in [Nodes -> BOOLEAN]
      /\ myTicket' \in [Nodes -> AllTickets \cup {None}]
      /\ DOMAIN tickets' = Nodes /\ entries' = entries
      /\ \A m \in Nodes : tickets'[m] \in SUBSET tickets[m]
  BY DEF TablesTyped, LeftQueue
<1>2. ASSUME NEW m \in Nodes PROVE tickets'[m] \subseteq AllTickets /\ IsFiniteSet(tickets'[m])
  BY <1>1, FS_Subset DEF TablesTyped
<1> QED BY <1>1, <1>2

LEMMA TriesTyped ==
    ASSUME tries \in [Nodes -> 0 .. MaxTries], NEW n \in Nodes
    PROVE  MoreTries(n) \in [Nodes -> 0 .. MaxTries]
<1>1. MaxTries \in Nat
  BY MatchmakingParameters
<1> QED BY <1>1 DEF MoreTries

LEMMA TablesInductive ==
    ASSUME TablesTyped, [Next]_vars
    PROVE  TablesTyped'
<1> USE DEF TablesTyped
<1>0. MaxTries \in Nat /\ MaxEntries \in Nat
  BY MatchmakingParameters
<1>1. ASSUME NEW n \in Nodes, NEW party \in Parties[n], EnterMatchmaking(n, party)
      PROVE  TablesTyped'
  <2> DEFINE t == [leader |-> n, number |-> entries[n] + 1, party |-> party]
  <2>1. t \in AllTickets
    <3>1. entries[n] + 1 \in 1 .. MaxEntries
      BY <1>0, <1>1 DEF EnterMatchmaking
    <3>2. t \in [leader : {n}, number : 1 .. MaxEntries, party : Parties[n]]
      BY <3>1
    <3> QED BY <3>2 DEF AllTickets
  <2>2. /\ entries' = [entries EXCEPT ![n] = @ + 1]
        /\ entries[n] < MaxEntries
        /\ queueTopic' = [m \in Nodes |-> queueTopic[m] \cup {t}]
        /\ inQueue' = [inQueue EXCEPT ![n] = TRUE]
        /\ myTicket' = [myTicket EXCEPT ![n] = t]
        /\ tickets' = [tickets EXCEPT ![n] = @ \cup {t}]
        /\ tries' = MoreTries(n)
    BY <1>1 DEF EnterMatchmaking, PublishTicket
  <2> HIDE DEF t
  <2>3. ASSUME NEW m \in Nodes PROVE tickets'[m] \subseteq AllTickets /\ IsFiniteSet(tickets'[m])
    <3>1. CASE m = n
      <4>1. tickets'[m] = tickets[m] \cup {t}
        BY <2>2, <3>1
      <4> QED BY <4>1, <2>1, FS_AddElement
    <3>2. CASE m # n
      BY <2>2, <3>2
    <3> QED BY <3>1, <3>2
  <2>4. tries' \in [Nodes -> 0 .. MaxTries]
    BY <2>2, TriesTyped
  <2>5. entries' \in [Nodes -> 0 .. MaxEntries]
    BY <2>2, <1>0
  <2>6. /\ inQueue' \in [Nodes -> BOOLEAN]
        /\ myTicket' \in [Nodes -> AllTickets \cup {None}]
        /\ DOMAIN tickets' = Nodes /\ DOMAIN queueTopic' = Nodes
        /\ \A m \in Nodes : queueTopic'[m] \subseteq AllTickets
    BY <2>1, <2>2
  <2> QED BY <2>3, <2>4, <2>5, <2>6
<1>2. ASSUME NEW n \in Nodes, LeaveMatchmaking(n) PROVE TablesTyped'
  BY <1>2, LeftQueueTables DEF LeaveMatchmaking
<1>3. ASSUME NEW n \in Nodes, NEW t \in queueTopic[n], ReceiveTicket(n, t)
      PROVE  TablesTyped'
  <2>1. t \in AllTickets
    OBVIOUS
  <2>2. ASSUME NEW m \in Nodes PROVE tickets'[m] \subseteq AllTickets /\ IsFiniteSet(tickets'[m])
    <3>1. CASE m = n
      <4>1. tickets'[m] = tickets[m] \cup {t}
        BY <1>3, <3>1 DEF ReceiveTicket
      <4> QED BY <4>1, <2>1, FS_AddElement
    <3>2. CASE m # n
      BY <1>3, <3>2 DEF ReceiveTicket
    <3> QED BY <3>1, <3>2
  <2>3. tries' \in [Nodes -> 0 .. MaxTries]
    BY <1>3, TriesTyped DEF ReceiveTicket
  <2>4. DOMAIN queueTopic' = Nodes /\ \A m \in Nodes : queueTopic'[m] \subseteq queueTopic[m]
    BY <1>3 DEF ReceiveTicket, Consume
  <2>5. DOMAIN tickets' = Nodes /\ UNCHANGED <<inQueue, myTicket, entries>>
    BY <1>3 DEF ReceiveTicket
  <2> QED BY <2>2, <2>3, <2>4, <2>5
<1>4. ASSUME NEW n \in Nodes, TryFormLobby(n) PROVE TablesTyped'
  <2>1. /\ tries' = [tries EXCEPT ![n] = @ - 1] /\ tries[n] > 0
        /\ UNCHANGED <<inQueue, myTicket, entries, queueTopic>>
    BY <1>4 DEF TryFormLobby
  <2>2. tries' \in [Nodes -> 0 .. MaxTries]
    BY <2>1, <1>0
  <2>3. tickets' = tickets \/ \E expired : tickets' = [tickets EXCEPT ![n] = @ \ expired]
    BY <1>4, Zenon DEF TryFormLobby
  <2>4. DOMAIN tickets' = Nodes /\ \A m \in Nodes : tickets'[m] \in SUBSET tickets[m]
    BY <2>3
  <2>5. ASSUME NEW m \in Nodes PROVE tickets'[m] \subseteq AllTickets /\ IsFiniteSet(tickets'[m])
    BY <2>4, FS_Subset
  <2> QED BY <2>1, <2>2, <2>4, <2>5
<1>5. ASSUME NEW n \in Nodes, NEW p \in proposals[n], CheckProposal(n, p)
      PROVE  TablesTyped'
  BY <1>5 DEF CheckProposal, queueVars
<1>6. ASSUME NEW n \in Nodes, NEW p \in accepted[n], KeepProposal(n, p)
      PROVE  TablesTyped'
  BY <1>6 DEF KeepProposal, queueVars
<1>7. ASSUME NEW n \in Nodes, LockInLobby(n) PROVE TablesTyped'
  <2>1. UNCHANGED <<tries, queueTopic>>
    BY <1>7 DEF LockInLobby
  <2>2. CASE LeftQueue(n)
    BY <2>1, <2>2, LeftQueueTables
  <2>3. CASE UNCHANGED queueVars
    BY <2>1, <2>3 DEF queueVars
  <2> QED BY <1>7, <2>2, <2>3 DEF LockInLobby
<1>8. CASE UNCHANGED vars
  BY <1>8 DEF vars, queueVars
<1> QED
  BY <1>1, <1>2, <1>3, <1>4, <1>5, <1>6, <1>7, <1>8 DEF Next

LEMMA StagesInductive ==
    ASSUME LobbyInv, [Next]_vars
    PROVE  StagesGood'
<1> USE DEF StagesGood
<1>1. StagesGood
  BY DEF LobbyInv
<1>2. ASSUME UNCHANGED <<proposals, lobbyVars>> PROVE StagesGood'
  BY <1>1, <1>2 DEF lobbyVars
<1>3. ASSUME NEW n \in Nodes, TryFormLobby(n) PROVE StagesGood'
  <2>1. UNCHANGED lobbyVars
    BY <1>3 DEF TryFormLobby
  <2>2. CASE proposals' = proposals
    BY <2>1, <2>2, <1>2
  <2>3. ASSUME NEW l, GoodLobby(l), proposals' = [m \in Nodes |-> proposals[m] \cup {l}]
        PROVE  StagesGood'
    BY <2>1, <2>3, <1>1 DEF lobbyVars
  <2> QED BY <2>2, <2>3, <1>3, SearchFormsGood
<1>4. ASSUME NEW n \in Nodes, NEW p \in proposals[n], CheckProposal(n, p)
      PROVE  StagesGood'
  BY <1>1, <1>4 DEF CheckProposal
<1>5. ASSUME NEW n \in Nodes, NEW p \in accepted[n], KeepProposal(n, p)
      PROVE  StagesGood'
  BY <1>1, <1>5 DEF KeepProposal
<1>6. ASSUME NEW n \in Nodes, LockInLobby(n) PROVE StagesGood'
  BY <1>1, <1>6 DEF LockInLobby
<1>7. ASSUME NEW n \in Nodes, NEW party \in Parties[n], EnterMatchmaking(n, party)
      PROVE  StagesGood'
  BY <1>2, <1>7 DEF EnterMatchmaking
<1>8. ASSUME NEW n \in Nodes, LeaveMatchmaking(n) PROVE StagesGood'
  BY <1>2, <1>8 DEF LeaveMatchmaking
<1>9. ASSUME NEW n \in Nodes, NEW t \in queueTopic[n], ReceiveTicket(n, t)
      PROVE  StagesGood'
  BY <1>2, <1>9 DEF ReceiveTicket
<1>10. CASE UNCHANGED vars
  BY <1>2, <1>10 DEF vars
<1> QED
  BY <1>3, <1>4, <1>5, <1>6, <1>7, <1>8, <1>9, <1>10 DEF Next

LEMMA LobbyInductive == LobbyInv /\ [Next]_vars => LobbyInv'
BY TablesInductive, StagesInductive DEF LobbyInv

LEMMA LobbyInit == Init => LobbyInv
<1> SUFFICES ASSUME Init PROVE LobbyInv
  OBVIOUS
<1>1. MaxTries \in Nat /\ MaxEntries \in Nat
  BY MatchmakingParameters
<1>2. IsFiniteSet({})
  BY FS_EmptySet
<1>3. TablesTyped
  BY <1>1, <1>2 DEF Init, TablesTyped
<1>4. StagesGood
  BY DEF Init, StagesGood
<1> QED BY <1>3, <1>4 DEF LobbyInv

\* Every lobby of some stage is good.
LEMMA LobbiesAreGood ==
    ASSUME LobbyInv, NEW l \in Lobbies PROVE GoodLobby(l)
BY DEF LobbyInv, StagesGood, Lobbies

\* The tables keep their types whatever expires, is refreshed or comes back,
\* and whoever ElectHost ranks first is one of the players.
THEOREM TypeCorrect == Spec => []TypeOK
<1>1. LobbyInv => TypeOK
  <2> SUFFICES ASSUME LobbyInv PROVE TypeOK
    OBVIOUS
  <2>1. \A l \in Lobbies : l.host \in ToSet(l.players)
    BY LobbiesAreGood DEF GoodLobby
  <2> QED BY <2>1 DEF LobbyInv, TablesTyped, TypeOK
<1> QED BY <1>1, LobbyInit, LobbyInductive, PTL DEF Spec

\* TryFormLobby counts party members until the lobby is full and never splits
\* a party, for any tickets, order of equal ratings and spread.
THEOREM WholePartiesOnly == Spec => []LobbiesAreWholeParties
<1>1. LobbyInv => LobbiesAreWholeParties
  BY LobbiesAreGood DEF GoodLobby, LobbiesAreWholeParties
<1> QED BY <1>1, LobbyInit, LobbyInductive, PTL DEF Spec

\* The check of QueueBans in TryFormLobby keeps a player every ledger has a
\* ban for out of all lobbies, in whosever party it hides.
THEOREM NoMatchForBanned == Spec => []BannedEverywhereNeverMatched
<1>1. LobbyInv => BannedEverywhereNeverMatched
  BY LobbiesAreGood DEF GoodLobby, BannedEverywhereNeverMatched
<1> QED BY <1>1, LobbyInit, LobbyInductive, PTL DEF Spec
=============================================================================
