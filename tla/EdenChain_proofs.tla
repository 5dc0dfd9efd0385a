--------------------------- MODULE EdenChain_proofs ---------------------------
(***************************************************************************)
(* Proofs about EdenChain, for any number of calls of TriggerSync.  What   *)
(* every block, database and ledger looks like (BlocksInv) always holds;   *)
(* that chains stay linked, that ledgers are their replay, and that nodes  *)
(* implement EdenReplica (ChainInv) holds until a chain is cut back that   *)
(* another call relies on.                                                 *)
(***************************************************************************)
EXTENDS EdenChain, EdenFolds, SequenceTheorems

Transactions(blocks) == FoldLeft(Apply, << >>, blocks)

\* The first blocks of a database.
Prefix(store, k) == [i \in 1 .. k |-> store[i]]

\* They are a chain of blocks of g, each acceptable after those below it.
Chained(g, store, k) ==
    \A i \in 1 .. k :
        /\ store[i] \in g
        /\ store[i].index = i
        /\ i > 1 => store[i].prev = store[i - 1].hash
        /\ Acceptable(Transactions(Prefix(store, i - 1)), store[i])

-----------------------------------------------------------------------------
(* For any number of calls.                                                *)

\* A built block: its number bounds what was counted on the way to it.
Built(b) ==
    /\ b \in Block
    /\ b.hash \in 1 .. built
    /\ b.index >= 0
    /\ b.nonce <= b.hash
    /\ b.weight <= b.hash

SyncType(g) ==
    [pc : {"idle", "local", "tip", "search", "fetch", "apply", "adopt"},
     peer : Nodes \cup {None}, height : Int, localHeight : Int,
     localWeight : Int, weight : Int, low : Int, high : Int,
     ancestor : -1 .. MaxIndex, start : Int, pending : Seq(g)]

\* Databases, tips, ledgers and downloads hold blocks of g.
Contents(g) ==
    /\ db \in [Nodes -> [0 .. MaxIndex -> g \cup {None}]]
    /\ last \in [Nodes -> g \cup {ZeroBlock, RootBlock}]
    /\ applied \in [Nodes -> Seq(g)]
    /\ sync \in [Workers -> SyncType(g)]

\* Every block anywhere was built, and no ledger counts more transactions of a
\* player than blocks were built.
BlocksInv ==
    /\ built \in 0 .. MaxBlocks
    /\ restarts \in 0 .. MaxRestarts
    /\ \A b \in gossip : Built(b)
    /\ Contents(gossip)
    /\ latest \in [Nodes -> (-1 .. MaxIndex) \cup {None}]
    /\ \A n, p \in Nodes : NonceOf(applied[n], p) <= built
    /\ \A w \in Workers : sync[w].pc # "idle" => sync[w].peer \in Nodes

\* One call at a time is in a node's locked section.
Exclusive ==
    \A v, w \in Workers :
        /\ sync[v].pc = "adopt" /\ sync[w].pc = "adopt"
        /\ NodeOf[v] = NodeOf[w]
        => v = w

-----------------------------------------------------------------------------
(* Until a chain is cut back under a call.                                 *)

\* Hashes name blocks, and first blocks have no parent.
HashesInv ==
    \A b \in gossip :
        /\ b.index >= 1
        /\ b.index = 1 => b.prev = EmptyHash
        /\ \A c \in gossip : c.hash = b.hash => c = b

\* A node is at the block without a chain only inside the locked section.
Adopting(n) == \E w \in Workers : NodeOf[w] = n /\ sync[w].pc = "adopt"

\* A node's chain up to its tip is stored, linked and valid, and its ledger is
\* what it leads to; what the database holds beyond is linked too.
NodeInv(n) ==
    /\ db[n][0] = None
    /\ last[n] = RootBlock => Adopting(n)
    /\ last[n].index >= 1 => last[n] = db[n][last[n].index]
    /\ Chained(gossip, db[n], last[n].index)
    /\ applied[n] = Transactions(Prefix(db[n], last[n].index))
    /\ latest[n] \in {None, last[n].index} \/ last[n] = ZeroBlock
    /\ latest[n] = None => last[n] = ZeroBlock
    /\ latest[n] # None =>
          \A i \in 1 .. latest[n] :
              /\ db[n][i] # None
              /\ i > 1 => db[n][i].prev = db[n][i - 1].hash

\* A download may bring a block twice in a row, or the child of the one before.
Follows(a, b) == b = a \/ (b.index = a.index + 1 /\ b.prev = a.hash)

Joined(blocks) ==
    \A k \in 1 .. Len(blocks) - 1 : Follows(blocks[k], blocks[k + 1])

\* A first block that a ledger without transactions accepts.
IsFirst(b) == b.index = 1 /\ Acceptable(<< >>, b)

\* The call's view of the chain of its own node.
LocalInv(n, s) ==
    /\ s.localHeight \in 1 .. last[n].index + 1
    /\ s.localWeight = IF s.localHeight = 1 THEN 0
                       ELSE db[n][s.localHeight - 1].weight
    /\ s.ancestor \in -1 .. s.localHeight - 1
    /\ s.ancestor # 0

\* The ancestor is a block both chains have.
AncestorInv(n, s) ==
    s.ancestor # -1 =>
        /\ s.ancestor <= last[s.peer].index
        /\ db[n][s.ancestor] = db[s.peer][s.ancestor]

\* What was downloaded is a chain on top of the ancestor.
PendingInv(n, s) ==
    /\ Joined(s.pending)
    /\ s.pending # << >> =>
          IF s.ancestor = -1 THEN IsFirst(Head(s.pending))
          ELSE Follows(db[n][s.ancestor], Head(s.pending))

\* The next request continues at the last block downloaded.
FetchInv(s) ==
    LET b == Last(s.pending)
    IN  IF s.pending = << >> THEN s.start = s.ancestor + 1
        ELSE /\ b.index \in 1 .. last[s.peer].index
             /\ b = db[s.peer][b.index]
             /\ s.start \in {b.index, b.index + 1}

\* What is still to be adopted is a chain on top of the tip.
AdoptInv(n, s) ==
    /\ Joined(s.pending)
    /\ s.pending = << >> => last[n].index >= 1
    /\ s.pending # << >> =>
          IF last[n] = RootBlock THEN IsFirst(Head(s.pending))
          ELSE last[n].index >= 1 /\ Follows(last[n], Head(s.pending))

CallInv(w) ==
    LET n == NodeOf[w]
        s == sync[w]
    IN  /\ s.pc # "idle" => s.peer # n
        /\ s.pc \in {"tip", "search", "fetch", "apply"} =>
              LocalInv(n, s)
        /\ s.pc \in {"tip", "search", "fetch"} =>
              AncestorInv(n, s)
        /\ s.pc \in {"local", "tip", "search"} =>
              s.low >= 0 /\ s.pending = << >>
        /\ s.pc = "local" => s.height <= last[s.peer].index + 1
        /\ s.pc \in {"local", "tip"} => s.ancestor = -1
        /\ s.pc \in {"tip", "search"} =>
              /\ s.high <= s.localHeight - 1
              /\ s.high <= last[s.peer].index
        /\ s.pc \in {"fetch", "apply"} => PendingInv(n, s)
        /\ s.pc = "fetch" => FetchInv(s)
        /\ s.pc = "adopt" => AdoptInv(n, s)

ChainInv ==
    /\ BlocksInv
    /\ Exclusive
    /\ HashesInv
    /\ \A n \in Nodes : NodeInv(n)
    /\ \A w \in Workers : CallInv(w)

(* PROOFS *)
-----------------------------------------------------------------------------
(* Sequences and folds over them.                                          *)

\* A sequence given by its elements, with one more.
LEMMA AppendElement ==
    ASSUME NEW B, NEW m \in Nat, NEW f, \A k \in 1 .. m + 1 : f[k] \in B
    PROVE  /\ [k \in 1 .. m |-> f[k]] \in Seq(B)
           /\ Append([k \in 1 .. m |-> f[k]], f[m + 1])
                 = [k \in 1 .. m + 1 |-> f[k]]
<1> DEFINE s == [k \in 1 .. m |-> f[k]]
           t == [k \in 1 .. m + 1 |-> f[k]]
<1>1. s \in Seq(B) /\ t \in Seq(B) /\ Len(s) = m /\ Len(t) = m + 1
  OBVIOUS
<1>2. f[m + 1] \in B
  OBVIOUS
<1>3. Append(s, f[m + 1]) \in Seq(B) /\ Len(Append(s, f[m + 1])) = m + 1
  BY <1>1, <1>2
<1>4. ASSUME NEW i \in 1 .. m + 1 PROVE Append(s, f[m + 1])[i] = t[i]
  BY <1>1, <1>2
<1> QED BY <1>1, <1>3, <1>4, SeqEqual

\* The nonce of a player counts the transactions one by one.
LEMMA NonceCounts ==
    ASSUME NEW B, NEW t \in Seq(B), NEW b \in B, NEW p
    PROVE  /\ NonceOf(t, p) \in Nat
           /\ NonceOf(<< >>, p) = 0
           /\ NonceOf(Append(t, b), p)
                 = IF b.sender = p THEN NonceOf(t, p) + 1 ELSE NonceOf(t, p)
<1> DEFINE I == {i \in DOMAIN t : t[i].sender = p}
           u == Append(t, b)
           J == {i \in DOMAIN u : u[i].sender = p}
<1>1. /\ DOMAIN t = 1 .. Len(t) /\ Len(t) \in Nat
      /\ DOMAIN u = 1 .. Len(t) + 1
      /\ u[Len(t) + 1] = b /\ \A i \in 1 .. Len(t) : u[i] = t[i]
  OBVIOUS
<1>2. IsFiniteSet(1 .. Len(t))
  <2>1. 1 \in Int /\ Len(t) \in Int BY <1>1
  <2> QED BY <2>1, FS_Interval, Zenon
<1>3. IsFiniteSet(I) /\ Cardinality(I) \in Nat
  <2>1. I \in SUBSET (1 .. Len(t))
    BY <1>1
  <2> QED BY <2>1, <1>2, FS_Subset, FS_CardinalityType
<1>4. J = IF b.sender = p THEN I \cup {Len(t) + 1} ELSE I
  BY <1>1
<1>5. Len(t) + 1 \notin I
  BY <1>1
<1>6. Cardinality(I \cup {Len(t) + 1}) = Cardinality(I) + 1
  BY <1>3, <1>5, FS_AddElement
<1>7. NonceOf(<< >>, p) = 0
  <2>1. {i \in DOMAIN << >> : << >>[i].sender = p} = {}
    OBVIOUS
  <2> QED BY <2>1, FS_EmptySet, Zenon DEF NonceOf
<1>8. NonceOf(t, p) = Cardinality(I) /\ NonceOf(u, p) = Cardinality(J)
  BY DEF NonceOf
<1> HIDE DEF I, J, u
<1>9. NonceOf(u, p) = IF b.sender = p THEN NonceOf(t, p) + 1 ELSE NonceOf(t, p)
  BY <1>4, <1>6, <1>8
<1> QED BY <1>3, <1>7, <1>8, <1>9 DEF u

\* It is a number.
LEMMA NonceType ==
    ASSUME NEW B, NEW t \in Seq(B), NEW p
    PROVE  NonceOf(t, p) \in Nat
<1>1. DOMAIN t = 1 .. Len(t) /\ Len(t) \in Int /\ 1 \in Int
  OBVIOUS
<1>2. IsFiniteSet(1 .. Len(t))
  BY <1>1, FS_Interval, Zenon
<1>3. {i \in DOMAIN t : t[i].sender = p} \in SUBSET (1 .. Len(t))
  BY <1>1
<1> QED BY <1>2, <1>3, FS_Subset, FS_CardinalityType DEF NonceOf

\* The transactions of a chain are those of its blocks one by one.
LEMMA TransactionsFold ==
    ASSUME NEW B
    PROVE  /\ Transactions(<< >>) = << >>
           /\ \A s \in Seq(B) : Transactions(s) \in Seq(B)
           /\ \A s \in Seq(B), b \in B :
                 Transactions(Append(s, b)) = Apply(Transactions(s), b)
<1> DEFINE A == Seq(B)
           G == [x \in A \X B |-> Apply(x[1], x[2])]
           body(it, s) == [U \in SUBSET DOMAIN s |->
                             IF U = {} THEN << >>
                             ELSE Apply(it[U \ {Max(U)}], s[Max(U)])]
<1>1. << >> \in A /\ G \in [A \X B -> A]
  BY DEF Apply
<1>2. \A t \in A, b \in B : G[t, b] = Apply(t, b)
  OBVIOUS
<1> HIDE DEF G, A
<1>3. PICK F : IsLeftFold(F, A, B, << >>, G)
  BY <1>1, LeftFold, Zenon
<1>4. ASSUME NEW s \in Seq(B) PROVE Transactions(s) = F[s]
  <2>1. \A U \in SUBSET DOMAIN s :
           U # {} => Max(U) \in DOMAIN s /\ s[Max(U)] \in B
    BY NextElement
  <2>2. PICK jt \in [SUBSET DOMAIN s -> A] : RunsOver(jt, s, A, << >>, G)
    BY <1>3 DEF IsLeftFold
  <2>3. jt = body(jt, s)
    BY <2>1, <2>2, <1>2 DEF RunsOver
  <2> DEFINE it == CHOOSE it : it = body(it, s)
  <2>4. it = body(it, s)
    BY <2>3, Zenon
  <2>5. Transactions(s) = it[DOMAIN s]
    BY DEF Transactions, FoldLeft, MapThenFoldSet
  <2> HIDE DEF it
  <2>6. RunsOver(it, s, A, << >>, G)
    BY <2>1, <2>4, <1>2 DEF RunsOver
  <2> QED BY <2>5, <2>6, <1>3 DEF IsLeftFold
<1>5. << >> \in Seq(B)
  OBVIOUS
<1>6. F[<< >>] = << >>
  BY <1>3, Zenon DEF IsLeftFold
<1>7. ASSUME NEW s \in Seq(B) PROVE F[s] \in A
  BY <1>3 DEF IsLeftFold
<1>8. ASSUME NEW s \in Seq(B), NEW b \in B
      PROVE  F[Append(s, b)] = G[F[s], b]
  BY <1>3, Zenon DEF IsLeftFold
<1>9. ASSUME NEW s \in Seq(B), NEW b \in B
      PROVE  Transactions(Append(s, b)) = Apply(Transactions(s), b)
  <2>1. Append(s, b) \in Seq(B)
    OBVIOUS
  <2>2. Transactions(Append(s, b)) = F[Append(s, b)] /\ Transactions(s) = F[s]
    BY <2>1, <1>4
  <2>3. G[F[s], b] = Apply(F[s], b)
    BY <1>2, <1>7
  <2> QED BY <2>2, <2>3, <1>8
<1>10. ASSUME NEW s \in Seq(B) PROVE Transactions(s) \in Seq(B)
  BY <1>4, <1>7 DEF A
<1>11. Transactions(<< >>) = << >>
  BY <1>4, <1>5, <1>6, Zenon
<1> QED BY <1>9, <1>10, <1>11, Zenon

\* Replaying goes block by block; what every step keeps of the ledger, the
\* result has.
LEMMA ReplayFold ==
    ASSUME NEW B, NEW A, << >> \in A,
           \A t \in A, b \in B : Process(t, b) \in A
    PROVE  /\ Replay(<< >>) = << >>
           /\ \A s \in Seq(B) : Replay(s) \in A
           /\ \A s \in Seq(B), b \in B :
                 Replay(Append(s, b)) = Process(Replay(s), b)
<1> DEFINE G == [x \in A \X B |-> Process(x[1], x[2])]
           body(it, s) == [U \in SUBSET DOMAIN s |->
                             IF U = {} THEN << >>
                             ELSE Process(it[U \ {Max(U)}], s[Max(U)])]
<1>1. G \in [A \X B -> A]
  OBVIOUS
<1>2. \A t \in A, b \in B : G[t, b] = Process(t, b)
  OBVIOUS
<1> HIDE DEF G
<1>3. PICK F : IsLeftFold(F, A, B, << >>, G)
  BY <1>1, LeftFold, Zenon
<1>4. ASSUME NEW s \in Seq(B) PROVE Replay(s) = F[s]
  <2>1. \A U \in SUBSET DOMAIN s :
           U # {} => Max(U) \in DOMAIN s /\ s[Max(U)] \in B
    BY NextElement
  <2>2. PICK jt \in [SUBSET DOMAIN s -> A] : RunsOver(jt, s, A, << >>, G)
    BY <1>3 DEF IsLeftFold
  <2>3. jt = body(jt, s)
    BY <2>1, <2>2, <1>2 DEF RunsOver
  <2> DEFINE it == CHOOSE it : it = body(it, s)
  <2>4. it = body(it, s)
    BY <2>3, Zenon
  <2>5. Replay(s) = it[DOMAIN s]
    BY DEF Replay, FoldLeft, MapThenFoldSet
  <2> HIDE DEF it
  <2>6. RunsOver(it, s, A, << >>, G)
    BY <2>1, <2>4, <1>2 DEF RunsOver
  <2> QED BY <2>5, <2>6, <1>3 DEF IsLeftFold
<1>5. << >> \in Seq(B)
  OBVIOUS
<1>6. F[<< >>] = << >>
  BY <1>3, Zenon DEF IsLeftFold
<1>7. ASSUME NEW s \in Seq(B) PROVE F[s] \in A
  BY <1>3 DEF IsLeftFold
<1>8. ASSUME NEW s \in Seq(B), NEW b \in B
      PROVE  F[Append(s, b)] = G[F[s], b]
  BY <1>3, Zenon DEF IsLeftFold
<1>9. ASSUME NEW s \in Seq(B), NEW b \in B
      PROVE  Replay(Append(s, b)) = Process(Replay(s), b)
  <2>1. Append(s, b) \in Seq(B)
    OBVIOUS
  <2>2. Replay(Append(s, b)) = F[Append(s, b)] /\ Replay(s) = F[s]
    BY <2>1, <1>4
  <2>3. G[F[s], b] = Process(F[s], b)
    BY <1>2, <1>7
  <2> QED BY <2>2, <2>3, <1>8
<1>10. ASSUME NEW s \in Seq(B) PROVE Replay(s) \in A
  BY <1>4, <1>7
<1>11. Replay(<< >>) = << >>
  BY <1>4, <1>5, <1>6, Zenon
<1> QED BY <1>9, <1>10, <1>11, Zenon

\* Reading one index.
Read(store, blocks, i) ==
    IF i \in DOMAIN store /\ store[i] # None THEN Append(blocks, store[i])
    ELSE blocks

\* Reading a range goes index by index.
LEMMA RangeFold ==
    ASSUME NEW B, NEW store,
           \A i \in DOMAIN store : store[i] # None => store[i] \in B
    PROVE  \A start, end \in Int :
              /\ BlocksRange(store, start, end) \in Seq(B)
              /\ end <= start => BlocksRange(store, start, end) = << >>
              /\ start <= end =>
                    BlocksRange(store, start, end + 1)
                       = Read(store, BlocksRange(store, start, end), end)
<1> DEFINE A == Seq(B)
           G == [x \in A \X Int |-> Read(store, x[1], x[2])]
           body(it, s) == [U \in SUBSET DOMAIN s |->
                             IF U = {} THEN << >>
                             ELSE Read(store, it[U \ {Max(U)}], s[Max(U)])]
           keys(start, end) == [k \in 1 .. end - start |-> start + k - 1]
<1>1. << >> \in A /\ G \in [A \X Int -> A]
  BY DEF Read
<1>2. \A t \in A, b \in Int : G[t, b] = Read(store, t, b)
  OBVIOUS
<1> HIDE DEF G, A
<1>3. PICK F : IsLeftFold(F, A, Int, << >>, G)
  BY <1>1, LeftFold, Zenon
<1>4. ASSUME NEW start \in Int, NEW end \in Int
      PROVE  keys(start, end) \in Seq(Int)
             /\ BlocksRange(store, start, end) = F[keys(start, end)]
  <2> DEFINE s == keys(start, end)
  <2>0. s \in Seq(Int)
    <3>1. CASE end - start >= 0
      <4>1. end - start \in Nat
        BY <3>1
      <4> QED BY <4>1
    <3>2. CASE ~ end - start >= 0
      <4>1. 1 .. end - start = 1 .. 0
        BY <3>2
      <4> QED BY <4>1
    <3> QED BY <3>1, <3>2
  <2>5. BlocksRange(store, start, end)
           = (CHOOSE it : it = body(it, s))[DOMAIN s]
    BY DEF BlocksRange, FoldLeft, MapThenFoldSet, Read
  <2> HIDE DEF s, keys
  <2>1. \A U \in SUBSET DOMAIN s :
           U # {} => Max(U) \in DOMAIN s /\ s[Max(U)] \in Int
    BY <2>0, NextElement
  <2>2. PICK jt \in [SUBSET DOMAIN s -> A] : RunsOver(jt, s, A, << >>, G)
    BY <2>0, <1>3 DEF IsLeftFold
  <2>3. jt = body(jt, s)
    BY <2>1, <2>2, <1>2 DEF RunsOver
  <2> DEFINE it == CHOOSE it : it = body(it, s)
  <2>4. it = body(it, s)
    BY <2>3, Zenon
  <2>6. BlocksRange(store, start, end) = it[DOMAIN s]
    BY <2>5
  <2> HIDE DEF it
  <2>7. RunsOver(it, s, A, << >>, G)
    BY <2>1, <2>4, <1>2 DEF RunsOver
  <2> QED BY <2>0, <2>6, <2>7, <1>3 DEF IsLeftFold, s
<1>6. ASSUME NEW start \in Int, NEW end \in Int, end <= start
      PROVE  BlocksRange(store, start, end) = << >>
  <2>1. keys(start, end) = << >>
    BY <1>6
  <2>2. F[<< >>] = << >>
    BY <1>3, Zenon DEF IsLeftFold
  <2> QED BY <2>1, <2>2, <1>4
<1>7. ASSUME NEW start \in Int, NEW end \in Int, start <= end
      PROVE  BlocksRange(store, start, end + 1)
                = Read(store, BlocksRange(store, start, end), end)
  <2> DEFINE s == keys(start, end)
             m == end - start
             f == [k \in Int |-> start + k - 1]
  <2>1. m \in Nat /\ end + 1 \in Int /\ end + 1 - start = m + 1 /\ f[m + 1] = end
    BY <1>7
  <2>2. /\ s = [k \in 1 .. m |-> f[k]]
        /\ keys(start, end + 1) = [k \in 1 .. m + 1 |-> f[k]]
    BY <2>1
  <2>3. keys(start, end + 1) = Append(s, end)
    <3>1. \A k \in 1 .. m + 1 : f[k] \in Int
      OBVIOUS
    <3> HIDE DEF f, m, s, keys
    <3> QED BY <2>1, <2>2, <3>1, AppendElement
  <2>4. s \in Seq(Int)
    BY <1>4
  <2>5. F[Append(s, end)] = G[F[s], end]
    BY <2>4, <1>3, Zenon DEF IsLeftFold
  <2>6. F[s] \in A
    BY <2>4, <1>3 DEF IsLeftFold
  <2> HIDE DEF keys, s
  <2>7. BlocksRange(store, start, end + 1) = F[Append(s, end)]
    BY <2>1, <2>3, <1>4
  <2>8. BlocksRange(store, start, end) = F[s]
    BY <1>4 DEF s
  <2> QED BY <2>5, <2>6, <2>7, <2>8, <1>2
<1>8. ASSUME NEW start \in Int, NEW end \in Int
      PROVE  BlocksRange(store, start, end) \in Seq(B)
  <2> HIDE DEF keys
  <2>1. /\ keys(start, end) \in Seq(Int)
        /\ BlocksRange(store, start, end) = F[keys(start, end)]
    BY <1>4
  <2>2. F \in [Seq(Int) -> A]
    BY <1>3, Zenon DEF IsLeftFold
  <2> QED BY <2>1, <2>2 DEF A
<1> QED BY <1>6, <1>7, <1>8

\* A range without blocks and then without gaps reads as its blocks.
LEMMA RangeOf ==
    ASSUME NEW store, NEW start \in Int, NEW low \in Int, start <= low,
           NEW end \in Int, start <= end,
           \A i \in start .. low - 1 : i \in DOMAIN store => store[i] = None,
           \A i \in low .. end - 1 : i \in DOMAIN store /\ store[i] # None
    PROVE  BlocksRange(store, start, end)
              = [k \in 1 .. end - low |-> store[low + k - 1]]
<1> DEFINE B == {store[i] : i \in DOMAIN store}
           f == [k \in Int |-> store[low + k - 1]]
           Good(m) == BlocksRange(store, start, start + m)
                         = [k \in 1 .. start + m - low |-> f[k]]
           T == {m \in 0 .. end - start : ~ Good(m)}
<1>0. \A a, e \in Int :
         /\ BlocksRange(store, a, e) \in Seq(B)
         /\ e <= a => BlocksRange(store, a, e) = << >>
         /\ a <= e => BlocksRange(store, a, e + 1)
                         = Read(store, BlocksRange(store, a, e), e)
  <2>1. \A i \in DOMAIN store : store[i] # None => store[i] \in B
    OBVIOUS
  <2> HIDE DEF B
  <2> QED BY <2>1, RangeFold, Zenon
<1> HIDE DEF B
<1>1. T = {}
  <2> SUFFICES ASSUME T # {} PROVE FALSE
    OBVIOUS
  <2>0. T \in SUBSET Nat
    OBVIOUS
  <2>1. PICK m \in T : \A k \in T : m <= k
    BY <2>0, LeastNatural, Zenon
  <2>2. m \in 0 .. end - start /\ m \in Int
    OBVIOUS
  <2>3. ~ Good(m)
    OBVIOUS
  <2> HIDE DEF T
  <2>4. m # 0
    <3> SUFFICES Good(0)
      BY <2>3
    <3>1. start + 0 = start /\ 1 .. start + 0 - low = {}
      OBVIOUS
    <3>2. BlocksRange(store, start, start) = << >>
      BY <1>0
    <3> QED BY <3>1, <3>2
  <2> DEFINE j == m - 1
  <2>5. j \in 0 .. end - start /\ j \in Int /\ ~ m <= j /\ m = j + 1
    BY <2>2, <2>4
  <2>6. Good(j)
    <3>1. j \notin T
      BY <2>1, <2>5
    <3> QED BY <3>1, <2>5 DEF T
  <2> HIDE DEF j
  <2>7. BlocksRange(store, start, start + m)
           = Read(store, BlocksRange(store, start, start + j), start + j)
    <3>1. start + j \in Int /\ start <= start + j /\ start + m = start + j + 1
      BY <2>5
    <3> QED BY <3>1, <1>0
  <2>8. CASE start + j < low
    <3>1. start + j \in start .. low - 1
      BY <2>8, <2>5
    <3>2. BlocksRange(store, start, start + m)
             = BlocksRange(store, start, start + j)
      BY <3>1, <2>7 DEF Read
    <3>3. 1 .. start + j - low = {} /\ 1 .. start + m - low = {}
      BY <2>8, <2>5
    <3> HIDE DEF f
    <3>4. Good(m)
      BY <3>2, <3>3, <2>6
    <3> QED BY <3>4, <2>3
  <2>9. CASE ~ start + j < low
    <3> DEFINE l == start + j - low
    <3>1. l \in Nat /\ start + m - low = l + 1 /\ start + j \in low .. end - 1
          /\ low + (l + 1) - 1 = start + j /\ l + 1 \in Int
      <4>1. j \in Int /\ j <= end - start - 1 /\ m = j + 1 /\ start + j >= low
        BY <2>9, <2>5, <2>2
      <4> QED BY <4>1
    <3>5. f[l + 1] = store[start + j]
      BY <3>1
    <3>2. BlocksRange(store, start, start + m)
             = Append([k \in 1 .. l |-> f[k]], f[l + 1])
      BY <3>1, <3>5, <2>6, <2>7 DEF Read
    <3>3. \A k \in 1 .. l + 1 : f[k] \in B
      <4> SUFFICES ASSUME NEW k \in 1 .. l + 1 PROVE store[low + k - 1] \in B
        OBVIOUS
      <4>1. low + k - 1 \in low .. end - 1
        BY <3>1, <2>5
      <4> QED BY <4>1 DEF B
    <3> HIDE DEF f, l
    <3>4. Good(m)
      BY <3>1, <3>2, <3>3, AppendElement
    <3> QED BY <3>4, <2>3
  <2> QED BY <2>8, <2>9, <2>5
<1>2. end - start \in 0 .. end - start /\ start + (end - start) = end
  OBVIOUS
<1>3. Good(end - start)
  BY <1>1, <1>2
<1> QED BY <1>2, <1>3

\* Replaying blocks each of which its predecessors make acceptable refuses none.
LEMMA ReplayOfValid ==
    ASSUME NEW B, NEW f, NEW n \in Nat,
           \A k \in 1 .. n :
              /\ f[k] \in B
              /\ Acceptable(Transactions([i \in 1 .. k - 1 |-> f[i]]), f[k])
    PROVE  Replay([i \in 1 .. n |-> f[i]]) = Transactions([i \in 1 .. n |-> f[i]])
<1> DEFINE P(k) == [i \in 1 .. k |-> f[i]]
           T == {k \in 0 .. n : Replay(P(k)) # Transactions(P(k))}
<1>1. \A t \in Seq(B), b \in B : Process(t, b) \in Seq(B)
  BY DEF Process, Apply
<1>2. << >> \in Seq(B)
  OBVIOUS
<1>3. /\ Replay(<< >>) = << >>
      /\ \A s \in Seq(B), b \in B : Replay(Append(s, b)) = Process(Replay(s), b)
  BY <1>1, <1>2, ReplayFold, Zenon
<1>4. T = {}
  <2> SUFFICES ASSUME T # {} PROVE FALSE
    OBVIOUS
  <2>0. T \in SUBSET Nat
    OBVIOUS
  <2>1. PICK m \in T : \A k \in T : m <= k
    BY <2>0, LeastNatural, Zenon
  <2>2. m \in 0 .. n /\ m \in Int
    OBVIOUS
  <2>3. Replay(P(m)) # Transactions(P(m))
    OBVIOUS
  <2> HIDE DEF T
  <2>4. m # 0
    <3>1. P(0) = << >>
      OBVIOUS
    <3> HIDE DEF P
    <3> QED BY <3>1, <1>3, <2>3, TransactionsFold, Zenon
  <2> DEFINE j == m - 1
  <2>5. j \in 0 .. n /\ j \in Nat /\ ~ m <= j /\ m = j + 1 /\ m \in 1 .. n
    BY <2>2, <2>4
  <2>6. Replay(P(j)) = Transactions(P(j))
    <3>1. j \notin T
      BY <2>1, <2>5
    <3> QED BY <3>1, <2>5 DEF T
  <2>7. P(j) \in Seq(B) /\ P(m) = Append(P(j), f[m])
    <3>1. \A k \in 1 .. j + 1 : f[k] \in B
      <4> SUFFICES ASSUME NEW k \in 1 .. m PROVE f[k] \in B
        BY <2>5
      <4>1. k \in 1 .. n
        BY <2>2
      <4> QED BY <4>1
    <3> HIDE DEF j
    <3> QED BY <3>1, <2>5, AppendElement
  <2>8. f[m] \in B /\ Acceptable(Transactions(P(j)), f[m])
    BY <2>5
  <2> HIDE DEF P, j
  <2>9. /\ Replay(P(m)) = Process(Replay(P(j)), f[m])
        /\ Transactions(P(m)) = Apply(Transactions(P(j)), f[m])
    BY <2>7, <2>8, <1>3, TransactionsFold
  <2> QED BY <2>3, <2>6, <2>8, <2>9 DEF Process
<1>5. n \in 0 .. n
  OBVIOUS
<1> QED BY <1>4, <1>5

-----------------------------------------------------------------------------
(* Types, for any number of calls.                                         *)

\* What a larger set of blocks may hold includes what a smaller one did.
LEMMA ContentsGrow ==
    ASSUME NEW g, NEW h, g \subseteq h, Contents(g)
    PROVE  Contents(h)
<1>1. Seq(g) \subseteq Seq(h)
  BY SeqMonotonic
<1> QED BY <1>1 DEF Contents, SyncType

\* The zero block and the one TriggerSync falls back to are blocks.
LEMMA FixedBlocks ==
    /\ ZeroBlock \in Block /\ RootBlock \in Block
    /\ ZeroBlock.hash = EmptyHash /\ ZeroBlock.index = 0 /\ ZeroBlock.weight = 0
    /\ RootBlock.hash = RootHash /\ RootBlock.index = -1 /\ RootBlock.weight = 0
    /\ None \notin Block /\ None \notin -1 .. MaxIndex
<1>1. MaxBlocks \in Nat /\ MaxIndex \in Nat
  BY ChainParameters
<1>2. /\ 0 \in Hash /\ -1 \in Hash
      /\ 0 \in -1 .. MaxIndex /\ -1 \in -1 .. MaxIndex
      /\ 0 \in 0 .. MaxBlocks
  BY <1>1 DEF Hash, GenesisHash
<1>3. ZeroBlock \in Block
  BY <1>2 DEF ZeroBlock, Block, EmptyHash
<1>4. RootBlock \in Block
  BY <1>2, <1>3 DEF RootBlock, Block, RootHash
<1>5. /\ ZeroBlock.hash = EmptyHash /\ ZeroBlock.index = 0
      /\ ZeroBlock.weight = 0
      /\ RootBlock.hash = RootHash /\ RootBlock.index = -1
      /\ RootBlock.weight = 0
  BY DEF ZeroBlock, RootBlock
<1> QED BY <1>3, <1>4, <1>5, NoneIsNothing

\* Processing a block keeps the count of a player's transactions within a
\* bound that its nonce has.
LEMMA ProcessKeeps ==
    ASSUME NEW g, NEW m \in Nat, NEW t \in Seq(g), NEW b \in g,
           b.nonce \in Int, b.nonce <= m, Acceptable(t, b),
           \A p \in Nodes : NonceOf(t, p) <= m
    PROVE  /\ Apply(t, b) \in Seq(g)
           /\ \A p \in Nodes : NonceOf(Apply(t, b), p) <= m
<1>1. Apply(t, b) \in Seq(g)
  BY DEF Apply
<1>2. ASSUME NEW p \in Nodes PROVE NonceOf(Apply(t, b), p) <= m
  <2>1. NonceOf(t, p) \in Nat /\ NonceOf(t, p) <= m
    BY NonceCounts
  <2>2. CASE b.sender = p
    <3>1. p # None
      BY NoneIsNothing
    <3>2. b.nonce = NonceOf(t, p) + 1
      BY <2>2, <3>1 DEF Acceptable
    <3>3. NonceOf(Append(t, b), p) = NonceOf(t, p) + 1
      BY <2>2, NonceCounts
    <3>4. Apply(t, b) = Append(t, b)
      BY <3>1, <2>2 DEF Apply
    <3> QED BY <3>2, <3>3, <3>4
  <2>3. CASE b.sender # p
    <3>1. NonceOf(Append(t, b), p) = NonceOf(t, p)
      BY <2>3, NonceCounts
    <3> QED BY <3>1, <2>1 DEF Apply
  <2> QED BY <2>2, <2>3
<1> QED BY <1>1, <1>2

\* So does replaying built blocks.
LEMMA ReplayKeeps ==
    ASSUME BlocksInv, NEW s \in Seq(gossip)
    PROVE  /\ Replay(s) \in Seq(gossip)
           /\ \A p \in Nodes : NonceOf(Replay(s), p) <= built
<1> DEFINE A == {t \in Seq(gossip) : \A p \in Nodes : NonceOf(t, p) <= built}
<1>0. built \in Nat
  BY ChainParameters DEF BlocksInv
<1>1. << >> \in A
  <2>1. \A p : NonceOf(<< >>, p) = 0
    <3>1. \A p : {i \in DOMAIN << >> : << >>[i].sender = p} = {}
      OBVIOUS
    <3> QED BY <3>1, FS_EmptySet DEF NonceOf
  <2> QED BY <2>1, <1>0
<1>2. ASSUME NEW t \in A, NEW b \in gossip PROVE Process(t, b) \in A
  <2>1. b.nonce \in Int /\ b.nonce <= built
    BY <1>0 DEF BlocksInv, Built, Block
  <2> QED BY <2>1, <1>0, ProcessKeeps DEF Process
<1>3. Replay(s) \in A
  <2> HIDE DEF A
  <2> QED BY <1>1, <1>2, ReplayFold, Zenon
<1> QED BY <1>3

\* A block on top of what a node has, whether it was built, delivered or
\* adopted.
LEMMA Stored ==
    ASSUME NEW g, Contents(g), NEW m \in Nat, NEW n \in Nodes, NEW b \in g,
           b.index \in 0 .. MaxIndex, b.nonce \in Int, b.nonce <= m,
           Acceptable(applied[n], b), Adopt(n, b),
           latest \in [Nodes -> (-1 .. MaxIndex) \cup {None}],
           \A o, p \in Nodes : NonceOf(applied[o], p) <= m
    PROVE  /\ db' \in [Nodes -> [0 .. MaxIndex -> g \cup {None}]]
           /\ last' \in [Nodes -> g \cup {ZeroBlock, RootBlock}]
           /\ applied' \in [Nodes -> Seq(g)]
           /\ latest' \in [Nodes -> (-1 .. MaxIndex) \cup {None}]
           /\ \A o, p \in Nodes : NonceOf(applied'[o], p) <= m
<1>1. applied[n] \in Seq(g)
  BY DEF Contents
<1>2. /\ Apply(applied[n], b) \in Seq(g)
      /\ \A p \in Nodes : NonceOf(Apply(applied[n], b), p) <= m
  BY <1>1, ProcessKeeps
<1>3. applied' = [applied EXCEPT ![n] = Apply(applied[n], b)]
  BY DEF Adopt
<1>4. applied' \in [Nodes -> Seq(g)]
      /\ \A o, p \in Nodes : NonceOf(applied'[o], p) <= m
  BY <1>2, <1>3 DEF Contents
<1>5. db' \in [Nodes -> [0 .. MaxIndex -> g \cup {None}]]
  BY DEF Contents, Adopt
<1>6. last' \in [Nodes -> g \cup {ZeroBlock, RootBlock}]
  BY DEF Contents, Adopt
<1>7. latest' \in [Nodes -> (-1 .. MaxIndex) \cup {None}]
  <2>1. b.index \in -1 .. MaxIndex
    OBVIOUS
  <2> QED BY <2>1 DEF Adopt
<1> QED BY <1>4, <1>5, <1>6, <1>7

\* A step of a call that only moves its locals.
LEMMA MovedBlocks ==
    ASSUME BlocksInv, NEW w \in Workers, NEW rec \in SyncType(gossip),
           rec.pc # "idle" => rec.peer \in Nodes,
           Goto(w, rec), UNCHANGED nodeVars
    PROVE  BlocksInv'
<1>1. /\ sync' = [sync EXCEPT ![w] = rec]
      /\ UNCHANGED <<db, latest, last, applied, gossip, built, restarts>>
  BY DEF Goto, nodeVars
<1>2. sync' \in [Workers -> SyncType(gossip)]
  BY <1>1 DEF BlocksInv, Contents
<1>3. Contents(gossip)'
  BY <1>1, <1>2 DEF BlocksInv, Contents, SyncType
<1>4. \A v \in Workers : sync'[v].pc # "idle" => sync'[v].peer \in Nodes
  BY <1>1 DEF BlocksInv, Contents
<1> QED BY <1>1, <1>3, <1>4 DEF BlocksInv, Built

\* No call.
LEMMA IdleType == \A g : Idle \in SyncType(g)
<1>1. -1 \in -1 .. MaxIndex
  BY ChainParameters
<1>2. \A g : << >> \in Seq(g)
  OBVIOUS
<1> QED BY <1>1, <1>2 DEF Idle, SyncType

\* What a node reads from a database is built blocks.
LEMMA RangeBlocks ==
    ASSUME NEW g, NEW store \in [0 .. MaxIndex -> g \cup {None}],
           NEW start \in Int, NEW end \in Int
    PROVE  BlocksRange(store, start, end) \in Seq(g)
<1>1. \A i \in DOMAIN store : store[i] # None => store[i] \in g
  OBVIOUS
<1> QED BY <1>1, RangeFold

\* The smaller of two numbers.
LEMMA MinOfTwo ==
    ASSUME NEW a \in Int, NEW b \in Int
    PROVE  Min({a, b}) = IF a <= b THEN a ELSE b
BY DEF Min

\* A node, its tip, and the block a node falls back to.
LEMMA TipTypes ==
    ASSUME BlocksInv, NEW n \in Nodes
    PROVE  /\ last[n] \in Block /\ last[n].index \in -1 .. MaxIndex
           /\ last[n].weight \in Nat /\ last[n].index \in Int
           /\ last[n].weight <= built
<1>1. last[n] \in gossip \cup {ZeroBlock, RootBlock}
  BY DEF BlocksInv, Contents
<1>2. MaxIndex \in Nat /\ built \in Nat /\ MaxBlocks \in Nat
  BY ChainParameters DEF BlocksInv
<1>3. CASE last[n] \in gossip
  BY <1>2, <1>3 DEF BlocksInv, Built, Block
<1>4. CASE last[n] \in {ZeroBlock, RootBlock}
  BY <1>2, <1>4, FixedBlocks DEF Block
<1> QED BY <1>1, <1>3, <1>4

LEMMA BlocksInit == Init => BlocksInv
<1> SUFFICES ASSUME Init PROVE BlocksInv
  OBVIOUS
<1>1. MaxBlocks \in Nat /\ MaxIndex \in Nat /\ MaxRestarts \in Nat
  BY ChainParameters
<1>2. Contents(gossip)
  BY IdleType DEF Init, Contents
<1>3. \A n, p \in Nodes : NonceOf(applied[n], p) <= built
  <2>1. \A p : {i \in DOMAIN << >> : << >>[i].sender = p} = {}
    OBVIOUS
  <2>2. \A p : NonceOf(<< >>, p) = 0
    BY <2>1, FS_EmptySet DEF NonceOf
  <2> QED BY <2>2 DEF Init
<1> QED BY <1>1, <1>2, <1>3 DEF Init, BlocksInv, Idle

\* A built block is a new one, with the number the count reaches.
LEMMA BuildBlocks ==
    ASSUME BlocksInv, NEW n \in Nodes, NEW b,
           b = NextBlock(n, b.weight, b.sender, b.nonce),
           b.weight \in Nat, b.weight <= built + 1,
           b.nonce \in Nat, b.nonce <= built + 1,
           b.sender \in Nodes \cup {None},
           CanBuild(n), AddBlock(n, b), Publish(b), UNCHANGED <<restarts, sync, crossed>>
    PROVE  BlocksInv'
<1>1. /\ built \in Nat /\ MaxBlocks \in Nat /\ MaxIndex \in Nat
      /\ built + 1 <= MaxBlocks /\ built' = built + 1
      /\ gossip' = gossip \cup {b}
  BY ChainParameters DEF BlocksInv, CanBuild, Publish
<1>2. last[n].index \in -1 .. MaxIndex /\ last[n].index < MaxIndex
  BY TipTypes DEF CanBuild
<1>3. b = [hash |-> built + 1, index |-> last[n].index + 1,
           prev |-> last[n].hash, weight |-> b.weight, sender |-> b.sender,
           nonce |-> b.nonce]
  BY DEF NextBlock
<1>4. b.hash = built + 1 /\ b.index = last[n].index + 1
  BY <1>3
<1>5. Built(b)'
  <2>1. last[n].hash \in Hash
    BY TipTypes DEF Block
  <2>2. built + 1 \in Hash /\ b.index \in 0 .. MaxIndex
    BY <1>1, <1>2, <1>4 DEF Hash, GenesisHash
  <2>3. b.weight \in 0 .. MaxBlocks /\ b.nonce \in 0 .. MaxBlocks
    BY <1>1
  <2>4. b \in Block
    BY <1>3, <2>1, <2>2, <2>3, <1>4, <1>1 DEF Block
  <2> QED BY <2>4, <2>2, <1>4, <1>1 DEF Built
<1>6. \A c \in gossip' : Built(c)'
  BY <1>1, <1>5 DEF BlocksInv, Built
<1>7. Contents(gossip')
  BY <1>1, ContentsGrow DEF BlocksInv
<1>8. b.index \in 0 .. MaxIndex /\ b.nonce \in Int
  BY <1>2, <1>4, <1>1
<1>9. \A o, p \in Nodes : NonceOf(applied[o], p) <= built + 1
  <2>1. \A o, p \in Nodes :
           NonceOf(applied[o], p) \in Nat /\ NonceOf(applied[o], p) <= built
    BY NonceType DEF BlocksInv, Contents
  <2> QED BY <2>1, <1>1
<1>10. /\ db' \in [Nodes -> [0 .. MaxIndex -> gossip' \cup {None}]]
       /\ last' \in [Nodes -> gossip' \cup {ZeroBlock, RootBlock}]
       /\ applied' \in [Nodes -> Seq(gossip')]
       /\ latest' \in [Nodes -> (-1 .. MaxIndex) \cup {None}]
       /\ \A o, p \in Nodes : NonceOf(applied'[o], p) <= built + 1
  <2>1. Adopt(n, b) /\ Acceptable(applied[n], b)
    BY DEF AddBlock, Adopt
  <2>2. b \in gossip' /\ built + 1 \in Nat
    BY <1>1
  <2>3. latest \in [Nodes -> (-1 .. MaxIndex) \cup {None}]
    BY DEF BlocksInv
  <2> HIDE DEF BlocksInv, AddBlock, Publish, CanBuild
  <2> QED BY <2>1, <2>2, <2>3, <1>7, <1>8, <1>9, Stored
<1>11. Contents(gossip)'
  BY <1>7, <1>10 DEF Contents, SyncType
<1>12. /\ built' \in 0 .. MaxBlocks
       /\ restarts' \in 0 .. MaxRestarts
       /\ \A w \in Workers : sync'[w].pc # "idle" => sync'[w].peer \in Nodes
  BY <1>1 DEF BlocksInv
<1>13. \A o, p \in Nodes : NonceOf(applied'[o], p) <= built'
  BY <1>1, <1>10
<1> QED BY <1>6, <1>10, <1>11, <1>12, <1>13 DEF BlocksInv

LEMMA BuildTxBlocks ==
    ASSUME BlocksInv, NEW n \in Nodes, BuildTxBlock(n)
    PROVE  BlocksInv'
<1> DEFINE b == NextBlock(n, last[n].weight, n, NonceOf(applied[n], n) + 1)
<1>1. /\ b = NextBlock(n, b.weight, b.sender, b.nonce)
      /\ b.weight = last[n].weight /\ b.sender = n
      /\ b.nonce = NonceOf(applied[n], n) + 1
  BY DEF NextBlock
<1>2. /\ CanBuild(n) /\ AddBlock(n, b) /\ Publish(b)
      /\ UNCHANGED <<restarts, sync, crossed>>
  BY DEF BuildTxBlock
<1>3. built \in Nat
  BY ChainParameters DEF BlocksInv
<1>4. b.weight \in Nat /\ b.weight <= built + 1
  BY <1>1, <1>3, TipTypes
<1>5. NonceOf(applied[n], n) \in Nat /\ NonceOf(applied[n], n) <= built
  BY NonceType DEF BlocksInv, Contents
<1> HIDE DEF b
<1> QED BY <1>1, <1>2, <1>3, <1>4, <1>5, BuildBlocks

LEMMA BuildGameBlocks ==
    ASSUME BlocksInv, NEW n \in Nodes, BuildGameBlock(n)
    PROVE  BlocksInv'
<1> DEFINE b == NextBlock(n, last[n].weight + 1, None, 0)
<1>1. /\ b = NextBlock(n, b.weight, b.sender, b.nonce)
      /\ b.weight = last[n].weight + 1 /\ b.sender = None /\ b.nonce = 0
  BY DEF NextBlock
<1>2. /\ CanBuild(n) /\ AddBlock(n, b) /\ Publish(b)
      /\ UNCHANGED <<restarts, sync, crossed>>
  BY DEF BuildGameBlock
<1>3. built \in Nat
  BY ChainParameters DEF BlocksInv
<1>4. b.weight \in Nat /\ b.weight <= built + 1
  BY <1>1, <1>3, TipTypes
<1> HIDE DEF b
<1> QED BY <1>1, <1>2, <1>3, <1>4, BuildBlocks

\* A block of the gossip stored while nothing but a call's locals moves.
LEMMA KnownBlocks ==
    ASSUME BlocksInv, NEW n \in Nodes, NEW b \in gossip,
           Acceptable(applied[n], b), Adopt(n, b),
           UNCHANGED <<gossip, built, restarts>>,
           sync' \in [Workers -> SyncType(gossip)],
           \A w \in Workers : sync'[w].pc # "idle" => sync'[w].peer \in Nodes
    PROVE  BlocksInv'
<1>1. b.index \in 0 .. MaxIndex /\ b.nonce \in Int /\ b.nonce <= built
      /\ built \in Nat
  BY ChainParameters DEF BlocksInv, Built, Block
<1>2. /\ Contents(gossip)
      /\ latest \in [Nodes -> (-1 .. MaxIndex) \cup {None}]
      /\ \A o, p \in Nodes : NonceOf(applied[o], p) <= built
  BY DEF BlocksInv
<1>3. /\ db' \in [Nodes -> [0 .. MaxIndex -> gossip \cup {None}]]
      /\ last' \in [Nodes -> gossip \cup {ZeroBlock, RootBlock}]
      /\ applied' \in [Nodes -> Seq(gossip)]
      /\ latest' \in [Nodes -> (-1 .. MaxIndex) \cup {None}]
      /\ \A o, p \in Nodes : NonceOf(applied'[o], p) <= built
  BY <1>1, <1>2, Stored
<1>4. Contents(gossip)'
  BY <1>3 DEF Contents, SyncType
<1> QED BY <1>3, <1>4 DEF BlocksInv, Built

LEMMA DeliverBlocks ==
    ASSUME BlocksInv, NEW n \in Nodes, NEW b, Deliver(n, b)
    PROVE  BlocksInv'
<1>1. /\ b \in gossip /\ Acceptable(applied[n], b) /\ Adopt(n, b)
      /\ UNCHANGED <<gossip, built, restarts, sync>>
  BY DEF Deliver, AddBlock, Adopt
<1>2. /\ sync' \in [Workers -> SyncType(gossip)]
      /\ \A w \in Workers : sync'[w].pc # "idle" => sync'[w].peer \in Nodes
  BY <1>1 DEF BlocksInv, Contents
<1> QED BY <1>1, <1>2, KnownBlocks

LEMMA StoreNextBlocks ==
    ASSUME BlocksInv, NEW w \in Workers, StoreNext(w)
    PROVE  BlocksInv'
<1> DEFINE n == NodeOf[w]
           s == sync[w]
<1>0. n \in Nodes /\ s \in SyncType(gossip) /\ s.pending \in Seq(gossip)
  BY ChainParameters DEF BlocksInv, Contents, SyncType
<1>1. CASE Goto(w, Idle) /\ UNCHANGED nodeVars
  BY <1>1, IdleType, MovedBlocks DEF Idle
<1>2. CASE /\ s.pending # << >> /\ Acceptable(applied[n], Head(s.pending))
           /\ Adopt(n, Head(s.pending))
           /\ Goto(w, [s EXCEPT !.pending = Tail(@)])
  <2>1. Head(s.pending) \in gossip /\ Tail(s.pending) \in Seq(gossip)
    BY <1>0, <1>2
  <2>2. /\ sync' = [sync EXCEPT ![w] = [s EXCEPT !.pending = Tail(@)]]
        /\ UNCHANGED <<gossip, built, restarts>>
    BY <1>2 DEF Goto
  <2>3. [s EXCEPT !.pending = Tail(@)] \in SyncType(gossip)
    BY <1>0, <2>1 DEF SyncType
  <2>4. sync' \in [Workers -> SyncType(gossip)]
    BY <2>2, <2>3 DEF BlocksInv, Contents
  <2>5. \A v \in Workers : sync'[v].pc # "idle" => sync'[v].peer \in Nodes
    BY <2>2, <1>0 DEF BlocksInv, Contents, SyncType
  <2> HIDE DEF n, s
  <2> QED BY <1>0, <1>2, <2>1, <2>2, <2>4, <2>5, KnownBlocks
<1> QED BY <1>1, <1>2 DEF StoreNext

\* The least of some indices.
LEMMA MinOfIndices ==
    ASSUME NEW U \in SUBSET Nat, U # {}
    PROVE  Min(U) \in U /\ \A u \in U : Min(U) <= u
BY LeastNatural DEF Min

\* A node reads from its own database.
LEMMA ReplayedBlocks ==
    ASSUME BlocksInv, NEW n \in Nodes, latest[n] # None
    PROVE  Replayed(n) \in Seq(gossip)
<1> DEFINE gaps == {i \in 0 .. latest[n] : db[n][i] = None}
           end == IF gaps = {} THEN latest[n] + 1 ELSE Min(gaps)
<1>1. latest[n] \in -1 .. MaxIndex /\ MaxIndex \in Nat
  BY ChainParameters DEF BlocksInv
<1>2. gaps \in SUBSET Nat
  BY <1>1
<1>3. end \in Int
  <2>1. CASE gaps = {}
    BY <2>1, <1>1
  <2>2. CASE gaps # {}
    <3> HIDE DEF gaps
    <3>1. Min(gaps) \in Nat
      BY <2>2, <1>2, MinOfIndices
    <3> QED BY <3>1, <2>2
  <2> QED BY <2>1, <2>2
<1>4. db[n] \in [0 .. MaxIndex -> gossip \cup {None}]
  BY DEF BlocksInv, Contents
<1>5. Replayed(n) = BlocksRange(db[n], 0, end)
  BY DEF Replayed
<1> HIDE DEF end
<1> QED BY <1>3, <1>4, <1>5, RangeBlocks

\* The end of a replay is a block read or the given one.
LEMMA TipOf ==
    ASSUME NEW g, NEW s \in Seq(g), NEW none
    PROVE  Tip(s, none) \in g \cup {none}
<1>1. CASE s = << >>
  BY <1>1 DEF Tip
<1>2. CASE s # << >>
  <2>1. Len(s) \in Nat /\ Len(s) # 0 /\ \A i \in 1 .. Len(s) : s[i] \in g
    BY <1>2, EmptySeq
  <2>2. s[Len(s)] \in g
    BY <2>1
  <2> QED BY <2>2, <1>2 DEF Tip, Last
<1> QED BY <1>1, <1>2

LEMMA RestartBlocks ==
    ASSUME BlocksInv, NEW n \in Nodes, Restart(n)
    PROVE  BlocksInv'
<1>0. /\ UNCHANGED <<db, latest, gossip, built>>
      /\ sync' = [w \in Workers |-> IF NodeOf[w] = n THEN Idle ELSE sync[w]]
      /\ restarts' \in 0 .. MaxRestarts
  BY ChainParameters DEF Restart, BlocksInv
<1>1. sync' \in [Workers -> SyncType(gossip)]
  BY <1>0, IdleType DEF BlocksInv, Contents
<1>2. \A w \in Workers : sync'[w].pc # "idle" => sync'[w].peer \in Nodes
  BY <1>0 DEF BlocksInv, Idle
<1>3. PICK s \in Seq(gossip), tip \in gossip \cup {ZeroBlock} :
         /\ last' = [last EXCEPT ![n] = tip]
         /\ applied' = [applied EXCEPT ![n] = Replay(s)]
  <2>1. CASE latest[n] = None
    <3>1. << >> \in Seq(gossip) /\ Replay(<< >>) = << >>
      <4>1. \A t \in Seq(gossip), b \in gossip : Process(t, b) \in Seq(gossip)
        BY DEF Process, Apply
      <4>2. << >> \in Seq(gossip)
        OBVIOUS
      <4> QED BY <4>1, <4>2, ReplayFold
    <3> QED BY <3>1, <2>1 DEF Restart
  <2>2. CASE latest[n] # None
    <3>1. Replayed(n) \in Seq(gossip)
      BY <2>2, ReplayedBlocks
    <3>2. Tip(Replayed(n), ZeroBlock) \in gossip \cup {ZeroBlock}
      BY <3>1, TipOf
    <3> QED BY <3>1, <3>2, <2>2 DEF Restart
  <2> QED BY <2>1, <2>2
<1>4. /\ Replay(s) \in Seq(gossip)
      /\ \A p \in Nodes : NonceOf(Replay(s), p) <= built
  BY ReplayKeeps
<1>5. Contents(gossip)'
  BY <1>0, <1>1, <1>3, <1>4 DEF BlocksInv, Contents, SyncType
<1>6. \A o, p \in Nodes : NonceOf(applied'[o], p) <= built'
  BY <1>0, <1>3, <1>4 DEF BlocksInv, Contents
<1> QED BY <1>0, <1>2, <1>5, <1>6 DEF BlocksInv, Built

LEMMA AskStatusBlocks ==
    ASSUME BlocksInv, NEW w \in Workers, NEW q \in Nodes, AskStatus(w, q)
    PROVE  BlocksInv'
<1> DEFINE rec == [Idle EXCEPT !.pc = "local", !.peer = q,
                               !.height = Height(q), !.weight = last[q].weight]
<1>1. Height(q) \in Int /\ last[q].weight \in Int
  BY TipTypes DEF Height
<1>2. rec \in SyncType(gossip) /\ rec.peer = q
  BY <1>1, IdleType DEF SyncType, Idle
<1>3. Goto(w, rec) /\ UNCHANGED nodeVars
  BY DEF AskStatus
<1> HIDE DEF rec
<1> QED BY <1>2, <1>3, MovedBlocks

LEMMA ReadLocalBlocks ==
    ASSUME BlocksInv, NEW w \in Workers, ReadLocal(w)
    PROVE  BlocksInv'
<1> DEFINE n == NodeOf[w]
           s == sync[w]
           rec == [s EXCEPT !.pc = "tip", !.localHeight = Height(n),
                            !.localWeight = last[n].weight,
                            !.high = Min({Height(n), s.height}) - 1]
<1>0. n \in Nodes /\ s \in SyncType(gossip) /\ s.pc = "local"
  BY ChainParameters DEF BlocksInv, Contents, ReadLocal, At
<1>1. s.peer \in Nodes
  BY <1>0 DEF BlocksInv
<1>2. Height(n) \in Int /\ last[n].weight \in Int /\ s.height \in Int
  BY <1>0, TipTypes DEF Height, SyncType
<1>3. Min({Height(n), s.height}) \in Int
  BY <1>2, MinOfTwo
<1>4. rec \in SyncType(gossip) /\ rec.peer \in Nodes
  <2> DEFINE h == Height(n)
             l == last[n].weight
             m == Min({Height(n), s.height}) - 1
  <2>1. h \in Int /\ l \in Int /\ m \in Int
    BY <1>2, <1>3
  <2> HIDE DEF s, n, h, l, m
  <2>2. [s EXCEPT !.pc = "tip", !.localHeight = h, !.localWeight = l,
                  !.high = m] \in SyncType(gossip)
    BY <1>0, <2>1 DEF SyncType
  <2> QED BY <1>0, <1>1, <2>2 DEF SyncType, h, l, m
<1>5. UNCHANGED nodeVars /\ (Goto(w, Idle) \/ Goto(w, rec))
  BY DEF ReadLocal
<1> HIDE DEF rec
<1> QED BY <1>4, <1>5, IdleType, MovedBlocks DEF Idle

\* Only an index of the databases verifies.
LEMMA VerifiedIndex ==
    ASSUME NEW w, NEW i, NEW ok, Verified(w, i, ok)
    PROVE  i \in -1 .. MaxIndex /\ i \in Int
BY ChainParameters DEF Verified

LEMMA CheckTipBlocks ==
    ASSUME BlocksInv, NEW w \in Workers, NEW ok, CheckTip(w, ok)
    PROVE  BlocksInv'
<1> DEFINE s == sync[w]
           found == [s EXCEPT !.pc = "fetch", !.ancestor = s.high,
                              !.start = s.high + 1]
           search == [s EXCEPT !.pc = "search"]
<1>0. s \in SyncType(gossip) /\ s.pc = "tip" /\ s.peer \in Nodes
  BY DEF BlocksInv, Contents, CheckTip, At
<1>1. UNCHANGED nodeVars
      /\ ((Goto(w, found) /\ Verified(w, s.high, ok)) \/ Goto(w, search))
  BY DEF CheckTip
<1>2. search \in SyncType(gossip) /\ search.peer \in Nodes
  BY <1>0 DEF SyncType
<1>3. ASSUME Verified(w, s.high, ok)
      PROVE  found \in SyncType(gossip) /\ found.peer \in Nodes
  <2>1. s.high \in -1 .. MaxIndex /\ s.high + 1 \in Int
    BY <1>3, VerifiedIndex
  <2> QED BY <1>0, <2>1 DEF SyncType
<1> HIDE DEF found, search
<1> QED BY <1>1, <1>2, <1>3, MovedBlocks

LEMMA ProbeBlocks ==
    ASSUME BlocksInv, NEW w \in Workers, NEW ok, Probe(w, ok)
    PROVE  BlocksInv'
<1> DEFINE s == sync[w]
           over == [s EXCEPT !.pc = "fetch", !.start = s.ancestor + 1]
           hit == [s EXCEPT !.ancestor = Mid(s), !.low = Mid(s) + 1]
           miss == [s EXCEPT !.high = Mid(s) - 1]
<1>0. s \in SyncType(gossip) /\ s.pc = "search" /\ s.peer \in Nodes
  BY DEF BlocksInv, Contents, Probe, At
<1>1. UNCHANGED nodeVars
      /\ \/ Goto(w, over)
         \/ Goto(w, hit) /\ Verified(w, Mid(s), ok)
         \/ Goto(w, miss)
  BY DEF Probe, Probed
<1>2. Mid(s) \in Int /\ s.ancestor \in Int
  BY <1>0 DEF Mid, SyncType
<1> DEFINE m == Mid(s)
<1>3. over \in SyncType(gossip) /\ over.peer \in Nodes
  <2> DEFINE a == s.ancestor + 1
  <2>1. a \in Int
    BY <1>2
  <2> HIDE DEF s, a
  <2>2. [s EXCEPT !.pc = "fetch", !.start = a] \in SyncType(gossip)
    BY <1>0, <2>1 DEF SyncType
  <2> QED BY <1>0, <2>2 DEF SyncType, a
<1>4. miss \in SyncType(gossip) /\ miss.peer \in Nodes
  <2>1. m - 1 \in Int
    BY <1>2
  <2> HIDE DEF s, m
  <2>2. [s EXCEPT !.high = m - 1] \in SyncType(gossip)
    BY <1>0, <2>1 DEF SyncType
  <2> QED BY <1>0, <2>2 DEF SyncType, m
<1>5. ASSUME Verified(w, Mid(s), ok)
      PROVE  hit \in SyncType(gossip) /\ hit.peer \in Nodes
  <2>1. m \in -1 .. MaxIndex /\ m + 1 \in Int
    BY <1>5, VerifiedIndex
  <2> HIDE DEF s, m
  <2>2. [s EXCEPT !.ancestor = m, !.low = m + 1] \in SyncType(gossip)
    BY <1>0, <2>1 DEF SyncType
  <2> QED BY <1>0, <2>2 DEF SyncType, m
<1> HIDE DEF over, hit, miss
<1> QED BY <1>1, <1>3, <1>4, <1>5, MovedBlocks

\* A peer serves built blocks.
LEMMA ServedBlocks ==
    ASSUME BlocksInv, NEW q \in Nodes, NEW start \in Int
    PROVE  Served(q, start) \in Seq(gossip)
<1>1. Height(q) \in Int /\ start + Batch \in Int
  BY TipTypes, ChainParameters DEF Height
<1>2. Min({start + Batch, Height(q)}) \in Int
  BY <1>1, MinOfTwo
<1>3. db[q] \in [0 .. MaxIndex -> gossip \cup {None}]
  BY DEF BlocksInv, Contents
<1>4. BlocksRange(db[q], start, Min({start + Batch, Height(q)})) \in Seq(gossip)
  BY <1>2, <1>3, RangeBlocks
<1> QED BY <1>4 DEF Served

LEMMA FetchBlocks ==
    ASSUME BlocksInv, NEW w \in Workers, NEW ok, Fetch(w, ok)
    PROVE  BlocksInv'
<1> DEFINE s == sync[w]
           blocks == IF s.start < s.height /\ ok THEN Served(s.peer, s.start)
                                                 ELSE << >>
           over == [s EXCEPT !.pc = "apply"]
           more == [s EXCEPT !.pending = s.pending \o blocks,
                             !.start = s.start + Len(blocks)]
<1>0. /\ s \in SyncType(gossip) /\ s.pc = "fetch" /\ s.peer \in Nodes
      /\ s.start \in Int /\ s.pending \in Seq(gossip)
  BY DEF BlocksInv, Contents, Fetch, At, SyncType
<1>1. UNCHANGED nodeVars /\ (Goto(w, over) \/ Goto(w, more))
  BY DEF Fetch
<1>2. over \in SyncType(gossip) /\ over.peer \in Nodes
  BY <1>0 DEF SyncType
<1>3. blocks \in Seq(gossip)
  BY <1>0, ServedBlocks
<1>4. s.pending \o blocks \in Seq(gossip) /\ s.start + Len(blocks) \in Int
  <2> HIDE DEF blocks, s
  <2> QED BY <1>0, <1>3
<1>5. more \in SyncType(gossip) /\ more.peer \in Nodes
  <2> HIDE DEF blocks
  <2> QED BY <1>0, <1>4 DEF SyncType
<1> HIDE DEF over, more
<1> QED BY <1>1, <1>2, <1>5, MovedBlocks

LEMMA ApplyPendingBlocks ==
    ASSUME BlocksInv, NEW w \in Workers, ApplyPending(w)
    PROVE  BlocksInv'
<1> DEFINE n == NodeOf[w]
           s == sync[w]
           trimmed == Trimmed(n, s)
           kept == BlocksRange(trimmed, 0, s.ancestor + 1)
           adopt == [s EXCEPT !.pc = "adopt"]
<1>0. /\ n \in Nodes /\ s \in SyncType(gossip) /\ s.pc = "apply"
      /\ s.peer \in Nodes /\ s.ancestor \in -1 .. MaxIndex
  BY ChainParameters DEF BlocksInv, Contents, ApplyPending, At, SyncType
<1>1. CASE Goto(w, Idle) /\ UNCHANGED nodeVars
  BY <1>1, IdleType, MovedBlocks DEF Idle
<1>2. CASE /\ Goto(w, adopt)
           /\ db' = [db EXCEPT ![n] = trimmed]
           /\ latest' = [latest EXCEPT ![n] = s.ancestor]
           /\ last' = [last EXCEPT ![n] = Tip(kept, RootBlock)]
           /\ applied' = [applied EXCEPT ![n] = Replay(kept)]
  <2>1. /\ sync' = [sync EXCEPT ![w] = adopt]
        /\ UNCHANGED <<gossip, built, restarts>>
    BY <1>2 DEF Goto
  <2>2. adopt \in SyncType(gossip) /\ adopt.peer \in Nodes
    BY <1>0 DEF SyncType
  <2>3. trimmed \in [0 .. MaxIndex -> gossip \cup {None}]
    <3>1. db[n] \in [0 .. MaxIndex -> gossip \cup {None}]
      BY <1>0 DEF BlocksInv, Contents
    <3> HIDE DEF n, s
    <3> QED BY <3>1 DEF Trimmed
  <2>4. kept \in Seq(gossip)
    <3>1. s.ancestor + 1 \in Int
      BY <1>0
    <3> HIDE DEF trimmed
    <3> QED BY <3>1, <2>3, RangeBlocks
  <2> HIDE DEF kept, trimmed, adopt
  <2>5. /\ Replay(kept) \in Seq(gossip)
        /\ \A p \in Nodes : NonceOf(Replay(kept), p) <= built
        /\ Tip(kept, RootBlock) \in gossip \cup {RootBlock}
    BY <2>4, ReplayKeeps, TipOf
  <2>6. db' \in [Nodes -> [0 .. MaxIndex -> gossip \cup {None}]]
    BY <1>2, <2>3 DEF BlocksInv, Contents
  <2>7. last' \in [Nodes -> gossip \cup {ZeroBlock, RootBlock}]
    BY <1>2, <2>5 DEF BlocksInv, Contents
  <2>8. /\ applied' \in [Nodes -> Seq(gossip)]
        /\ \A o, p \in Nodes : NonceOf(applied'[o], p) <= built
    BY <1>2, <2>5 DEF BlocksInv, Contents
  <2>9. latest' \in [Nodes -> (-1 .. MaxIndex) \cup {None}]
    BY <1>0, <1>2 DEF BlocksInv
  <2>10. sync' \in [Workers -> SyncType(gossip)]
    BY <2>1, <2>2 DEF BlocksInv, Contents
  <2>11. Contents(gossip)'
    BY <2>1, <2>6, <2>7, <2>8, <2>10 DEF Contents, SyncType
  <2>12. \A v \in Workers : sync'[v].pc # "idle" => sync'[v].peer \in Nodes
    BY <2>1, <2>2 DEF BlocksInv, Contents
  <2> QED BY <2>1, <2>8, <2>9, <2>11, <2>12 DEF BlocksInv, Built
<1> QED BY <1>1, <1>2 DEF ApplyPending, TrimmedLatest

\* Every step keeps what the blocks, databases and ledgers look like, whatever
\* calls of TriggerSync run.
LEMMA BlocksStep == BlocksInv /\ [Next]_vars => BlocksInv'
<1> SUFFICES ASSUME BlocksInv, [Next]_vars PROVE BlocksInv'
  OBVIOUS
<1>1. ASSUME NEW n \in Nodes, BuildTxBlock(n) PROVE BlocksInv'
  BY <1>1, BuildTxBlocks
<1>2. ASSUME NEW n \in Nodes, BuildGameBlock(n) PROVE BlocksInv'
  BY <1>2, BuildGameBlocks
<1>3. ASSUME NEW n \in Nodes, NEW b \in gossip, Deliver(n, b) PROVE BlocksInv'
  BY <1>3, DeliverBlocks
<1>4. ASSUME NEW n \in Nodes, Restart(n) PROVE BlocksInv'
  BY <1>4, RestartBlocks
<1>5. ASSUME NEW w \in Workers, NEW q \in Nodes, AskStatus(w, q)
      PROVE  BlocksInv'
  BY <1>5, AskStatusBlocks
<1>6. ASSUME NEW w \in Workers, ReadLocal(w) PROVE BlocksInv'
  BY <1>6, ReadLocalBlocks
<1>7. ASSUME NEW w \in Workers, NEW ok, CheckTip(w, ok) PROVE BlocksInv'
  BY <1>7, CheckTipBlocks
<1>8. ASSUME NEW w \in Workers, NEW ok, Probe(w, ok) PROVE BlocksInv'
  BY <1>8, ProbeBlocks
<1>9. ASSUME NEW w \in Workers, NEW ok, Fetch(w, ok) PROVE BlocksInv'
  BY <1>9, FetchBlocks
<1>10. ASSUME NEW w \in Workers, ApplyPending(w) PROVE BlocksInv'
  BY <1>10, ApplyPendingBlocks
<1>11. ASSUME NEW w \in Workers, StoreNext(w) PROVE BlocksInv'
  BY <1>11, StoreNextBlocks
<1>12. CASE UNCHANGED vars
  BY <1>12 DEF vars, nodeVars, BlocksInv, Built, Contents, SyncType
<1> HIDE DEF BlocksInv
<1> QED BY <1>1, <1>2, <1>3, <1>4, <1>5, <1>6, <1>7, <1>8, <1>9, <1>10, <1>11,
           <1>12 DEF Next, SyncStep

\* The history goes from false to true.
LEMMA CrossedStep ==
    ASSUME [Next]_vars, crossed \in BOOLEAN
    PROVE  crossed' \in BOOLEAN /\ (crossed => crossed')
<1>1. \/ crossed' = crossed
      \/ \E n \in Nodes, ws \in SUBSET Workers : CutBack(n, ws)
  <2>1. \A n \in Nodes : \A b :
           BuildTxBlock(n) \/ BuildGameBlock(n) \/ Deliver(n, b)
           => crossed' = crossed
    BY DEF BuildTxBlock, BuildGameBlock, Deliver
  <2>2. \A n \in Nodes : Restart(n) => \E ws \in SUBSET Workers : CutBack(n, ws)
    <3> SUFFICES ASSUME NEW n \in Nodes, Restart(n)
                 PROVE  \E ws \in SUBSET Workers : CutBack(n, ws)
      OBVIOUS
    <3>1. CutBack(n, {w \in Workers : NodeOf[w] # n})
      BY DEF Restart
    <3> HIDE DEF CutBack
    <3> QED BY <3>1
  <2>3. \A w \in Workers, q \in Nodes : AskStatus(w, q) => crossed' = crossed
    BY DEF AskStatus, nodeVars
  <2>4. \A w \in Workers : ReadLocal(w) => crossed' = crossed
    BY DEF ReadLocal, nodeVars
  <2>5. \A w \in Workers : \A ok :
           CheckTip(w, ok) \/ Probe(w, ok) \/ Fetch(w, ok)
           => crossed' = crossed
    BY DEF CheckTip, Probe, Fetch, nodeVars
  <2>6. \A w \in Workers : ApplyPending(w) =>
           \/ crossed' = crossed
           \/ \E ws \in SUBSET Workers : CutBack(NodeOf[w], ws)
    <3> SUFFICES ASSUME NEW w \in Workers, ApplyPending(w), crossed' # crossed
                 PROVE  \E ws \in SUBSET Workers : CutBack(NodeOf[w], ws)
      OBVIOUS
    <3>1. CutBack(NodeOf[w], Workers \ {w})
      BY DEF ApplyPending, nodeVars
    <3> HIDE DEF CutBack
    <3> QED BY <3>1
  <2>7. \A w \in Workers : StoreNext(w) => crossed' = crossed
    BY DEF StoreNext, nodeVars
  <2>8. UNCHANGED vars => crossed' = crossed
    BY DEF vars, nodeVars
  <2>9. \A w \in Workers : NodeOf[w] \in Nodes
    BY ChainParameters
  <2> QED BY <2>1, <2>2, <2>3, <2>4, <2>5, <2>6, <2>7, <2>8, <2>9, Zenon
          DEF Next, SyncStep
<1> QED BY <1>1, Zenon DEF CutBack

\* A call enters the locked section when nobody is in it.
LEMMA ExclusiveStep ==
    ASSUME BlocksInv, Exclusive, [Next]_vars
    PROVE  Exclusive'
<1> DEFINE Moves(w) ==
             /\ \A v \in Workers \ {w} : sync'[v] = sync[v]
             /\ \/ sync'[w].pc # "adopt"
                \/ sync[w].pc = "adopt"
                \/ Unlocked(NodeOf[w])
<1>1. ASSUME NEW w \in Workers, Moves(w) PROVE Exclusive'
  BY <1>1 DEF Exclusive, Unlocked
<1>2. ASSUME NEW w \in Workers, NEW rec, Goto(w, rec),
             \/ rec.pc # "adopt"
             \/ sync[w].pc = "adopt"
             \/ Unlocked(NodeOf[w])
      PROVE  Exclusive'
  <2>1. /\ sync'[w] = rec
        /\ \A v \in Workers \ {w} : sync'[v] = sync[v]
    BY <1>2 DEF Goto, BlocksInv, Contents
  <2> QED BY <1>1, <1>2, <2>1
<1> HIDE DEF Moves
<1>3. Idle.pc = "idle"
  BY DEF Idle
<1>4. ASSUME sync' = sync PROVE Exclusive'
  BY <1>4 DEF Exclusive
<1>5. ASSUME NEW n \in Nodes, Restart(n) PROVE Exclusive'
  <2>1. \A v \in Workers : sync'[v] = IF NodeOf[v] = n THEN Idle ELSE sync[v]
    BY <1>5 DEF Restart
  <2>2. \A v \in Workers : sync'[v].pc = "adopt" => sync'[v] = sync[v]
    BY <2>1, <1>3
  <2> QED BY <2>2 DEF Exclusive
<1>6. ASSUME NEW w \in Workers, NEW q \in Nodes, AskStatus(w, q)
      PROVE  Exclusive'
  <2> DEFINE rec == [Idle EXCEPT !.pc = "local", !.peer = q,
                                 !.height = Height(q), !.weight = last[q].weight]
  <2>1. Goto(w, rec)
    BY <1>6 DEF AskStatus
  <2>2. rec.pc = "local"
    BY DEF Idle
  <2> HIDE DEF rec
  <2> QED BY <1>2, <2>1, <2>2
<1>7. \A w \in Workers : sync[w] \in SyncType(gossip)
  BY DEF BlocksInv, Contents
<1>8. ASSUME NEW w \in Workers, ReadLocal(w) PROVE Exclusive'
  <2> DEFINE s == sync[w]
             n == NodeOf[w]
             rec == [s EXCEPT !.pc = "tip", !.localHeight = Height(n),
                              !.localWeight = last[n].weight,
                              !.high = Min({Height(n), s.height}) - 1]
  <2>1. Goto(w, Idle) \/ Goto(w, rec)
    BY <1>8 DEF ReadLocal
  <2>2. s \in SyncType(gossip)
    BY <1>7
  <2> HIDE DEF s
  <2>3. rec.pc = "tip"
    BY <2>2 DEF SyncType
  <2> HIDE DEF rec
  <2> QED BY <1>2, <1>3, <2>1, <2>3
<1>9. ASSUME NEW w \in Workers, NEW ok, CheckTip(w, ok) PROVE Exclusive'
  <2> DEFINE s == sync[w]
             found == [s EXCEPT !.pc = "fetch", !.ancestor = s.high,
                                !.start = s.high + 1]
             search == [s EXCEPT !.pc = "search"]
  <2>1. Goto(w, found) \/ Goto(w, search)
    BY <1>9 DEF CheckTip
  <2>2. s \in SyncType(gossip)
    BY <1>7
  <2> HIDE DEF s
  <2>3. found.pc = "fetch" /\ search.pc = "search"
    BY <2>2 DEF SyncType
  <2> HIDE DEF found, search
  <2> QED BY <1>2, <2>1, <2>3
<1>10. ASSUME NEW w \in Workers, NEW ok, Probe(w, ok) PROVE Exclusive'
  <2> DEFINE s == sync[w]
             m == Mid(s)
             over == [s EXCEPT !.pc = "fetch", !.start = s.ancestor + 1]
             hit == [s EXCEPT !.ancestor = m, !.low = m + 1]
             miss == [s EXCEPT !.high = m - 1]
  <2>1. (Goto(w, over) \/ Goto(w, hit) \/ Goto(w, miss)) /\ s.pc = "search"
    BY <1>10 DEF Probe, Probed, At
  <2>2. s \in SyncType(gossip)
    BY <1>7
  <2> HIDE DEF s, m
  <2>3. over.pc = "fetch" /\ hit.pc = "search" /\ miss.pc = "search"
    BY <2>1, <2>2 DEF SyncType
  <2> HIDE DEF over, hit, miss
  <2> QED BY <1>2, <2>1, <2>3
<1>11. ASSUME NEW w \in Workers, NEW ok, Fetch(w, ok) PROVE Exclusive'
  <2> DEFINE s == sync[w]
             blocks == Served(s.peer, s.start)
             over == [s EXCEPT !.pc = "apply"]
             more == [s EXCEPT !.pending = s.pending \o blocks,
                               !.start = s.start + Len(blocks)]
  <2>1. (Goto(w, over) \/ Goto(w, more)) /\ s.pc = "fetch"
    BY <1>11 DEF Fetch, At
  <2>2. s \in SyncType(gossip)
    BY <1>7
  <2> HIDE DEF s, blocks
  <2>3. over.pc = "apply" /\ more.pc = "fetch"
    BY <2>1, <2>2 DEF SyncType
  <2> HIDE DEF over, more
  <2> QED BY <1>2, <2>1, <2>3
<1>12. ASSUME NEW w \in Workers, ApplyPending(w) PROVE Exclusive'
  <2> DEFINE rec == [sync[w] EXCEPT !.pc = "adopt"]
  <2>1. Goto(w, Idle) \/ (Goto(w, rec) /\ Unlocked(NodeOf[w]))
    BY <1>12 DEF ApplyPending
  <2> HIDE DEF rec
  <2> QED BY <1>2, <1>3, <2>1
<1>13. ASSUME NEW w \in Workers, StoreNext(w) PROVE Exclusive'
  <2> DEFINE rec == [sync[w] EXCEPT !.pending = Tail(sync[w].pending)]
  <2>1. (Goto(w, Idle) \/ Goto(w, rec)) /\ sync[w].pc = "adopt"
    BY <1>13 DEF StoreNext, At
  <2> HIDE DEF rec
  <2> QED BY <1>2, <2>1
<1>14. \A n \in Nodes : \A b :
          BuildTxBlock(n) \/ BuildGameBlock(n) \/ Deliver(n, b) => sync' = sync
  BY DEF BuildTxBlock, BuildGameBlock, Deliver
<1>15. UNCHANGED vars => sync' = sync
  BY DEF vars
<1> QED BY <1>4, <1>5, <1>6, <1>8, <1>9, <1>10, <1>11, <1>12, <1>13, <1>14,
           <1>15 DEF Next, SyncStep

\* What is anywhere in a chain, a database, a ledger or a download is a built
\* block of the declared widths, and no index leaves them: for any number of
\* calls of TriggerSync, restarts and failing requests.
THEOREM TypeCorrect == Spec => []TypeOK
<1>1. BlocksInv /\ crossed \in BOOLEAN => TypeOK
  <2> SUFFICES ASSUME BlocksInv, crossed \in BOOLEAN PROVE TypeOK
    OBVIOUS
  <2>1. gossip \subseteq Block
    BY DEF BlocksInv, Built
  <2>2. Seq(gossip) \subseteq Seq(Block)
    BY <2>1, SeqMonotonic
  <2>3. db \in [Nodes -> [0 .. MaxIndex -> Block \cup {None}]]
    BY <2>1 DEF BlocksInv, Contents
  <2>4. last \in [Nodes -> Block]
    BY <2>1, FixedBlocks DEF BlocksInv, Contents
  <2>5. applied \in [Nodes -> Seq(Block)]
    BY <2>2 DEF BlocksInv, Contents
  <2>6. \A w \in Workers : sync[w].pending \in Seq(Block)
    BY <2>2 DEF BlocksInv, Contents, SyncType
  <2> QED BY <2>1, <2>3, <2>4, <2>5, <2>6 DEF BlocksInv, TypeOK
<1>2. Init => crossed \in BOOLEAN
  BY DEF Init
<1>3. crossed \in BOOLEAN /\ [Next]_vars => (crossed \in BOOLEAN)'
  BY CrossedStep
<1> QED BY <1>1, <1>2, <1>3, BlocksInit, BlocksStep, PTL DEF Spec

-----------------------------------------------------------------------------
(* Chains in a database.                                                   *)

\* The first blocks of a chain.
LEMMA PrefixOf ==
    ASSUME NEW g, NEW d, NEW k \in Int, Chained(g, d, k), NEW j \in Int, j <= k
    PROVE  /\ Prefix(d, j) \in Seq(g)
           /\ j <= 0 => Prefix(d, j) = << >>
           /\ j >= 0 => Len(Prefix(d, j)) = j
           /\ Chained(g, d, j)
<1>1. \A i \in 1 .. j : i \in 1 .. k
  OBVIOUS
<1>2. Chained(g, d, j)
  BY <1>1 DEF Chained
<1>3. \A i \in 1 .. j : d[i] \in g
  BY <1>2 DEF Chained
<1>4. CASE j > 0
  <2>1. j \in Nat
    BY <1>4
  <2> QED BY <2>1, <1>2, <1>3, <1>4 DEF Prefix
<1>5. CASE j <= 0
  <2>1. 1 .. j = {}
    BY <1>5
  <2>2. Prefix(d, j) = << >>
    BY <2>1 DEF Prefix
  <2> QED BY <2>2, <1>2, <1>5
<1> QED BY <1>4, <1>5

\* A chain is its blocks, wherever they are stored.
LEMMA ChainedCopy ==
    ASSUME NEW g, NEW h, g \subseteq h, NEW d, NEW e, NEW k \in Int,
           Chained(g, d, k), \A i \in 1 .. k : e[i] = d[i]
    PROVE  Chained(h, e, k) /\ \A j \in Int : j <= k => Prefix(e, j) = Prefix(d, j)
<1>1. ASSUME NEW j \in Int, j <= k PROVE Prefix(e, j) = Prefix(d, j)
  <2>1. \A i \in 1 .. j : e[i] = d[i]
    BY <1>1
  <2> QED BY <2>1 DEF Prefix
<1>2. ASSUME NEW i \in 1 .. k
      PROVE  /\ e[i] \in h
             /\ e[i].index = i
             /\ i > 1 => e[i].prev = e[i - 1].hash
             /\ Acceptable(Transactions(Prefix(e, i - 1)), e[i])
  <2>1. Prefix(e, i - 1) = Prefix(d, i - 1)
    <3>1. i - 1 \in Int /\ i - 1 <= k
      OBVIOUS
    <3> QED BY <3>1, <1>1
  <2>2. i > 1 => i - 1 \in 1 .. k
    OBVIOUS
  <2> QED BY <2>1, <2>2 DEF Chained
<1>3. Chained(h, e, k)
  BY <1>2 DEF Chained
<1> QED BY <1>1, <1>3

\* The whole of it.
LEMMA ChainedSame ==
    ASSUME NEW g, NEW d, NEW e, NEW k \in Int,
           Chained(g, d, k), \A i \in 1 .. k : e[i] = d[i]
    PROVE  Chained(g, e, k) /\ Prefix(e, k) = Prefix(d, k)
<1>1. g \subseteq g /\ k <= k
  OBVIOUS
<1> QED BY <1>1, ChainedCopy

\* One more index.
LEMMA PrefixAppend ==
    ASSUME NEW d, NEW e, NEW k \in Nat, \A i \in 1 .. k : e[i] = d[i]
    PROVE  Prefix(e, k + 1) = Append(Prefix(d, k), e[k + 1])
<1> DEFINE B == {e[i] : i \in 1 .. k + 1}
<1>1. \A i \in 1 .. k + 1 : e[i] \in B
  OBVIOUS
<1>2. Prefix(d, k) = Prefix(e, k)
  BY DEF Prefix
<1> HIDE DEF B
<1> QED BY <1>1, <1>2, AppendElement DEF Prefix

\* A chain with one more block.
LEMMA ChainedAppend ==
    ASSUME NEW g, NEW h, NEW d, NEW e, NEW b, NEW k \in Nat,
           g \subseteq h, Chained(g, d, k), \A i \in 1 .. k : e[i] = d[i],
           b \in h, e[k + 1] = b, b.index = k + 1,
           k >= 1 => b.prev = d[k].hash,
           Acceptable(Transactions(Prefix(d, k)), b)
    PROVE  /\ Chained(h, e, k + 1)
           /\ Transactions(Prefix(e, k + 1))
                 = Apply(Transactions(Prefix(d, k)), b)
<1>1. Chained(h, e, k) /\ Prefix(e, k) = Prefix(d, k)
      /\ \A j \in Int : j <= k => Prefix(e, j) = Prefix(d, j)
  <2>1. k \in Int /\ k <= k
    OBVIOUS
  <2> QED BY <2>1, ChainedCopy
<1>2. \A i \in 1 .. k + 1 : e[i] \in h
  BY <1>1 DEF Chained
<1>3. Prefix(e, k) \in Seq(h) /\ Append(Prefix(e, k), e[k + 1]) = Prefix(e, k + 1)
  BY <1>2, AppendElement DEF Prefix
<1>4. Transactions(Append(Prefix(e, k), b)) = Apply(Transactions(Prefix(e, k)), b)
  BY <1>3, TransactionsFold
<1>5. Chained(h, e, k + 1)
  <2> SUFFICES ASSUME NEW i \in 1 .. k + 1
               PROVE  /\ e[i] \in h
                      /\ e[i].index = i
                      /\ i > 1 => e[i].prev = e[i - 1].hash
                      /\ Acceptable(Transactions(Prefix(e, i - 1)), e[i])
    BY DEF Chained
  <2>1. CASE i \in 1 .. k
    BY <2>1, <1>1 DEF Chained
  <2>2. CASE i = k + 1
    <3>1. i - 1 = k /\ (i > 1 => k >= 1 /\ e[k] = d[k])
      BY <2>2
    <3> QED BY <3>1, <2>2, <1>1
  <2> QED BY <2>1, <2>2
<1> QED BY <1>1, <1>3, <1>4, <1>5

\* The last block of a chain.
LEMMA ChainedLast ==
    ASSUME NEW g, NEW d, NEW k \in Nat, Chained(g, d, k + 1)
    PROVE  Transactions(Prefix(d, k + 1))
              = Apply(Transactions(Prefix(d, k)), d[k + 1])
<1>1. \A i \in 1 .. k + 1 : d[i] \in g
  BY DEF Chained
<1>2. /\ Prefix(d, k) \in Seq(g)
      /\ Append(Prefix(d, k), d[k + 1]) = Prefix(d, k + 1)
  BY <1>1, AppendElement DEF Prefix
<1>3. d[k + 1] \in g
  BY <1>1
<1> QED BY <1>2, <1>3, TransactionsFold

\* Reading from the key 0 on, which holds nothing.
LEMMA RangeFromOne ==
    ASSUME NEW store, store[0] = None, NEW end \in Int, 0 <= end,
           \A i \in 1 .. end - 1 : i \in DOMAIN store /\ store[i] # None
    PROVE  BlocksRange(store, 0, end) = [i \in 1 .. end - 1 |-> store[i]]
<1> DEFINE start == 0
           low == 1
<1>1. start \in Int /\ low \in Int /\ start <= low /\ start <= end
  OBVIOUS
<1>2. \A i \in start .. low - 1 : i \in DOMAIN store => store[i] = None
  OBVIOUS
<1>3. \A i \in low .. end - 1 : i \in DOMAIN store /\ store[i] # None
  OBVIOUS
<1> HIDE DEF start, low
<1>4. BlocksRange(store, start, end)
         = [i \in 1 .. end - low |-> store[low + i - 1]]
  BY <1>1, <1>2, <1>3, RangeOf
<1>5. \A i \in 1 .. end - 1 : 1 + i - 1 = i
  OBVIOUS
<1> QED BY <1>4, <1>5 DEF start, low

\* Reading a chain back gives its blocks, and replaying them refuses none.
LEMMA ChainedReplay ==
    ASSUME NEW g, None \notin g, NEW d \in [0 .. MaxIndex -> g \cup {None}],
           NEW k \in Int, -1 <= k, k <= MaxIndex, d[0] = None, Chained(g, d, k)
    PROVE  /\ BlocksRange(d, 0, k + 1) = Prefix(d, k)
           /\ Replay(Prefix(d, k)) = Transactions(Prefix(d, k))
<1>1. BlocksRange(d, 0, k + 1) = Prefix(d, k)
  <2>1. \A i \in 1 .. k : i \in DOMAIN d /\ d[i] # None
    <3> SUFFICES ASSUME NEW i \in 1 .. k PROVE i \in DOMAIN d /\ d[i] # None
      OBVIOUS
    <3>1. i \in 0 .. MaxIndex /\ d[i] \in g
      BY ChainParameters DEF Chained
    <3> QED BY <3>1
  <2> DEFINE end == k + 1
  <2>2. end \in Int /\ 0 <= end /\ end - 1 = k
    OBVIOUS
  <2> HIDE DEF end, Chained
  <2>3. BlocksRange(d, 0, end) = Prefix(d, k)
    BY <2>1, <2>2, RangeFromOne DEF Prefix
  <2> QED BY <2>3 DEF end
<1>2. CASE k >= 0
  <2>1. \A i \in 1 .. k : /\ d[i] \in g
           /\ Acceptable(Transactions([j \in 1 .. i - 1 |-> d[j]]), d[i])
    BY DEF Chained, Prefix
  <2>2. k \in Nat
    BY <1>2
  <2>3. Replay([i \in 1 .. k |-> d[i]]) = Transactions([i \in 1 .. k |-> d[i]])
    BY <2>1, <2>2, ReplayOfValid
  <2> QED BY <1>1, <2>3 DEF Prefix
<1>3. CASE k = -1
  <2>1. Prefix(d, k) = << >>
    BY <1>3, PrefixOf
  <2>2. Replay(<< >>) = << >>
    <3>1. \A t \in Seq(g), b \in g : Process(t, b) \in Seq(g)
      BY DEF Process, Apply
    <3>2. << >> \in Seq(g)
      OBVIOUS
    <3> QED BY <3>1, <3>2, ReplayFold
  <2>3. Transactions(<< >>) = << >>
    BY TransactionsFold
  <2> QED BY <1>1, <2>1, <2>2, <2>3
<1> QED BY <1>2, <1>3

-----------------------------------------------------------------------------
(* A node.                                                                 *)

\* A tip is a built block with a positive index, the zero block at 0, or the
\* fallback at -1.
LEMMA TipCases ==
    ASSUME BlocksInv, HashesInv, NEW n \in Nodes
    PROVE  \/ /\ last[n] \in gossip
              /\ last[n].index \in 1 .. MaxIndex /\ last[n].hash \in 1 .. MaxBlocks
           \/ last[n] = ZeroBlock /\ last[n].index = 0 /\ last[n].hash = 0
                                  /\ last[n].weight = 0
           \/ last[n] = RootBlock /\ last[n].index = -1 /\ last[n].hash = -1
<1>1. last[n] \in gossip \cup {ZeroBlock, RootBlock}
  BY DEF BlocksInv, Contents
<1>2. CASE last[n] \in gossip
  <2>1. Built(last[n]) /\ last[n].index >= 1 /\ built \in 0 .. MaxBlocks
    BY <1>2 DEF BlocksInv, HashesInv
  <2>2. last[n].index \in 1 .. MaxIndex /\ last[n].hash \in 1 .. MaxBlocks
    BY <2>1, ChainParameters DEF Built, Block
  <2> QED BY <2>2, <1>2
<1>3. CASE last[n] \in {ZeroBlock, RootBlock}
  BY <1>3, FixedBlocks DEF EmptyHash, RootHash
<1> QED BY <1>1, <1>2, <1>3

\* A node a step leaves alone.
LEMMA NodeFrame ==
    ASSUME BlocksInv, NEW o \in Nodes, NodeInv(o), gossip \subseteq gossip',
           db'[o] = db[o], latest'[o] = latest[o], last'[o] = last[o],
           applied'[o] = applied[o],
           last[o] = RootBlock /\ Adopting(o) => Adopting(o)'
    PROVE  NodeInv(o)'
<1>1. last[o].index \in Int
  BY TipTypes
<1>2. Chained(gossip', db[o], last[o].index)
  BY <1>1, ChainedCopy DEF NodeInv
<1> HIDE DEF Adopting
<1> QED BY <1>2 DEF NodeInv

\* A node that stores a child of its tip, or a first block after it fell back.
LEMMA NodeGrows ==
    ASSUME BlocksInv, HashesInv, NEW n \in Nodes, NodeInv(n),
           gossip \subseteq gossip', NEW b \in gossip',
           b.index \in 1 .. MaxIndex, None \notin gossip',
           Adopt(n, b), Acceptable(applied[n], b),
           IF last[n] = RootBlock THEN IsFirst(b) ELSE Extends(last[n], b)
    PROVE  /\ NodeInv(n)'
           /\ last'[n] = b
           /\ last'[n].index >= last[n].index
           /\ \A i \in 1 .. last[n].index : db'[n][i] = db[n][i]
           /\ b.index = IF last[n] = RootBlock THEN 1 ELSE last[n].index + 1
           /\ Prefix(db[n], last[n].index) \in Seq(gossip)
           /\ Prefix(db'[n], b.index)
                 = Append(Prefix(db[n], last[n].index), b)
<1> DEFINE k == IF last[n] = RootBlock THEN 0 ELSE last[n].index
           l == last[n].index
<1>1. /\ db' = [db EXCEPT ![n][b.index] = b]
      /\ latest' = [latest EXCEPT ![n] = b.index]
      /\ last' = [last EXCEPT ![n] = b]
      /\ applied' = [applied EXCEPT ![n] = Apply(applied[n], b)]
  BY DEF Adopt
<1>2. /\ db[n] \in [0 .. MaxIndex -> gossip \cup {None}] /\ n \in DOMAIN db
      /\ n \in DOMAIN latest /\ n \in DOMAIN last /\ n \in DOMAIN applied
  BY DEF BlocksInv, Contents
<1>3. MaxIndex \in Nat
  BY ChainParameters
<1>4. /\ last'[n] = b /\ latest'[n] = b.index
      /\ applied'[n] = Apply(applied[n], b)
      /\ db'[n][b.index] = b
      /\ \A i \in 0 .. MaxIndex : i # b.index => db'[n][i] = db[n][i]
  BY <1>1, <1>2, <1>3
<1>5. k \in Nat /\ l \in Int /\ l <= k /\ b.index = k + 1 /\ k <= MaxIndex
  <2>1. CASE last[n] = RootBlock
    BY <2>1, <1>3, FixedBlocks DEF IsFirst
  <2>2. CASE last[n] # RootBlock
    <3>1. l \in 0 .. MaxIndex /\ b.index = l + 1 /\ k = l
      BY <2>2, <1>3, TipCases DEF Extends
    <3> QED BY <3>1, <1>3
  <2> QED BY <2>1, <2>2
<1>6. Prefix(db[n], l) = Prefix(db[n], k) /\ Chained(gossip, db[n], k)
  <2>1. CASE last[n] = RootBlock
    <3>1. l = -1 /\ k = 0
      BY <2>1, FixedBlocks
    <3>2. 1 .. l = {} /\ 1 .. k = {}
      BY <3>1
    <3> QED BY <3>2 DEF Prefix, Chained
  <2>2. CASE last[n] # RootBlock
    BY <2>2 DEF NodeInv
  <2> QED BY <2>1, <2>2
<1>7. applied[n] = Transactions(Prefix(db[n], k))
  BY <1>6 DEF NodeInv
<1>8. \A i \in 1 .. k : db'[n][i] = db[n][i]
  BY <1>4, <1>5, <1>3
<1>9. k >= 1 => b.prev = db[n][k].hash
  BY TipCases DEF Extends, NodeInv
<1> HIDE DEF k, l
<1>10. /\ Chained(gossip', db'[n], k + 1)
       /\ Transactions(Prefix(db'[n], k + 1))
             = Apply(Transactions(Prefix(db[n], k)), b)
  <2>1. db'[n][k + 1] = b
    BY <1>4, <1>5
  <2>2. Acceptable(Transactions(Prefix(db[n], k)), b)
    BY <1>7
  <2> DEFINE d == db[n]
             e == db'[n]
  <2>3. /\ k \in Nat /\ b.index = k + 1 /\ e[k + 1] = b /\ b \in gossip'
        /\ gossip \subseteq gossip' /\ Chained(gossip, d, k)
        /\ \A i \in 1 .. k : e[i] = d[i]
        /\ k >= 1 => b.prev = d[k].hash
        /\ Acceptable(Transactions(Prefix(d, k)), b)
    BY <1>5, <1>6, <1>8, <1>9, <2>1, <2>2
  <2> HIDE DEF d, e
  <2>4. /\ Chained(gossip', e, k + 1)
        /\ Transactions(Prefix(e, k + 1)) = Apply(Transactions(Prefix(d, k)), b)
    BY <2>3, ChainedAppend
  <2> QED BY <2>4 DEF d, e
<1>11. applied'[n] = Transactions(Prefix(db'[n], last'[n].index))
  BY <1>4, <1>5, <1>7, <1>10
<1>12. db'[n][0] = None
  BY <1>4, <1>3 DEF NodeInv
<1>13. ASSUME NEW i \in 1 .. b.index
       PROVE  /\ db'[n][i] # None
              /\ i > 1 => db'[n][i].prev = db'[n][i - 1].hash
  BY <1>5, <1>10 DEF Chained
<1>14. last'[n] # RootBlock /\ latest'[n] # None
  BY <1>4, FixedBlocks
<1>15. NodeInv(n)'
  <2>1. Chained(gossip', db'[n], last'[n].index)
    BY <1>4, <1>5, <1>10
  <2> QED BY <2>1, <1>4, <1>11, <1>12, <1>13, <1>14 DEF NodeInv
<1>16. Prefix(db[n], l) \in Seq(gossip)
  BY <1>5, PrefixOf DEF NodeInv, l
<1>17. Prefix(db'[n], k + 1) = Append(Prefix(db[n], k), b)
  <2>1. db'[n][k + 1] = b
    BY <1>4, <1>5
  <2>2. Prefix(db'[n], k + 1) = Append(Prefix(db[n], k), db'[n][k + 1])
    BY <1>5, <1>8, PrefixAppend
  <2> QED BY <2>1, <2>2
<1> QED BY <1>4, <1>5, <1>6, <1>8, <1>15, <1>16, <1>17 DEF k, l

-----------------------------------------------------------------------------
(* A call while chains only grow.                                          *)

\* What a call knows of its own node and of its peer stays true while those it
\* relies on only grow; the locked section keeps its node's tip.
LEMMA CallFrame ==
    ASSUME BlocksInv, NEW w \in Workers, CallInv(w), sync'[w] = sync[w],
           \A o \in Nodes : ReliesOn(w, o) =>
              /\ last'[o].index \in Int /\ last'[o].index >= last[o].index
              /\ \A i \in 1 .. last[o].index : db'[o][i] = db[o][i],
           sync[w].pc = "adopt" => last'[NodeOf[w]] = last[NodeOf[w]]
    PROVE  CallInv(w)'
<1> DEFINE n == NodeOf[w]
           s == sync[w]
           q == s.peer
<1>1. /\ n \in Nodes /\ s \in SyncType(gossip)
      /\ s.pc # "idle" => q \in Nodes
  BY ChainParameters DEF BlocksInv, Contents
<1>2. last[n].index \in Int /\ (s.pc # "idle" => last[q].index \in Int)
  BY <1>1, TipTypes
<1>3. /\ s.ancestor \in -1 .. MaxIndex /\ s.localHeight \in Int
      /\ s.high \in Int /\ s.height \in Int /\ MaxIndex \in Nat
  BY <1>1, ChainParameters DEF SyncType
<1>a. s.pc \in {"tip", "search", "fetch", "apply"} =>
         /\ last'[n].index \in Int /\ last'[n].index >= last[n].index
         /\ \A i \in 1 .. last[n].index : db'[n][i] = db[n][i]
  BY <1>1 DEF ReliesOn
<1>b. s.pc \in {"local", "tip", "search", "fetch"} =>
         /\ last'[q].index \in Int /\ last'[q].index >= last[q].index
         /\ \A i \in 1 .. last[q].index : db'[q][i] = db[q][i]
  BY <1>1 DEF ReliesOn
<1>4. ASSUME s.pc \in {"tip", "search", "fetch", "apply"}
      PROVE  /\ LocalInv(n, s)'
             /\ s.ancestor # -1 => db'[n][s.ancestor] = db[n][s.ancestor]
  <2>1. LocalInv(n, s)
    BY <1>4 DEF CallInv
  <2>2. s.localHeight \in 1 .. last'[n].index + 1
    BY <2>1, <1>1, <1>2, <1>4, <1>a DEF LocalInv
  <2>3. s.localHeight # 1 =>
           db'[n][s.localHeight - 1] = db[n][s.localHeight - 1]
    <3>1. s.localHeight # 1 => s.localHeight - 1 \in 1 .. last[n].index
      BY <2>1, <1>2 DEF LocalInv
    <3> QED BY <3>1, <1>1, <1>4, <1>a
  <2>4. s.ancestor # -1 => db'[n][s.ancestor] = db[n][s.ancestor]
    <3>1. s.ancestor # -1 => s.ancestor \in 1 .. last[n].index
      BY <2>1, <1>2, <1>3 DEF LocalInv
    <3> QED BY <3>1, <1>1, <1>4, <1>a
  <2> QED BY <2>1, <2>2, <2>3, <2>4 DEF LocalInv
<1>5. ASSUME s.pc \in {"tip", "search", "fetch"}
      PROVE  AncestorInv(n, s)'
  <2>1. AncestorInv(n, s) /\ q \in Nodes /\ LocalInv(n, s)
    BY <1>1, <1>5 DEF CallInv
  <2>2. s.ancestor # -1 =>
           /\ s.ancestor \in 1 .. last[q].index
           /\ s.ancestor <= last'[q].index
    BY <2>1, <1>2, <1>3, <1>5, <1>b DEF AncestorInv, LocalInv
  <2>3. s.ancestor # -1 => db'[q][s.ancestor] = db[q][s.ancestor]
    BY <2>1, <2>2, <1>5, <1>b
  <2> QED BY <2>1, <2>2, <2>3, <1>4, <1>5 DEF AncestorInv
<1>6. ASSUME s.pc \in {"fetch", "apply"} PROVE PendingInv(n, s)'
  BY <1>4, <1>6 DEF CallInv, PendingInv
<1>7. ASSUME s.pc = "fetch" PROVE FetchInv(s)'
  <2> DEFINE b == Last(s.pending)
  <2>1. FetchInv(s) /\ q \in Nodes
    BY <1>1, <1>7 DEF CallInv
  <2>2. CASE s.pending = << >>
    BY <2>1, <2>2 DEF FetchInv
  <2>3. CASE s.pending # << >>
    <3>1. /\ b.index \in 1 .. last[q].index /\ b = db[q][b.index]
          /\ s.start \in {b.index, b.index + 1}
      BY <2>1, <2>3 DEF FetchInv
    <3>2. b.index \in 1 .. last'[q].index /\ b = db'[q][b.index]
      BY <3>1, <2>1, <1>2, <1>7, <1>b
    <3> QED BY <3>1, <3>2, <2>3 DEF FetchInv
  <2> QED BY <2>2, <2>3
<1>8. ASSUME s.pc = "adopt" PROVE AdoptInv(n, s)'
  BY <1>8 DEF CallInv, AdoptInv
<1>9. ASSUME s.pc \in {"tip", "search"}
      PROVE  s.high <= s.localHeight - 1 /\ s.high <= last'[q].index
  <2>1. s.high <= s.localHeight - 1 /\ s.high <= last[q].index
    BY <1>9 DEF CallInv
  <2>2. last'[q].index \in Int /\ last'[q].index >= last[q].index
    BY <1>9, <1>b
  <2> QED BY <1>2, <1>3, <1>9, <2>1, <2>2
<1>10. ASSUME s.pc = "local" PROVE s.height <= last'[q].index + 1
  <2>1. s.height <= last[q].index + 1
    BY <1>10 DEF CallInv
  <2>2. last'[q].index \in Int /\ last'[q].index >= last[q].index
    BY <1>10, <1>b
  <2> QED BY <1>2, <1>3, <1>10, <2>1, <2>2
<1> QED BY <1>4, <1>5, <1>6, <1>7, <1>8, <1>9, <1>10 DEF CallInv

\* A built or delivered block.
LEMMA AddKeeps ==
    ASSUME ChainInv, Exclusive', NEW n \in Nodes, NEW b \in gossip',
           AddBlock(n, b),
           gossip \subseteq gossip', None \notin gossip',
           b.index \in 1 .. MaxIndex, BlocksInv', HashesInv', sync' = sync
    PROVE  ChainInv' /\ last[n] # RootBlock
<1>1. BlocksInv /\ HashesInv /\ NodeInv(n)
  BY DEF ChainInv
<1>2. last[n] # RootBlock
  BY <1>1 DEF NodeInv, Adopting, AddBlock, Unlocked
<1>3. /\ Adopt(n, b) /\ Acceptable(applied[n], b) /\ Extends(last[n], b)
      /\ Unlocked(n)
  BY DEF AddBlock, Adopt
<1>4. /\ NodeInv(n)'
      /\ last'[n] = b
      /\ last'[n].index >= last[n].index
      /\ \A i \in 1 .. last[n].index : db'[n][i] = db[n][i]
  BY <1>1, <1>2, <1>3, NodeGrows
<1>5. ASSUME NEW o \in Nodes, o # n
      PROVE  /\ db'[o] = db[o] /\ latest'[o] = latest[o]
             /\ last'[o] = last[o] /\ applied'[o] = applied[o]
  BY <1>1, <1>3, <1>5 DEF Adopt, BlocksInv, Contents
<1>6. ASSUME NEW o \in Nodes PROVE NodeInv(o)'
  <2>1. CASE o = n
    BY <2>1, <1>4
  <2>2. CASE o # n
    <3>1. NodeInv(o) /\ (Adopting(o) => Adopting(o)')
      BY DEF ChainInv, Adopting
    <3> QED BY <2>2, <3>1, <1>1, <1>5, NodeFrame
  <2> QED BY <2>1, <2>2
<1>7. ASSUME NEW w \in Workers PROVE CallInv(w)'
  <2>1. CallInv(w) /\ sync'[w] = sync[w]
    BY DEF ChainInv
  <2>2. \A o \in Nodes :
              /\ last'[o].index \in Int /\ last'[o].index >= last[o].index
              /\ \A i \in 1 .. last[o].index : db'[o][i] = db[o][i]
    <3> SUFFICES ASSUME NEW o \in Nodes
                 PROVE  /\ last'[o].index \in Int
                        /\ last'[o].index >= last[o].index
                        /\ \A i \in 1 .. last[o].index : db'[o][i] = db[o][i]
      OBVIOUS
    <3>1. last[o].index \in Int
      BY <1>1, TipTypes
    <3> QED BY <3>1, <1>4, <1>5
  <2>3. sync[w].pc = "adopt" => last'[NodeOf[w]] = last[NodeOf[w]]
    <3>1. NodeOf[w] \in Nodes
      BY ChainParameters
    <3>2. sync[w].pc = "adopt" => NodeOf[w] # n
      BY <1>3 DEF Unlocked
    <3> QED BY <3>1, <3>2, <1>5
  <2> QED BY <2>1, <2>2, <2>3, <1>1, CallFrame
<1> HIDE DEF BlocksInv, HashesInv, NodeInv, CallInv
<1> QED BY <1>2, <1>6, <1>7 DEF ChainInv

\* A built block has a hash of its own.
LEMMA BuildKeeps ==
    ASSUME ChainInv, BlocksInv', Exclusive', NEW n \in Nodes, NEW b,
           b = NextBlock(n, b.weight, b.sender, b.nonce),
           AddBlock(n, b), Publish(b), UNCHANGED <<restarts, sync, crossed>>
    PROVE  ChainInv'
<1>1. BlocksInv /\ HashesInv /\ NodeInv(n) /\ built \in Nat
  BY ChainParameters DEF ChainInv, BlocksInv
<1>2. gossip' = gossip \cup {b} /\ built' = built + 1
  BY DEF Publish
<1>3. /\ b.hash = built + 1 /\ b.index = last[n].index + 1
      /\ b.prev = last[n].hash
  BY DEF NextBlock
<1>4. last[n] # RootBlock
  BY <1>1 DEF NodeInv, Adopting, AddBlock, Unlocked
<1>5. b.index >= 1 /\ (b.index = 1 => b.prev = EmptyHash)
  BY <1>1, <1>3, <1>4, TipCases DEF EmptyHash
<1>6. \A c \in gossip : c.hash \in 1 .. built
  BY <1>1 DEF BlocksInv, Built
<1>7. HashesInv'
  <2>1. \A c \in gossip : c.hash # b.hash
    BY <1>1, <1>3, <1>6
  <2> QED BY <1>1, <1>2, <1>5, <2>1 DEF HashesInv
<1>8. Built(b)' /\ \A c \in gossip' : Built(c)'
  BY <1>2 DEF BlocksInv
<1>9. b.index \in 1 .. MaxIndex /\ None \notin gossip'
  BY <1>5, <1>8, FixedBlocks, ChainParameters DEF Built, Block
<1> QED BY <1>2, <1>7, <1>9, AddKeeps

\* A delivered block is one of the built ones.
LEMMA DeliverKeeps ==
    ASSUME ChainInv, BlocksInv', Exclusive', NEW n \in Nodes, NEW b,
           Deliver(n, b)
    PROVE  ChainInv'
<1>1. BlocksInv /\ HashesInv
  BY DEF ChainInv
<1>2. b \in gossip /\ AddBlock(n, b) /\ gossip' = gossip /\ sync' = sync
  BY DEF Deliver
<1>3. HashesInv'
  BY <1>1, <1>2 DEF HashesInv
<1>4. \A c \in gossip : Built(c) /\ c.index >= 1
  BY <1>1 DEF BlocksInv, HashesInv
<1>5. b.index \in 1 .. MaxIndex /\ None \notin gossip
  BY <1>2, <1>4, FixedBlocks, ChainParameters DEF Built, Block
<1> QED BY <1>2, <1>3, <1>5, AddKeeps

\* A restart finds no block_0, so it replays nothing.
LEMMA ReplayedNothing ==
    ASSUME BlocksInv, NEW n \in Nodes, NodeInv(n), latest[n] # None
    PROVE  Replayed(n) = << >>
<1> DEFINE gaps == {i \in 0 .. latest[n] : db[n][i] = None}
<1>1. latest[n] \in -1 .. MaxIndex /\ MaxIndex \in Nat
  BY ChainParameters DEF BlocksInv
<1>2. (IF gaps = {} THEN latest[n] + 1 ELSE Min(gaps)) = 0
  <2>1. CASE latest[n] = -1
    <3>1. gaps = {}
      BY <2>1
    <3> QED BY <3>1, <2>1
  <2>2. CASE latest[n] # -1
    <3>1. 0 \in gaps /\ gaps \in SUBSET Nat
      BY <2>2, <1>1 DEF NodeInv
    <3> HIDE DEF gaps
    <3>2. Min(gaps) \in Nat /\ Min(gaps) <= 0
      BY <3>1, MinOfIndices
    <3> QED BY <3>1, <3>2
  <2> QED BY <2>1, <2>2
<1>3. BlocksRange(db[n], 0, 0) = << >>
  <2> DEFINE d == db[n]
             g == gossip
  <2>1. d \in [0 .. MaxIndex -> g \cup {None}]
    BY DEF BlocksInv, Contents
  <2>2. \A i \in DOMAIN d : d[i] # None => d[i] \in g
    BY <2>1
  <2> HIDE DEF d, g
  <2>3. \A start, end \in Int :
              /\ BlocksRange(d, start, end) \in Seq(g)
              /\ end <= start => BlocksRange(d, start, end) = << >>
              /\ start <= end =>
                    BlocksRange(d, start, end + 1)
                       = Read(d, BlocksRange(d, start, end), end)
    BY <2>2, RangeFold, Zenon
  <2>4. 0 \in Int /\ 0 <= 0
    OBVIOUS
  <2> QED BY <2>3, <2>4, Zenon DEF d
<1> QED BY <1>2, <1>3 DEF Replayed

\* Without blocks there are no transactions.
LEMMA NothingApplied ==
    /\ Transactions(<< >>) = << >> /\ Replay(<< >>) = << >>
    /\ \A d : Prefix(d, 0) = << >> /\ Prefix(d, -1) = << >>
<1>1. Transactions(<< >>) = << >>
  BY TransactionsFold
<1>2. Replay(<< >>) = << >>
  <2> DEFINE B == {}
  <2>1. << >> \in Seq(B) /\ \A t \in Seq(B), b \in B : Process(t, b) \in Seq(B)
    OBVIOUS
  <2> HIDE DEF B
  <2> QED BY <2>1, ReplayFold
<1>3. \A d : Prefix(d, 0) = << >> /\ Prefix(d, -1) = << >>
  BY DEF Prefix
<1> QED BY <1>1, <1>2, <1>3

\* A node that restarts has nothing, and its calls are gone.
LEMMA RestartKeeps ==
    ASSUME ChainInv, BlocksInv', Exclusive', NEW n \in Nodes, Restart(n)
    PROVE  /\ crossed' \/ ChainInv'
           /\ last' = [last EXCEPT ![n] = ZeroBlock]
           /\ applied' = [applied EXCEPT ![n] = << >>]
<1>1. BlocksInv /\ HashesInv /\ NodeInv(n)
  BY DEF ChainInv
<1>2. /\ UNCHANGED <<db, latest, gossip, built>>
      /\ sync' = [w \in Workers |-> IF NodeOf[w] = n THEN Idle ELSE sync[w]]
  BY DEF Restart
<1>3. /\ last' = [last EXCEPT ![n] = ZeroBlock]
      /\ applied' = [applied EXCEPT ![n] = << >>]
  <2>1. CASE latest[n] = None
    BY <2>1 DEF Restart
  <2>2. CASE latest[n] # None
    <3>1. Replayed(n) = << >>
      BY <2>2, <1>1, ReplayedNothing
    <3> QED BY <2>2, <3>1, NothingApplied DEF Restart, Tip
  <2> QED BY <2>1, <2>2
<1>4. n \in DOMAIN last /\ n \in DOMAIN applied
  BY <1>1 DEF BlocksInv, Contents
<1>5. last'[n] = ZeroBlock /\ applied'[n] = << >> /\ last'[n].index = 0
      /\ last'[n] # RootBlock
  BY <1>3, <1>4, FixedBlocks
<1>6. NodeInv(n)'
  <2>1. Chained(gossip', db'[n], last'[n].index)
    BY <1>5 DEF Chained
  <2>2. Prefix(db'[n], last'[n].index) = << >>
    BY <1>5, NothingApplied
  <2> QED BY <1>1, <1>2, <1>5, <2>1, <2>2, NothingApplied DEF NodeInv
<1>7. ASSUME NEW o \in Nodes, o # n PROVE NodeInv(o)'
  <2>1. NodeInv(o) /\ (Adopting(o) => Adopting(o)')
    BY <1>2, <1>7 DEF ChainInv, Adopting
  <2>2. last'[o] = last[o] /\ applied'[o] = applied[o]
    BY <1>1, <1>3, <1>7 DEF BlocksInv, Contents
  <2> QED BY <2>1, <2>2, <1>1, <1>2, NodeFrame
<1>8. ASSUME ~ crossed', NEW w \in Workers PROVE CallInv(w)'
  <2>1. CASE NodeOf[w] = n
    <3>1. sync'[w] = Idle /\ Idle.pc = "idle"
      BY <2>1, <1>2 DEF Idle
    <3> QED BY <3>1 DEF CallInv
  <2>2. CASE NodeOf[w] # n
    <3>1. CallInv(w) /\ sync'[w] = sync[w] /\ NodeOf[w] \in Nodes
      BY <2>2, <1>2, ChainParameters DEF ChainInv
    <3>2. ~ ReliesOn(w, n)
      BY <2>2, <1>8, Zenon DEF Restart, CutBack
    <3>3. \A o \in Nodes : ReliesOn(w, o) =>
              /\ last'[o].index \in Int /\ last'[o].index >= last[o].index
              /\ \A i \in 1 .. last[o].index : db'[o][i] = db[o][i]
      <4> SUFFICES ASSUME NEW o \in Nodes, o # n
                   PROVE  /\ last'[o].index \in Int
                          /\ last'[o].index >= last[o].index
                          /\ \A i \in 1 .. last[o].index : db'[o][i] = db[o][i]
        BY <3>2
      <4>1. last'[o] = last[o] /\ db' = db
        BY <1>1, <1>2, <1>3 DEF BlocksInv, Contents
      <4>2. last[o].index \in Int
        BY <1>1, TipTypes
      <4> QED BY <4>1, <4>2
    <3>4. last'[NodeOf[w]] = last[NodeOf[w]]
      BY <2>2, <3>1, <1>1, <1>3 DEF BlocksInv, Contents
    <3> QED BY <1>1, <3>1, <3>3, <3>4, CallFrame
  <2> QED BY <2>1, <2>2
<1>9. HashesInv'
  BY <1>1, <1>2 DEF HashesInv
<1> HIDE DEF BlocksInv, HashesInv, NodeInv, CallInv
<1> QED BY <1>3, <1>6, <1>7, <1>8, <1>9 DEF ChainInv

-----------------------------------------------------------------------------
(* The requests of a call.                                                 *)

\* A step that only moves the call's locals.
LEMMA MovedKeeps ==
    ASSUME ChainInv, BlocksInv', Exclusive', NEW w \in Workers, NEW rec,
           Goto(w, rec), UNCHANGED nodeVars, CallInv(w)',
           sync[w].pc = "adopt" => last[NodeOf[w]] # RootBlock
    PROVE  ChainInv'
<1>1. BlocksInv /\ HashesInv
  BY DEF ChainInv
<1>2. /\ sync' = [sync EXCEPT ![w] = rec]
      /\ UNCHANGED <<db, latest, last, applied, gossip, built, restarts>>
  BY DEF Goto, nodeVars
<1>3. ASSUME NEW o \in Nodes PROVE NodeInv(o)'
  <2>1. NodeInv(o)
    BY DEF ChainInv
  <2>2. last[o] = RootBlock /\ Adopting(o) => Adopting(o)'
    <3> SUFFICES ASSUME last[o] = RootBlock,
                        NEW v \in Workers, NodeOf[v] = o, sync[v].pc = "adopt"
                 PROVE  Adopting(o)'
      BY DEF Adopting
    <3>1. v # w
      OBVIOUS
    <3>2. sync'[v] = sync[v]
      BY <3>1, <1>2
    <3> QED BY <3>2 DEF Adopting
  <2> QED BY <2>1, <2>2, <1>1, <1>2, NodeFrame
<1>4. ASSUME NEW v \in Workers PROVE CallInv(v)'
  <2>1. CASE v = w
    BY <2>1
  <2>2. CASE v # w
    <3>1. CallInv(v) /\ sync'[v] = sync[v]
      BY <2>2, <1>2 DEF ChainInv
    <3>2. \A o \in Nodes :
              /\ last'[o].index \in Int /\ last'[o].index >= last[o].index
              /\ \A i \in 1 .. last[o].index : db'[o][i] = db[o][i]
      BY <1>1, <1>2, TipTypes
    <3>3. last'[NodeOf[v]] = last[NodeOf[v]]
      BY <1>2
    <3> QED BY <1>1, <3>1, <3>2, <3>3, CallFrame
  <2> QED BY <2>1, <2>2
<1>5. HashesInv'
  BY <1>1, <1>2 DEF HashesInv
<1> HIDE DEF BlocksInv, HashesInv, NodeInv, CallInv
<1> QED BY <1>3, <1>4, <1>5 DEF ChainInv

\* The locals after a step.
LEMMA MovedTo ==
    ASSUME BlocksInv, NEW w \in Workers, NEW rec, Goto(w, rec)
    PROVE  sync'[w] = rec
BY DEF BlocksInv, Contents, Goto

\* No call, nothing to keep.
LEMMA IdleKeeps ==
    ASSUME ChainInv, BlocksInv', Exclusive', NEW w \in Workers,
           Goto(w, Idle), UNCHANGED nodeVars,
           sync[w].pc = "adopt" => last[NodeOf[w]] # RootBlock
    PROVE  ChainInv'
<1>1. sync'[w] = Idle /\ Idle.pc = "idle"
  BY MovedTo DEF Idle, ChainInv
<1>2. CallInv(w)'
  BY <1>1 DEF CallInv
<1> QED BY <1>2, MovedKeeps

LEMMA AskStatusKeeps ==
    ASSUME ChainInv, BlocksInv', Exclusive', NEW w \in Workers, NEW q \in Nodes,
           AskStatus(w, q)
    PROVE  ChainInv'
<1> DEFINE rec == [Idle EXCEPT !.pc = "local", !.peer = q,
                               !.height = Height(q), !.weight = last[q].weight]
<1>1. Goto(w, rec) /\ UNCHANGED nodeVars /\ q # NodeOf[w] /\ sync[w].pc = "idle"
  BY DEF AskStatus, At
<1>2. sync'[w] = rec /\ last' = last
  BY <1>1, MovedTo DEF ChainInv, nodeVars
<1>3. /\ rec.pc = "local" /\ rec.peer = q /\ rec.height = last[q].index + 1
      /\ rec.low = 0 /\ rec.pending = << >> /\ rec.ancestor = -1
  BY DEF Idle, Height
<1>4. last[q].index \in Int
  BY TipTypes DEF ChainInv
<1> HIDE DEF rec
<1>5. CallInv(w)'
  BY <1>1, <1>2, <1>3, <1>4 DEF CallInv
<1> QED BY <1>1, <1>5, MovedKeeps

LEMMA ReadLocalKeeps ==
    ASSUME ChainInv, BlocksInv', Exclusive', NEW w \in Workers, ReadLocal(w)
    PROVE  ChainInv'
<1> DEFINE n == NodeOf[w]
           s == sync[w]
           h == Height(n)
           m == Min({h, s.height}) - 1
           l == last[n].weight
           rec == [s EXCEPT !.pc = "tip", !.localHeight = h,
                            !.localWeight = l, !.high = m]
<1>1. /\ s.pc = "local" /\ Unlocked(n) /\ UNCHANGED nodeVars
      /\ Goto(w, Idle) \/ Goto(w, rec)
  BY DEF ReadLocal, At
<1>2. CASE Goto(w, Idle)
  BY <1>1, <1>2, IdleKeeps
<1>3. CASE Goto(w, rec)
  <2>1. /\ BlocksInv /\ HashesInv /\ n \in Nodes /\ NodeInv(n) /\ CallInv(w)
        /\ s \in SyncType(gossip)
    BY ChainParameters DEF ChainInv, BlocksInv, Contents
  <2>2. sync'[w] = rec /\ last' = last /\ db' = db
    BY <1>1, <1>3, <2>1, MovedTo DEF nodeVars
  <2>3. last[n] # RootBlock
    BY <1>1, <2>1 DEF NodeInv, Adopting, Unlocked
  <2>4. last[n].index \in Nat /\ h = last[n].index + 1 /\ h \in 1 .. last[n].index + 1
    BY <2>1, <2>3, TipCases DEF Height
  <2>5. s.peer \in Nodes /\ last[s.peer].index \in Int /\ s.height \in Int
    BY <1>1, <2>1, TipTypes DEF BlocksInv, SyncType
  <2>6. /\ s.peer # n /\ s.low >= 0 /\ s.pending = << >> /\ s.ancestor = -1
        /\ s.height <= last[s.peer].index + 1
    BY <1>1, <2>1 DEF CallInv
  <2>7. m <= h - 1 /\ m <= last[s.peer].index
    <3> DEFINE k == s.height
    <3>1. h \in Int /\ k \in Int
      BY <2>4, <2>5
    <3> HIDE DEF h, k
    <3>2. Min({h, k}) = IF h <= k THEN h ELSE k
      BY <3>1, MinOfTwo
    <3> DEFINE t == last[s.peer].index
    <3>3. t \in Int /\ k <= t + 1
      BY <2>5, <2>6 DEF k
    <3>4. m = Min({h, k}) - 1
      BY DEF k
    <3> HIDE DEF t, m
    <3>5. m <= h - 1 /\ m <= t
      BY <3>1, <3>2, <3>3, <3>4
    <3> QED BY <3>5 DEF t
  <2>8. l = IF h = 1 THEN 0 ELSE db[n][h - 1].weight
    BY <2>1, <2>3, <2>4, TipCases DEF NodeInv
  <2> HIDE DEF n, s, h, m, l
  <2>9. /\ rec.pc = "tip" /\ rec.peer = s.peer /\ rec.low = s.low
        /\ rec.pending = s.pending /\ rec.ancestor = s.ancestor
        /\ rec.localHeight = h /\ rec.localWeight = l /\ rec.high = m
    BY <2>1 DEF SyncType
  <2> HIDE DEF rec
  <2>10. LocalInv(NodeOf[w], sync[w])'
    BY <2>2, <2>4, <2>6, <2>8, <2>9 DEF LocalInv, n
  <2>11. CallInv(w)'
    BY <2>2, <2>4, <2>6, <2>7, <2>9, <2>10 DEF CallInv, AncestorInv, n
  <2> QED BY <1>1, <1>3, <2>11, MovedKeeps DEF s
<1> QED BY <1>1, <1>2, <1>3

\* A block that verifies is one both chains have.
LEMMA VerifiedSame ==
    ASSUME ChainInv, NEW w \in Workers, NEW i, NEW ok,
           sync[w].pc \in {"tip", "search"}, Verified(w, i, ok),
           i <= sync[w].high
    PROVE  /\ i \in 1 .. sync[w].localHeight - 1
           /\ i <= last[sync[w].peer].index
           /\ db[NodeOf[w]][i] = db[sync[w].peer][i]
<1> DEFINE n == NodeOf[w]
           s == sync[w]
           q == s.peer
<1>1. /\ BlocksInv /\ HashesInv /\ CallInv(w) /\ n \in Nodes /\ q \in Nodes
      /\ s.high \in Int /\ s.localHeight \in Int
  BY ChainParameters DEF ChainInv, BlocksInv, Contents, SyncType
<1>2. NodeInv(n) /\ NodeInv(q) /\ last[n].index \in Int /\ last[q].index \in Int
  BY <1>1, TipTypes DEF ChainInv
<1>3. /\ s.high <= s.localHeight - 1 /\ s.high <= last[q].index
      /\ s.localHeight <= last[n].index + 1
  BY <1>1, <1>2 DEF CallInv, LocalInv
<1>4. /\ i \in 0 .. MaxIndex /\ MaxIndex \in Nat /\ i # 0
      /\ db[n][i].hash = db[q][i].hash
  BY <1>2, ChainParameters DEF Verified, NodeInv
<1>5. i \in Int /\ i >= 1
  BY <1>4
<1> HIDE DEF n, s, q
<1>6. i \in 1 .. last[n].index /\ i \in 1 .. last[q].index
      /\ i \in 1 .. s.localHeight - 1
  BY <1>1, <1>2, <1>3, <1>5 DEF s
<1>7. db[n][i] \in gossip /\ db[q][i] \in gossip
  BY <1>2, <1>6 DEF NodeInv, Chained
<1>8. db[n][i] = db[q][i]
  BY <1>1, <1>4, <1>7 DEF HashesInv
<1> QED BY <1>6, <1>8, <1>2 DEF n, s, q

LEMMA CheckTipKeeps ==
    ASSUME ChainInv, BlocksInv', Exclusive', NEW w \in Workers, NEW ok,
           CheckTip(w, ok)
    PROVE  ChainInv'
<1> DEFINE n == NodeOf[w]
           s == sync[w]
           a == s.high
           b == a + 1
           found == [s EXCEPT !.pc = "fetch", !.ancestor = a, !.start = b]
           search == [s EXCEPT !.pc = "search"]
<1>1. /\ s.pc = "tip" /\ UNCHANGED nodeVars
      /\ (Goto(w, found) /\ Verified(w, a, ok)) \/ Goto(w, search)
  BY DEF CheckTip, At
<1>2. /\ BlocksInv /\ CallInv(w) /\ s \in SyncType(gossip) /\ a \in Int
      /\ db' = db /\ last' = last
  BY <1>1 DEF ChainInv, BlocksInv, Contents, SyncType, nodeVars
<1>3. /\ LocalInv(n, s) /\ AncestorInv(n, s) /\ s.peer # n /\ s.low >= 0
      /\ s.pending = << >> /\ s.ancestor = -1
      /\ s.high <= s.localHeight - 1 /\ s.high <= last[s.peer].index
  BY <1>1, <1>2 DEF CallInv
<1>4. CASE Goto(w, search)
  <2>1. sync'[w] = search
    BY <1>2, <1>4, MovedTo
  <2> HIDE DEF s
  <2>2. /\ search.pc = "search" /\ search.peer = s.peer /\ search.low = s.low
        /\ search.pending = s.pending /\ search.ancestor = s.ancestor
        /\ search.localHeight = s.localHeight
        /\ search.localWeight = s.localWeight /\ search.high = s.high
    BY <1>2 DEF SyncType
  <2> HIDE DEF search
  <2>3. LocalInv(NodeOf[w], sync[w])' /\ AncestorInv(NodeOf[w], sync[w])'
    BY <1>2, <1>3, <2>1, <2>2 DEF LocalInv, AncestorInv
  <2>4. CallInv(w)'
    BY <1>2, <1>3, <2>1, <2>2, <2>3 DEF CallInv
  <2> QED BY <1>1, <1>4, <2>4, MovedKeeps DEF s
<1>5. CASE Goto(w, found) /\ Verified(w, a, ok)
  <2>1. sync'[w] = found
    BY <1>2, <1>5, MovedTo
  <2>2. /\ a \in 1 .. s.localHeight - 1 /\ a <= last[s.peer].index
        /\ db[n][a] = db[s.peer][a]
    BY <1>1, <1>2, <1>5, VerifiedSame
  <2> HIDE DEF s, a, b
  <2>3. /\ found.pc = "fetch" /\ found.peer = s.peer
        /\ found.pending = s.pending /\ found.ancestor = a /\ found.start = b
        /\ found.localHeight = s.localHeight
        /\ found.localWeight = s.localWeight
    BY <1>2 DEF SyncType
  <2> HIDE DEF found
  <2>4. LocalInv(NodeOf[w], sync[w])' /\ AncestorInv(NodeOf[w], sync[w])'
    <3>1. s.localHeight \in Int
      BY <1>2 DEF SyncType
    <3>2. a \in -1 .. s.localHeight - 1 /\ a # 0
      BY <2>2, <3>1
    <3> QED BY <1>2, <1>3, <2>1, <2>2, <2>3, <3>2 DEF LocalInv, AncestorInv
  <2>5. PendingInv(NodeOf[w], sync[w])' /\ FetchInv(sync[w])'
    <3>1. Joined(<< >>)
      BY DEF Joined
    <3> QED BY <1>3, <2>1, <2>3, <3>1 DEF PendingInv, FetchInv, b
  <2>6. CallInv(w)'
    BY <1>3, <2>1, <2>3, <2>4, <2>5 DEF CallInv
  <2> QED BY <1>1, <1>5, <2>6, MovedKeeps DEF s
<1> QED BY <1>1, <1>4, <1>5

LEMMA ProbeKeeps ==
    ASSUME ChainInv, BlocksInv', Exclusive', NEW w \in Workers, NEW ok,
           Probe(w, ok)
    PROVE  ChainInv'
<1> DEFINE n == NodeOf[w]
           s == sync[w]
           m == Mid(s)
           a == s.ancestor + 1
           over == [s EXCEPT !.pc = "fetch", !.start = a]
           hit == [s EXCEPT !.ancestor = m, !.low = m + 1]
           miss == [s EXCEPT !.high = m - 1]
<1>1. /\ s.pc = "search" /\ UNCHANGED nodeVars
      /\ \/ Goto(w, over)
         \/ Goto(w, hit) /\ Verified(w, m, ok) /\ s.low <= s.high
         \/ Goto(w, miss) /\ s.low <= s.high
  <2>1. s.low \in Int /\ s.high \in Int
    BY DEF ChainInv, BlocksInv, Contents, SyncType
  <2> QED BY <2>1 DEF Probe, Probed, At
<1>2. /\ BlocksInv /\ CallInv(w) /\ s \in SyncType(gossip)
      /\ db' = db /\ last' = last
  BY <1>1 DEF ChainInv, BlocksInv, Contents, nodeVars
<1>3. /\ LocalInv(n, s) /\ AncestorInv(n, s) /\ s.peer # n /\ s.low >= 0
      /\ s.pending = << >>
      /\ s.high <= s.localHeight - 1 /\ s.high <= last[s.peer].index
  BY <1>1, <1>2 DEF CallInv
<1>4. /\ s.low \in Int /\ s.high \in Int /\ s.localHeight \in Int
      /\ last[s.peer].index \in Int /\ m \in Int
      /\ s.low <= s.high => s.low <= m /\ m <= s.high
  <2>1. s.low \in Int /\ s.high \in Int /\ s.localHeight \in Int
    BY <1>2 DEF SyncType
  <2>2. last[s.peer].index \in Int
    BY <1>1, <1>2, TipTypes DEF BlocksInv
  <2> HIDE DEF s
  <2> QED BY <2>1, <2>2 DEF Mid
<1>5. CASE Goto(w, over)
  <2>1. sync'[w] = over
    BY <1>2, <1>5, MovedTo
  <2> HIDE DEF s, a
  <2>2. /\ over.pc = "fetch" /\ over.peer = s.peer
        /\ over.pending = s.pending /\ over.ancestor = s.ancestor
        /\ over.start = a
        /\ over.localHeight = s.localHeight
        /\ over.localWeight = s.localWeight
    BY <1>2 DEF SyncType
  <2> HIDE DEF over
  <2>3. LocalInv(NodeOf[w], sync[w])' /\ AncestorInv(NodeOf[w], sync[w])'
    BY <1>2, <1>3, <2>1, <2>2 DEF LocalInv, AncestorInv
  <2>4. PendingInv(NodeOf[w], sync[w])' /\ FetchInv(sync[w])'
    <3>1. Joined(<< >>)
      BY DEF Joined
    <3> QED BY <1>3, <2>1, <2>2, <3>1 DEF PendingInv, FetchInv, a
  <2>5. CallInv(w)'
    BY <1>3, <2>1, <2>2, <2>3, <2>4 DEF CallInv
  <2> QED BY <1>1, <1>5, <2>5, MovedKeeps DEF s
<1>6. CASE Goto(w, miss) /\ s.low <= s.high
  <2>1. sync'[w] = miss
    BY <1>2, <1>6, MovedTo
  <2> HIDE DEF s, m
  <2>2. /\ miss.pc = "search" /\ miss.peer = s.peer /\ miss.low = s.low
        /\ miss.pending = s.pending /\ miss.ancestor = s.ancestor
        /\ miss.localHeight = s.localHeight
        /\ miss.localWeight = s.localWeight /\ miss.high = m - 1
    BY <1>1, <1>2 DEF SyncType
  <2> HIDE DEF miss
  <2>3. LocalInv(NodeOf[w], sync[w])' /\ AncestorInv(NodeOf[w], sync[w])'
    BY <1>2, <1>3, <2>1, <2>2 DEF LocalInv, AncestorInv
  <2>4. m - 1 <= s.localHeight - 1 /\ m - 1 <= last[s.peer].index
    BY <1>3, <1>4, <1>6
  <2>5. CallInv(w)'
    BY <1>2, <1>3, <2>1, <2>2, <2>3, <2>4 DEF CallInv
  <2> QED BY <1>1, <1>6, <2>5, MovedKeeps DEF s
<1>7. CASE Goto(w, hit) /\ Verified(w, m, ok) /\ s.low <= s.high
  <2>1. sync'[w] = hit
    BY <1>2, <1>7, MovedTo
  <2>2. /\ m \in 1 .. s.localHeight - 1 /\ m <= last[s.peer].index
        /\ db[n][m] = db[s.peer][m]
    BY <1>1, <1>2, <1>4, <1>7, VerifiedSame
  <2> HIDE DEF s, m
  <2>3. /\ hit.pc = "search" /\ hit.peer = s.peer /\ hit.low = m + 1
        /\ hit.pending = s.pending /\ hit.ancestor = m
        /\ hit.localHeight = s.localHeight
        /\ hit.localWeight = s.localWeight /\ hit.high = s.high
    BY <1>1, <1>2 DEF SyncType
  <2> HIDE DEF hit
  <2>4. LocalInv(NodeOf[w], sync[w])' /\ AncestorInv(NodeOf[w], sync[w])'
    <3>1. m \in -1 .. s.localHeight - 1 /\ m # 0
      BY <2>2, <1>4
    <3> QED BY <1>2, <1>3, <2>1, <2>2, <2>3, <3>1 DEF LocalInv, AncestorInv
  <2>5. m + 1 >= 0
    BY <1>4, <2>2
  <2>6. CallInv(w)'
    BY <1>2, <1>3, <2>1, <2>3, <2>4, <2>5 DEF CallInv
  <2> QED BY <1>1, <1>7, <2>6, MovedKeeps DEF s
<1> QED BY <1>1, <1>5, <1>6, <1>7

-----------------------------------------------------------------------------
(* Downloading.                                                            *)

\* The blocks of a part of a chain.
Part(d, lo, hi) == [k \in 1 .. hi - lo + 1 |-> d[lo + k - 1]]

\* A part of a chain is joined.
LEMMA JoinedRange ==
    ASSUME NEW g, NEW d, NEW h \in Int, Chained(g, d, h),
           NEW lo \in Int, NEW hi \in Int, 1 <= lo, lo <= hi, hi <= h
    PROVE  /\ Part(d, lo, hi) \in Seq(g) /\ Part(d, lo, hi) # << >>
           /\ Len(Part(d, lo, hi)) = hi - lo + 1
           /\ Joined(Part(d, lo, hi))
           /\ Head(Part(d, lo, hi)) = d[lo] /\ Last(Part(d, lo, hi)) = d[hi]
<1> DEFINE s == Part(d, lo, hi)
<1>0. s = [k \in 1 .. hi - lo + 1 |-> d[lo + k - 1]]
  BY DEF Part
<1> HIDE DEF s
<1>1. hi - lo + 1 \in Nat /\ hi - lo + 1 >= 1
  OBVIOUS
<1>2. \A k \in 1 .. hi - lo + 1 :
         lo + k - 1 \in 1 .. h /\ d[lo + k - 1] \in g
  <2>1. \A k \in 1 .. hi - lo + 1 : lo + k - 1 \in 1 .. h
    OBVIOUS
  <2> QED BY <2>1 DEF Chained
<1>3. s \in Seq(g) /\ Len(s) = hi - lo + 1
  <2> DEFINE m == hi - lo + 1
             f == [k \in Int |-> d[lo + k - 1]]
  <2>1. \A k \in 1 .. m : f[k] = d[lo + k - 1]
    OBVIOUS
  <2>2. \A k \in 1 .. m : f[k] \in g
    BY <2>1, <1>2
  <2>3. s = [k \in 1 .. m |-> f[k]]
    BY <1>0
  <2>4. m \in Nat
    BY <1>1
  <2> HIDE DEF m, f
  <2>5. [k \in 1 .. m |-> f[k]] \in Seq(g) /\ Len([k \in 1 .. m |-> f[k]]) = m
    BY <2>2, <2>4
  <2> QED BY <2>3, <2>5, Zenon DEF m
<1>4. s # << >> /\ Head(s) = d[lo]
  <2>1. s # << >>
    BY <1>1, <1>3
  <2>2. s[1] = d[lo]
    BY <1>0, <1>1
  <2> QED BY <2>1, <2>2, <1>3
<1>5. Last(s) = d[hi]
  <2>1. hi - lo + 1 \in 1 .. hi - lo + 1 /\ lo + (hi - lo + 1) - 1 = hi
    BY <1>1
  <2> QED BY <1>0, <2>1, <1>3 DEF Last
<1>6. ASSUME NEW k \in 1 .. Len(s) - 1 PROVE Follows(s[k], s[k + 1])
  <2>1. k \in 1 .. hi - lo + 1 /\ k + 1 \in 1 .. hi - lo + 1
    BY <1>3
  <2> DEFINE i == lo + k
  <2>2. i \in 1 .. h /\ i - 1 \in 1 .. h /\ i > 1 /\ i \in Int
    BY <2>1
  <2>3. s[k] = d[i - 1] /\ s[k + 1] = d[i]
    BY <1>0, <2>1
  <2> HIDE DEF i
  <2>4. d[i].index = d[i - 1].index + 1 /\ d[i].prev = d[i - 1].hash
    BY <2>2 DEF Chained
  <2> QED BY <2>3, <2>4 DEF Follows
<1>7. Joined(s)
  BY <1>6 DEF Joined
<1> QED BY <1>3, <1>4, <1>5, <1>7 DEF s

\* Two joined parts of which the second follows the first.
LEMMA JoinedConcat ==
    ASSUME NEW g, NEW s \in Seq(g), NEW t \in Seq(g), t # << >>,
           Joined(s), Joined(t), s # << >> => Follows(Last(s), Head(t))
    PROVE  /\ s \o t # << >> /\ Joined(s \o t) /\ Last(s \o t) = Last(t)
           /\ Head(s \o t) = IF s = << >> THEN Head(t) ELSE Head(s)
<1> DEFINE u == s \o t
           m == Len(s)
           n == Len(t)
<1>1. /\ m \in Nat /\ n \in Nat /\ n >= 1 /\ (s # << >> => m >= 1)
      /\ u \in Seq(g) /\ Len(u) = m + n
      /\ \A i \in 1 .. m + n : u[i] = IF i <= m THEN s[i] ELSE t[i - m]
  <2>1. n # 0 /\ (s # << >> => m # 0)
    BY EmptySeq
  <2> QED BY <2>1
<1>2. Last(u) = Last(t)
  BY <1>1 DEF Last
<1>3. Head(u) = IF s = << >> THEN Head(t) ELSE Head(s)
  <2>1. Head(u) = u[1] /\ Head(t) = t[1] /\ (s # << >> => Head(s) = s[1])
    BY <1>1
  <2>2. s = << >> => m = 0
    BY EmptySeq
  <2> QED BY <2>1, <2>2, <1>1
<1>4. ASSUME NEW k \in 1 .. Len(u) - 1 PROVE Follows(u[k], u[k + 1])
  <2>1. k \in Int /\ k \in 1 .. m + n /\ k + 1 \in 1 .. m + n
    BY <1>1
  <2>2. CASE k < m
    <3>1. k \in 1 .. m - 1 /\ u[k] = s[k] /\ u[k + 1] = s[k + 1]
      BY <1>1, <2>1, <2>2
    <3> QED BY <3>1 DEF Joined
  <2>3. CASE k = m
    <3>1. /\ u[k] = s[m] /\ u[k + 1] = t[1] /\ s # << >>
      BY <1>1, <2>1, <2>3, EmptySeq
    <3>2. Last(s) = s[m] /\ Head(t) = t[1]
      BY <1>1 DEF Last
    <3> QED BY <3>1, <3>2
  <2>4. CASE k > m
    <3> DEFINE j == k - m
    <3>1. j \in 1 .. n - 1 /\ u[k] = t[j] /\ u[k + 1] = t[j + 1]
      BY <1>1, <2>1, <2>4
    <3> HIDE DEF j
    <3> QED BY <3>1 DEF Joined
  <2> QED BY <2>1, <2>2, <2>3, <2>4, <1>1
<1> HIDE DEF u
<1>5. u # << >> /\ Joined(u)
  BY <1>1, <1>4, EmptySeq DEF Joined
<1> QED BY <1>2, <1>3, <1>5 DEF u

\* A peer serves a part of its chain, from the index asked for on, or from 1.
LEMMA ServedChain ==
    ASSUME BlocksInv, NEW q \in Nodes, NodeInv(q), NEW start \in Nat,
           Served(q, start) # << >>
    PROVE  \E lo, hi \in 1 .. last[q].index :
              /\ lo = (IF start = 0 THEN 1 ELSE start) /\ lo <= hi
              /\ Served(q, start) = Part(db[q], lo, hi)
              /\ start + (hi - lo + 1) \in {hi, hi + 1}
<1> DEFINE e == Min({start + Batch, Height(q)})
           lo == IF start = 0 THEN 1 ELSE start
           hi == e - 1
           d == db[q]
           l == last[q].index
<1>1. l \in -1 .. MaxIndex /\ MaxIndex \in Nat /\ Batch \in Nat /\ Batch >= 1
  BY TipTypes, ChainParameters
<1>2. Height(q) = l + 1 /\ start < l + 1
  BY DEF Served, Height
<1>3. e \in Int /\ start < e /\ e <= l + 1
  <2> DEFINE a == start + Batch
             b == Height(q)
  <2>1. a \in Int /\ b \in Int /\ start < a /\ start < b /\ b = l + 1
    BY <1>1, <1>2
  <2> HIDE DEF a, b, l
  <2>2. Min({a, b}) = IF a <= b THEN a ELSE b
    BY <2>1, MinOfTwo
  <2> QED BY <2>1, <2>2 DEF a, b
<1>4. Served(q, start) = BlocksRange(d, start, e)
  BY <1>2 DEF Served
<1>5. d \in [0 .. MaxIndex -> gossip \cup {None}] /\ d[0] = None
      /\ Chained(gossip, d, l) /\ None \notin gossip
  BY FixedBlocks DEF BlocksInv, Contents, NodeInv, Built
<1> HIDE DEF e, d, l
<1>6. lo \in Int /\ start <= lo /\ lo >= 1 /\ start \in Int /\ start <= e
      /\ lo <= e
  BY <1>3
<1>7. \A i \in start .. lo - 1 : i \in DOMAIN d => d[i] = None
  <2> SUFFICES ASSUME NEW i \in start .. lo - 1 PROVE i = 0
    BY <1>5
  <2> QED BY <1>6
<1>8. \A i \in lo .. e - 1 : i \in DOMAIN d /\ d[i] # None
  <2> SUFFICES ASSUME NEW i \in lo .. e - 1
               PROVE  i \in 0 .. MaxIndex /\ i \in 1 .. l
    BY <1>5 DEF Chained
  <2> QED BY <1>1, <1>3, <1>6
<1> HIDE DEF lo
<1>9. BlocksRange(d, start, e) = [k \in 1 .. e - lo |-> d[lo + k - 1]]
  BY <1>3, <1>6, <1>7, <1>8, RangeOf
<1>10. lo < e
  <2> SUFFICES ASSUME lo = e PROVE FALSE
    BY <1>3, <1>6
  <2>1. 1 .. e - lo = {}
    BY <1>3
  <2> QED BY <2>1, <1>4, <1>9
<1>11. /\ hi \in Int /\ lo <= hi /\ hi <= l /\ hi - lo + 1 = e - lo
       /\ lo \in 1 .. l /\ hi \in 1 .. l
  BY <1>1, <1>3, <1>6, <1>10
<1>12. start + (hi - lo + 1) \in {hi, hi + 1}
  <2>1. CASE start = 0
    BY <2>1, <1>3 DEF lo
  <2>2. CASE start # 0
    BY <2>2, <1>3 DEF lo
  <2> QED BY <2>1, <2>2
<1> HIDE DEF hi
<1>13. Served(q, start) = Part(d, lo, hi)
  BY <1>4, <1>9, <1>11 DEF Part
<1> QED BY <1>11, <1>12, <1>13 DEF lo, d, l

LEMMA FetchKeeps ==
    ASSUME ChainInv, BlocksInv', Exclusive', NEW w \in Workers, NEW ok,
           Fetch(w, ok)
    PROVE  ChainInv'
<1> DEFINE n == NodeOf[w]
           s == sync[w]
           q == s.peer
           blocks == Served(q, s.start)
           pending == s.pending \o blocks
           start == s.start + Len(blocks)
           over == [s EXCEPT !.pc = "apply"]
           more == [s EXCEPT !.pending = pending, !.start = start]
<1>1. /\ s.pc = "fetch" /\ UNCHANGED nodeVars
      /\ Goto(w, over) \/ (Goto(w, more) /\ blocks # << >>)
  BY DEF Fetch, At
<1>2. /\ BlocksInv /\ CallInv(w) /\ s \in SyncType(gossip)
      /\ s.pending \in Seq(gossip) /\ s.start \in Int
      /\ db' = db /\ last' = last
  BY <1>1 DEF ChainInv, BlocksInv, Contents, SyncType, nodeVars
<1>3. /\ LocalInv(n, s) /\ AncestorInv(n, s) /\ s.peer # n
      /\ PendingInv(n, s) /\ FetchInv(s)
  BY <1>1, <1>2 DEF CallInv
<1>4. q \in Nodes /\ NodeInv(q) /\ last[q].index \in -1 .. MaxIndex
      /\ MaxIndex \in Nat
  BY <1>1, <1>2, TipTypes, ChainParameters DEF BlocksInv, ChainInv
<1>5. CASE Goto(w, over)
  <2>1. sync'[w] = over
    BY <1>2, <1>5, MovedTo
  <2> HIDE DEF s, q
  <2>2. /\ over.pc = "apply" /\ over.peer = s.peer
        /\ over.pending = s.pending /\ over.ancestor = s.ancestor
        /\ over.localHeight = s.localHeight
        /\ over.localWeight = s.localWeight
    BY <1>2 DEF SyncType
  <2> HIDE DEF over
  <2>3. LocalInv(NodeOf[w], sync[w])' /\ PendingInv(NodeOf[w], sync[w])'
    BY <1>2, <1>3, <2>1, <2>2 DEF LocalInv, PendingInv
  <2>4. CallInv(w)'
    BY <1>3, <2>1, <2>2, <2>3 DEF CallInv
  <2> QED BY <1>1, <1>5, <2>4, MovedKeeps DEF s
<1>6. CASE Goto(w, more) /\ blocks # << >>
  <2>1. sync'[w] = more
    BY <1>2, <1>6, MovedTo
  <2>2. s.start \in Nat
    <3>1. s.ancestor \in -1 .. MaxIndex
      BY <1>2 DEF SyncType
    <3>2. CASE s.pending = << >>
      BY <3>1, <3>2, <1>3, <1>4 DEF FetchInv
    <3>3. CASE s.pending # << >>
      <4> DEFINE i == Last(s.pending).index
      <4>1. i \in 1 .. last[q].index /\ s.start \in {i, i + 1}
        BY <3>3, <1>3 DEF FetchInv
      <4> HIDE DEF i
      <4> QED BY <4>1, <1>4
    <3> QED BY <3>2, <3>3
  <2>3. PICK lo \in 1 .. last[q].index, hi \in 1 .. last[q].index :
              /\ lo = (IF s.start = 0 THEN 1 ELSE s.start) /\ lo <= hi
              /\ blocks = Part(db[q], lo, hi)
              /\ s.start + (hi - lo + 1) \in {hi, hi + 1}
    BY <1>2, <1>4, <1>6, <2>2, ServedChain
  <2>4. /\ blocks \in Seq(gossip) /\ Len(blocks) = hi - lo + 1
        /\ Joined(blocks) /\ Head(blocks) = db[q][lo] /\ Last(blocks) = db[q][hi]
    <3> DEFINE d == db[q]
               l == last[q].index
    <3>1. /\ l \in Int /\ lo \in Int /\ hi \in Int /\ 1 <= lo /\ hi <= l
          /\ Chained(gossip, d, l)
          /\ lo <= hi /\ blocks = Part(d, lo, hi)
      BY <1>4, <2>3 DEF NodeInv
    <3> HIDE DEF d, l, blocks
    <3>2. /\ blocks \in Seq(gossip) /\ Len(blocks) = hi - lo + 1
          /\ Joined(blocks) /\ Head(blocks) = d[lo] /\ Last(blocks) = d[hi]
      BY <3>1, JoinedRange
    <3> QED BY <3>2 DEF d
  <2>5. \A i \in 1 .. last[q].index :
           /\ db[q][i].index = i
           /\ i > 1 => db[q][i].prev = db[q][i - 1].hash
    BY <1>4 DEF NodeInv, Chained
  <2>6. s.pending = << >> =>
           IF s.ancestor = -1 THEN IsFirst(Head(blocks))
           ELSE Follows(db[n][s.ancestor], Head(blocks))
    <3> SUFFICES ASSUME s.pending = << >>
                 PROVE  IF s.ancestor = -1 THEN IsFirst(db[q][lo])
                        ELSE Follows(db[n][s.ancestor], db[q][lo])
      BY <2>4
    <3>1. s.start = s.ancestor + 1
      BY <1>3 DEF FetchInv
    <3>2. CASE s.ancestor = -1
      <4>1. lo = 1
        BY <2>3, <3>1, <3>2
      <4>2. Acceptable(Transactions(Prefix(db[q], 1 - 1)), db[q][1])
        BY <1>4, <2>3, <4>1 DEF NodeInv, Chained
      <4>3. Acceptable(<< >>, db[q][1])
        BY <4>2, NothingApplied
      <4> QED BY <2>5, <4>1, <4>3, <3>2, <2>3 DEF IsFirst
    <3>3. CASE s.ancestor # -1
      <4>1. s.ancestor \in 1 .. last[q].index
        BY <1>2, <1>3, <1>4, <3>3 DEF AncestorInv, LocalInv, SyncType
      <4>2. lo = s.ancestor + 1 /\ lo > 1 /\ lo - 1 = s.ancestor
        BY <2>3, <3>1, <4>1
      <4>3. db[n][s.ancestor] = db[q][s.ancestor]
        BY <1>3, <3>3 DEF AncestorInv
      <4>4. db[q][lo].index = lo /\ db[q][lo].prev = db[q][lo - 1].hash
        BY <2>3, <2>5, <4>2
      <4>5. db[q][s.ancestor].index = s.ancestor
        BY <2>5, <4>1
      <4> HIDE DEF s, q, n
      <4> QED BY <3>3, <4>2, <4>3, <4>4, <4>5 DEF Follows
    <3> QED BY <3>2, <3>3
  <2>7. s.pending # << >> => Follows(Last(s.pending), Head(blocks))
    <3> SUFFICES ASSUME s.pending # << >>
                 PROVE  Follows(Last(s.pending), db[q][lo])
      BY <2>4
    <3> DEFINE b == Last(s.pending)
    <3>1. /\ b.index \in 1 .. last[q].index /\ b = db[q][b.index]
          /\ s.start \in {b.index, b.index + 1}
      BY <1>3 DEF FetchInv
    <3>2. lo = s.start
      BY <2>3, <3>1
    <3>3. CASE lo = b.index
      BY <3>1, <3>3 DEF Follows
    <3>4. CASE lo = b.index + 1
      <4>1. lo > 1 /\ lo - 1 = b.index
        BY <3>1, <3>4
      <4>2. db[q][lo].index = lo /\ db[q][lo].prev = db[q][lo - 1].hash
        BY <2>3, <2>5, <4>1
      <4> HIDE DEF b, s, q
      <4>3. Follows(b, db[q][lo])
        BY <3>1, <3>4, <4>1, <4>2 DEF Follows
      <4> QED BY <4>3 DEF b
    <3> QED BY <3>1, <3>2, <3>3, <3>4
  <2> HIDE DEF blocks, s, q
  <2>8. /\ pending # << >> /\ Joined(pending) /\ Last(pending) = Last(blocks)
        /\ Head(pending) = IF s.pending = << >> THEN Head(blocks)
                           ELSE Head(s.pending)
    BY <1>2, <1>3, <1>6, <2>4, <2>7, JoinedConcat DEF PendingInv
  <2>9. start \in {hi, hi + 1}
    BY <2>3, <2>4
  <2> HIDE DEF pending, start
  <2>10. /\ more.pc = "fetch" /\ more.peer = q
         /\ more.pending = pending /\ more.ancestor = s.ancestor
         /\ more.start = start
         /\ more.localHeight = s.localHeight
         /\ more.localWeight = s.localWeight
    BY <1>1, <1>2 DEF SyncType, q
  <2> HIDE DEF more
  <2>11. LocalInv(NodeOf[w], sync[w])' /\ AncestorInv(NodeOf[w], sync[w])'
    BY <1>2, <1>3, <2>1, <2>10 DEF LocalInv, AncestorInv, q
  <2>12. PendingInv(NodeOf[w], sync[w])'
    BY <1>2, <1>3, <2>1, <2>6, <2>8, <2>10 DEF PendingInv
  <2>13. FetchInv(sync[w])'
    <3>1. Last(pending).index = hi /\ Last(pending) = db[q][hi]
      BY <2>3, <2>4, <2>5, <2>8
    <3> QED BY <1>2, <2>1, <2>3, <2>8, <2>9, <2>10, <3>1 DEF FetchInv
  <2>14. CallInv(w)'
    BY <1>3, <2>1, <2>10, <2>11, <2>12, <2>13 DEF CallInv, q
  <2> QED BY <1>1, <1>6, <2>14, MovedKeeps DEF s
<1> QED BY <1>1, <1>5, <1>6

-----------------------------------------------------------------------------
(* Adopting.                                                               *)

\* The locked section begins at the common prefix.
LEMMA CutToPrefix ==
    ASSUME ChainInv, NEW w \in Workers, ApplyPending(w), Heavier(sync[w])
    PROVE  LET n == NodeOf[w]
               s == sync[w]
               a == s.ancestor
           IN  /\ a \in -1 .. last[n].index /\ a # 0
               /\ last' = [last EXCEPT ![n] = IF a = -1 THEN RootBlock
                                              ELSE db[n][a]]
               /\ last'[n].index = a
               /\ \A i \in 1 .. a : db'[n][i] = db[n][i]
               /\ db' = [db EXCEPT ![n] = Trimmed(n, s)]
               /\ db'[n][0] = None
               /\ latest' = [latest EXCEPT ![n] = a]
               /\ applied' = [applied EXCEPT ![n] = Transactions(Prefix(db[n], a))]
               /\ Goto(w, [s EXCEPT !.pc = "adopt"]) /\ s.pc = "apply"
               /\ Unlocked(n)
<1> DEFINE n == NodeOf[w]
           s == sync[w]
           a == s.ancestor
           d == db[n]
           trimmed == Trimmed(n, s)
           kept == BlocksRange(trimmed, 0, a + 1)
<1>1. /\ s.pc = "apply" /\ Unlocked(n)
      /\ Goto(w, [s EXCEPT !.pc = "adopt"])
      /\ db' = [db EXCEPT ![n] = trimmed]
      /\ latest' = [latest EXCEPT ![n] = a]
      /\ last' = [last EXCEPT ![n] = Tip(kept, RootBlock)]
      /\ applied' = [applied EXCEPT ![n] = Replay(kept)]
  BY DEF ApplyPending, At, TrimmedLatest
<1>2. /\ BlocksInv /\ HashesInv /\ CallInv(w) /\ n \in Nodes /\ NodeInv(n)
      /\ s \in SyncType(gossip) /\ a \in Int /\ s.localHeight \in Int
  <2>1. /\ BlocksInv /\ HashesInv /\ CallInv(w) /\ n \in Nodes /\ NodeInv(n)
        /\ s \in SyncType(gossip)
    BY ChainParameters DEF ChainInv, BlocksInv, Contents
  <2>2. s.ancestor \in -1 .. MaxIndex /\ s.localHeight \in Int
    BY <2>1 DEF SyncType
  <2> QED BY <2>1, <2>2
<1>3. /\ n \in DOMAIN db /\ n \in DOMAIN last
      /\ d \in [0 .. MaxIndex -> gossip \cup {None}] /\ MaxIndex \in Nat
      /\ last[n].index \in -1 .. MaxIndex
  BY <1>2, TipTypes, ChainParameters DEF BlocksInv, Contents
<1>4. LocalInv(n, s)
  BY <1>1, <1>2 DEF CallInv
<1>5. a \in -1 .. last[n].index /\ a # 0 /\ a <= MaxIndex
  <2>1. s.localHeight - 1 <= last[n].index
    BY <1>2, <1>3, <1>4 DEF LocalInv
  <2>2. a \in -1 .. s.localHeight - 1 /\ a # 0
    BY <1>4 DEF LocalInv
  <2> HIDE DEF s, n, a
  <2> QED BY <1>2, <1>3, <2>1, <2>2
<1> HIDE DEF s, n
<1>6. trimmed = [i \in 0 .. MaxIndex |-> IF i \in a + 1 .. s.localHeight - 1
                                         THEN None ELSE d[i]]
  BY <1>3 DEF Trimmed
<1>7. /\ trimmed \in [0 .. MaxIndex -> gossip \cup {None}]
      /\ trimmed[0] = None
      /\ \A i \in 1 .. a : trimmed[i] = d[i]
  <2>1. d[0] = None
    BY <1>2 DEF NodeInv
  <2>2. \A i \in 1 .. a : i \in 0 .. MaxIndex /\ i \notin a + 1 .. s.localHeight - 1
    BY <1>2, <1>3, <1>5
  <2> HIDE DEF d, trimmed, a
  <2> QED BY <1>3, <1>6, <2>1, <2>2
<1> HIDE DEF trimmed
<1>8. Chained(gossip, d, a)
  BY <1>2, <1>3, <1>5, PrefixOf DEF NodeInv
<1>9. Chained(gossip, trimmed, a) /\ Prefix(trimmed, a) = Prefix(d, a)
  <2>1. a \in Int /\ \A i \in 1 .. a : trimmed[i] = d[i]
    BY <1>2, <1>7
  <2> HIDE DEF d, a, kept
  <2> QED BY <1>8, <2>1, ChainedSame
<1>10. kept = Prefix(d, a) /\ Replay(kept) = Transactions(Prefix(d, a))
  <2>1. None \notin gossip
    BY <1>2, FixedBlocks DEF BlocksInv, Built
  <2>2. -1 <= a
    BY <1>5
  <2> HIDE DEF d, a
  <2> QED BY <1>2, <1>5, <1>7, <1>9, <2>1, <2>2, ChainedReplay
<1>11. Tip(kept, RootBlock) = IF a = -1 THEN RootBlock ELSE d[a]
  <2>1. CASE a = -1
    <3>1. kept = << >>
      BY <1>10, <2>1, NothingApplied
    <3> QED BY <3>1, <2>1 DEF Tip
  <2>2. CASE a # -1
    <3>1. a \in Nat /\ a >= 1
      BY <1>5, <2>2
    <3>2. Len(kept) = a /\ kept # << >>
      <4>1. kept \in Seq(gossip) /\ Len(kept) = a
        <5>1. a <= a
          BY <1>2
        <5> HIDE DEF d, a, kept
        <5> QED BY <1>2, <1>8, <1>10, <3>1, <5>1, PrefixOf
      <4> QED BY <4>1, <3>1, EmptySeq
    <3>3. kept[a] = d[a]
      BY <1>10, <3>1 DEF Prefix
    <3> QED BY <2>2, <3>2, <3>3 DEF Tip, Last
  <2> QED BY <2>1, <2>2
<1>12. (IF a = -1 THEN RootBlock ELSE d[a]).index = a
  <2>1. a # -1 => a \in 1 .. last[n].index
    BY <1>3, <1>5
  <2>2. a # -1 => d[a].index = a
    BY <2>1, <1>2 DEF NodeInv, Chained
  <2> QED BY <2>2, FixedBlocks
<1>13. db'[n] = trimmed
  BY <1>1, <1>3
<1> HIDE DEF kept
<1>14. last' = [last EXCEPT ![n] = IF a = -1 THEN RootBlock ELSE d[a]]
  BY <1>1, <1>11
<1>15. last'[n].index = a
  <2> HIDE DEF d, a
  <2> QED BY <1>3, <1>12, <1>14
<1> QED BY <1>1, <1>5, <1>7, <1>10, <1>13, <1>14, <1>15 DEF n, s, trimmed

\* The call's node is left with the common prefix, and the download on top.
LEMMA ApplyPendingKeeps ==
    ASSUME ChainInv, BlocksInv', Exclusive', NEW w \in Workers, ApplyPending(w),
           ~ crossed'
    PROVE  ChainInv'
<1> DEFINE n == NodeOf[w]
           s == sync[w]
           a == s.ancestor
           rec == [s EXCEPT !.pc = "adopt"]
<1>1. CASE ~ Heavier(s)
  BY <1>1, IdleKeeps DEF ApplyPending, At
<1>2. CASE Heavier(s)
  <2>1. /\ BlocksInv /\ HashesInv /\ CallInv(w) /\ n \in Nodes /\ NodeInv(n)
        /\ s \in SyncType(gossip)
    BY ChainParameters DEF ChainInv, BlocksInv, Contents
  <2>2. /\ a \in -1 .. last[n].index /\ a # 0
        /\ last' = [last EXCEPT ![n] = IF a = -1 THEN RootBlock ELSE db[n][a]]
        /\ last'[n].index = a
        /\ \A i \in 1 .. a : db'[n][i] = db[n][i]
        /\ db' = [db EXCEPT ![n] = Trimmed(n, s)]
        /\ db'[n][0] = None
        /\ latest' = [latest EXCEPT ![n] = a]
        /\ applied' = [applied EXCEPT ![n] = Transactions(Prefix(db[n], a))]
        /\ Goto(w, rec) /\ s.pc = "apply" /\ Unlocked(n)
    BY <1>2, CutToPrefix
  <2>3. /\ sync' = [sync EXCEPT ![w] = rec] /\ sync'[w] = rec
        /\ gossip' = gossip
    BY <2>1, <2>2, MovedTo DEF Goto
  <2>4. /\ n \in DOMAIN db /\ n \in DOMAIN last /\ n \in DOMAIN latest
        /\ n \in DOMAIN applied /\ last[n].index \in -1 .. MaxIndex
        /\ MaxIndex \in Nat
    BY <2>1, TipTypes, ChainParameters DEF BlocksInv, Contents
  <2>5. /\ PendingInv(n, s) /\ s.peer # n /\ s.pending # << >>
    BY <1>2, <2>1, <2>2 DEF CallInv, Heavier
  <2> HIDE DEF s, a
  <2>6. rec.pc = "adopt" /\ rec.peer = s.peer /\ rec.pending = s.pending
    BY <2>1 DEF SyncType
  <2> HIDE DEF rec
  <2>7. a \in Int /\ Chained(gossip, db[n], a)
    BY <2>1, <2>2, <2>4, PrefixOf DEF NodeInv
  <2>8. /\ Chained(gossip, db'[n], a)
        /\ Prefix(db'[n], a) = Prefix(db[n], a)
    BY <2>2, <2>7, ChainedSame
  <2>9. /\ last'[n] = IF a = -1 THEN RootBlock ELSE db[n][a]
        /\ latest'[n] = a /\ applied'[n] = Transactions(Prefix(db[n], a))
    BY <2>2, <2>4
  <2>10. a # -1 => /\ a \in 1 .. a /\ a >= 1 /\ db[n][a] \in gossip
                   /\ db[n][a] # RootBlock /\ db'[n][a] = db[n][a]
    <3> SUFFICES ASSUME a # -1
                 PROVE  /\ a \in 1 .. a /\ a >= 1 /\ db[n][a] \in gossip
                        /\ db[n][a] # RootBlock /\ db'[n][a] = db[n][a]
      OBVIOUS
    <3>1. a \in 1 .. a /\ a >= 1
      BY <2>2, <2>4
    <3>2. db[n][a] \in gossip /\ db[n][a].index = a
      BY <3>1, <2>7 DEF Chained
    <3> QED BY <3>1, <3>2, <2>2, FixedBlocks
  <2>11. NodeInv(n)'
    <3>1. last'[n] = RootBlock => Adopting(n)'
      BY <2>3, <2>6 DEF Adopting
    <3>2. last'[n].index >= 1 => last'[n] = db'[n][last'[n].index]
      BY <2>2, <2>9, <2>10
    <3>3. Chained(gossip', db'[n], last'[n].index)
      BY <2>2, <2>3, <2>8
    <3>4. applied'[n] = Transactions(Prefix(db'[n], last'[n].index))
      BY <2>2, <2>8, <2>9
    <3>5. latest'[n] = last'[n].index /\ latest'[n] # None
      <4>1. a \in -1 .. MaxIndex
        BY <2>2, <2>4
      <4> QED BY <4>1, <2>2, <2>9, FixedBlocks
    <3>6. \A i \in 1 .. latest'[n] :
              /\ db'[n][i] # None
              /\ i > 1 => db'[n][i].prev = db'[n][i - 1].hash
      <4>1. None \notin gossip
        BY <2>1, FixedBlocks DEF BlocksInv, Built
      <4> QED BY <4>1, <2>8, <2>9 DEF Chained
    <3> QED BY <2>2, <3>1, <3>2, <3>3, <3>4, <3>5, <3>6 DEF NodeInv
  <2>12. ASSUME NEW o \in Nodes, o # n PROVE NodeInv(o)'
    <3>1. /\ db'[o] = db[o] /\ latest'[o] = latest[o]
          /\ last'[o] = last[o] /\ applied'[o] = applied[o]
      BY <2>1, <2>2, <2>12 DEF BlocksInv, Contents
    <3>2. NodeInv(o) /\ (Adopting(o) => Adopting(o)')
      <4>1. \A v \in Workers : sync[v].pc = "adopt" => sync'[v] = sync[v]
        BY <2>2, <2>3 DEF s
      <4> QED BY <4>1 DEF ChainInv, Adopting
    <3> QED BY <3>1, <3>2, <2>1, <2>3, NodeFrame
  <2>13. CallInv(w)'
    <3>1. AdoptInv(NodeOf[w], sync[w])'
      <4>1. Joined(s.pending)
        BY <2>5 DEF PendingInv
      <4>2. IF last'[n] = RootBlock THEN IsFirst(Head(s.pending))
            ELSE last'[n].index >= 1 /\ Follows(last'[n], Head(s.pending))
        BY <2>2, <2>5, <2>9, <2>10 DEF PendingInv, a
      <4> QED BY <4>1, <4>2, <2>3, <2>5, <2>6 DEF AdoptInv
    <3> QED BY <3>1, <2>3, <2>5, <2>6 DEF CallInv
  <2>14. HashesInv'
    BY <2>1, <2>3 DEF HashesInv
  <2>15. ASSUME NEW v \in Workers, v # w PROVE CallInv(v)'
    <3>1. CallInv(v) /\ sync'[v] = sync[v] /\ NodeOf[v] \in Nodes
      BY <2>3, <2>15, ChainParameters DEF ChainInv
    <3>2. ~ ReliesOn(v, n)
      <4>1. CutBack(n, Workers \ {w})
        BY <1>2 DEF ApplyPending, s
      <4> QED BY <4>1, <2>15, Zenon DEF CutBack
    <3>3. \A o \in Nodes : ReliesOn(v, o) =>
              /\ last'[o].index \in Int /\ last'[o].index >= last[o].index
              /\ \A i \in 1 .. last[o].index : db'[o][i] = db[o][i]
      <4> SUFFICES ASSUME NEW o \in Nodes, o # n
                   PROVE  /\ last'[o].index \in Int
                          /\ last'[o].index >= last[o].index
                          /\ \A i \in 1 .. last[o].index : db'[o][i] = db[o][i]
        BY <3>2
      <4>1. last'[o] = last[o] /\ db'[o] = db[o]
        BY <2>1, <2>2 DEF BlocksInv, Contents
      <4>2. last[o].index \in Int
        BY <2>1, TipTypes
      <4> QED BY <4>1, <4>2
    <3>4. sync[v].pc = "adopt" => last'[NodeOf[v]] = last[NodeOf[v]]
      <4>1. sync[v].pc = "adopt" => NodeOf[v] # n
        BY <2>2 DEF Unlocked
      <4> QED BY <4>1, <3>1, <2>1, <2>2 DEF BlocksInv, Contents
    <3> QED BY <2>1, <3>1, <3>3, <3>4, CallFrame
  <2> HIDE DEF n
  <2> QED BY <2>1, <2>11, <2>12, <2>13, <2>14, <2>15 DEF ChainInv
<1> QED BY <1>1, <1>2

\* The rest of a joined sequence.
LEMMA JoinedTail ==
    ASSUME NEW g, NEW s \in Seq(g), s # << >>, Joined(s)
    PROVE  /\ Head(s) \in g /\ Tail(s) \in Seq(g) /\ Joined(Tail(s))
           /\ Tail(s) # << >> => Follows(Head(s), Head(Tail(s)))
<1> DEFINE t == Tail(s)
           n == Len(s)
<1>1. n \in Nat /\ n >= 1
  <2>1. n \in Nat /\ n # 0
    BY EmptySeq
  <2> QED BY <2>1
<1>2. /\ Head(s) \in g /\ t \in Seq(g) /\ Len(t) = n - 1
      /\ \A i \in 1 .. n - 1 : t[i] = s[i + 1]
  BY <1>1
<1>3. Head(s) = s[1]
  BY <1>1
<1> HIDE DEF t
<1>4. ASSUME NEW k \in 1 .. Len(t) - 1 PROVE Follows(t[k], t[k + 1])
  <2>1. k + 1 \in 1 .. n - 1 /\ k \in 1 .. n - 1
    BY <1>1, <1>2
  <2>2. t[k] = s[k + 1] /\ t[k + 1] = s[(k + 1) + 1]
    BY <2>1, <1>2
  <2> QED BY <2>1, <2>2 DEF Joined
<1>5. ASSUME t # << >> PROVE Follows(Head(s), Head(t))
  <2>1. Len(t) # 0
    BY <1>2, <1>5, EmptySeq
  <2>2. 1 \in 1 .. n - 1 /\ Head(t) = t[1]
    BY <2>1, <1>1, <1>2
  <2>3. t[1] = s[1 + 1]
    BY <2>2, <1>2
  <2>4. Follows(s[1], s[1 + 1])
    BY <2>2 DEF Joined
  <2> QED BY <2>2, <2>3, <2>4, <1>3
<1> QED BY <1>2, <1>4, <1>5 DEF Joined, t

\* A block downloaded twice is refused the second time, unless it has no
\* transaction of a user: then it changes nothing.
LEMMA RepeatedBlock ==
    ASSUME BlocksInv, HashesInv, NEW n \in Nodes, NodeInv(n),
           last[n].index >= 1, Acceptable(applied[n], last[n]),
           Adopt(n, last[n])
    PROVE  UNCHANGED <<db, latest, last, applied>>
<1> DEFINE b == last[n]
           k == b.index - 1
           d == db[n]
           t == Transactions(Prefix(d, k))
<1>1. /\ b \in gossip /\ b.index \in 1 .. MaxIndex /\ b = d[b.index]
      /\ MaxIndex \in Nat /\ k \in Nat /\ b.index = k + 1 /\ b.index \in Int
  BY TipCases, FixedBlocks, ChainParameters DEF NodeInv
<1>2. /\ Chained(gossip, d, b.index)
      /\ applied[n] = Transactions(Prefix(d, b.index))
  BY DEF NodeInv
<1> HIDE DEF b, d, k
<1>3. Acceptable(t, b) /\ t \in Seq(gossip) /\ applied[n] = Apply(t, b)
  <2>1. /\ Acceptable(t, d[b.index])
        /\ b.index > 1 => d[b.index].prev = d[b.index - 1].hash
    <3>1. b.index \in 1 .. b.index /\ b.index - 1 = k
      BY <1>1
    <3> QED BY <3>1, <1>2 DEF Chained
  <2>2. Chained(gossip, d, k) /\ Prefix(d, k) \in Seq(gossip)
    <3>1. k <= b.index /\ k \in Int
      BY <1>1
    <3> QED BY <3>1, <1>1, <1>2, PrefixOf
  <2>3. t \in Seq(gossip)
    BY <2>2, TransactionsFold
  <2>4. Transactions(Prefix(d, k + 1)) = Apply(t, b)
    <3>1. d[k + 1] = b /\ Chained(gossip, d, k + 1)
      BY <1>1, <1>2
    <3> HIDE DEF t
    <3>3. Transactions(Prefix(d, k + 1)) = Apply(Transactions(Prefix(d, k)), b)
      BY <1>1, <3>1, ChainedLast
    <3> QED BY <3>3 DEF t
  <2> QED BY <1>1, <1>2, <2>1, <2>3, <2>4
<1> HIDE DEF t
<1>4. b.sender = None
  <2> SUFFICES ASSUME b.sender # None PROVE FALSE
    OBVIOUS
  <2>1. applied[n] = Append(t, b)
    BY <1>3 DEF Apply
  <2>2. /\ NonceOf(t, b.sender) \in Nat
        /\ NonceOf(Append(t, b), b.sender) = NonceOf(t, b.sender) + 1
    BY <1>1, <1>3, NonceCounts
  <2>3. b.nonce = NonceOf(t, b.sender) + 1
    BY <1>3 DEF Acceptable
  <2>4. b.nonce = NonceOf(Append(t, b), b.sender) + 1
    BY <2>1 DEF Acceptable, b
  <2> QED BY <2>2, <2>3, <2>4
<1>5. Apply(applied[n], b) = applied[n]
  BY <1>4 DEF Apply
<1>6. latest[n] = b.index
  BY <1>1, FixedBlocks DEF NodeInv, b
<1>7. /\ db' = [db EXCEPT ![n][b.index] = b]
      /\ latest' = [latest EXCEPT ![n] = b.index]
      /\ last' = [last EXCEPT ![n] = b]
      /\ applied' = [applied EXCEPT ![n] = Apply(applied[n], b)]
  BY DEF Adopt, b
<1>8. applied' = applied /\ latest' = latest /\ last' = last
  BY <1>5, <1>6, <1>7 DEF BlocksInv, Contents, b
<1>9. db' = db
  <2>1. db \in [Nodes -> [0 .. MaxIndex -> gossip \cup {None}]]
    BY DEF BlocksInv, Contents
  <2> QED BY <2>1, <1>1, <1>7 DEF d
<1> QED BY <1>8, <1>9

\* A pending block is stored, or the locked section ends.
LEMMA StoreNextKeeps ==
    ASSUME ChainInv, BlocksInv', Exclusive', NEW w \in Workers, StoreNext(w)
    PROVE  ChainInv'
<1> DEFINE n == NodeOf[w]
           s == sync[w]
           b == Head(s.pending)
           rec == [s EXCEPT !.pending = Tail(s.pending)]
<1>1. /\ BlocksInv /\ HashesInv /\ CallInv(w) /\ n \in Nodes /\ NodeInv(n)
      /\ s \in SyncType(gossip)
  BY ChainParameters DEF ChainInv, BlocksInv, Contents
<1>2. s.pc = "adopt" /\ s.pending \in Seq(gossip)
  BY <1>1 DEF StoreNext, At, SyncType
<1>3. AdoptInv(n, s) /\ s.peer # n
  BY <1>1, <1>2 DEF CallInv
<1>4. CASE /\ s.pending # << >> => ~ Acceptable(applied[n], b)
           /\ Goto(w, Idle) /\ UNCHANGED nodeVars
  <2>1. last[n] # RootBlock
    <3> SUFFICES ASSUME last[n] = RootBlock PROVE FALSE
      OBVIOUS
    <3>1. last[n].index = -1
      BY FixedBlocks
    <3>2. s.pending # << >> /\ IsFirst(b)
      BY <1>3, <3>1 DEF AdoptInv
    <3>3. applied[n] = << >>
      BY <1>1, <3>1, NothingApplied DEF NodeInv
    <3> QED BY <1>4, <3>2, <3>3 DEF IsFirst
  <2> QED BY <1>4, <2>1, IdleKeeps
<1>5. CASE /\ s.pending # << >> /\ Acceptable(applied[n], b)
           /\ Adopt(n, b) /\ Goto(w, rec) /\ UNCHANGED crossed
  <2>1. /\ sync' = [sync EXCEPT ![w] = rec] /\ sync'[w] = rec
        /\ gossip' = gossip
    BY <1>1, <1>5, MovedTo DEF Goto
  <2>2. /\ b \in gossip /\ Joined(Tail(s.pending))
        /\ Tail(s.pending) # << >> => Follows(b, Head(Tail(s.pending)))
    BY <1>2, <1>3, <1>5, JoinedTail DEF AdoptInv
  <2>3. b.index \in 1 .. MaxIndex /\ b # RootBlock /\ None \notin gossip
    <3>1. Built(b) /\ b.index >= 1
      BY <1>1, <2>2 DEF BlocksInv, HashesInv
    <3>2. b.index \in 1 .. MaxIndex
      BY <3>1, ChainParameters DEF Built, Block
    <3>3. None \notin gossip
      BY <1>1, FixedBlocks DEF BlocksInv, Built
    <3> QED BY <3>2, <3>3, FixedBlocks
  <2> HIDE DEF s, b
  <2>4. /\ rec.pc = "adopt" /\ rec.peer = s.peer
        /\ rec.pending = Tail(s.pending)
    BY <1>1, <1>2 DEF SyncType
  <2> HIDE DEF rec
  <2>5. ASSUME last'[n] = b PROVE CallInv(w)'
    <3>1. AdoptInv(NodeOf[w], sync[w])'
      <4>1. last'[n] # RootBlock /\ last'[n].index >= 1
        BY <2>3, <2>5
      <4>2. sync'[w].pending = Tail(s.pending)
        BY <2>1, <2>4
      <4>3. Tail(s.pending) # << >> => Follows(last'[n], Head(Tail(s.pending)))
        BY <2>2, <2>5
      <4> QED BY <2>2, <4>1, <4>2, <4>3 DEF AdoptInv, n
    <3> QED BY <1>3, <2>1, <2>4, <3>1 DEF CallInv
  <2>6. CASE last[n] # RootBlock /\ b = last[n]
    <3>1. last[n].index >= 1
      BY <2>3, <2>6
    <3>2. UNCHANGED nodeVars
      BY <1>1, <1>5, <2>6, <3>1, RepeatedBlock DEF nodeVars
    <3>3. last'[n] = b
      BY <2>6, <3>2 DEF nodeVars
    <3> QED BY <1>5, <2>5, <2>6, <3>2, <3>3, MovedKeeps DEF s
  <2>7. CASE ~ (last[n] # RootBlock /\ b = last[n])
    <3>1. IF last[n] = RootBlock THEN IsFirst(b) ELSE Extends(last[n], b)
      BY <1>3, <1>5, <2>7 DEF AdoptInv, Follows, Extends, b
    <3>2. NodeInv(n)' /\ last'[n] = b
      BY <1>1, <1>5, <2>1, <2>2, <2>3, <3>1, NodeGrows
    <3>6. /\ last'[n].index \in Int /\ last'[n].index >= last[n].index
          /\ \A i \in 1 .. last[n].index : db'[n][i] = db[n][i]
      <4>1. /\ last'[n] = b /\ last'[n].index >= last[n].index
            /\ \A i \in 1 .. last[n].index : db'[n][i] = db[n][i]
        BY <1>1, <1>5, <2>1, <2>2, <2>3, <3>1, NodeGrows
      <4> QED BY <4>1, <2>3
    <3>3. ASSUME NEW o \in Nodes, o # n PROVE NodeInv(o)'
      <4>1. /\ db'[o] = db[o] /\ latest'[o] = latest[o]
            /\ last'[o] = last[o] /\ applied'[o] = applied[o]
        BY <1>1, <1>5, <3>3 DEF Adopt, BlocksInv, Contents
      <4>2. NodeInv(o) /\ (Adopting(o) => Adopting(o)')
        <5>1. \A v \in Workers : NodeOf[v] = o => sync'[v] = sync[v]
          BY <2>1, <3>3
        <5> QED BY <5>1 DEF ChainInv, Adopting
      <4> QED BY <4>1, <4>2, <1>1, <2>1, NodeFrame
    <3>4. HashesInv'
      BY <1>1, <2>1 DEF HashesInv
    <3>5. ASSUME NEW v \in Workers PROVE CallInv(v)'
      <4>1. CASE v = w
        BY <4>1, <2>5, <3>2
      <4>2. CASE v # w
        <5>1. CallInv(v) /\ sync'[v] = sync[v] /\ NodeOf[v] \in Nodes
          BY <4>2, <2>1, ChainParameters DEF ChainInv
        <5>2. \A o \in Nodes :
                 /\ last'[o].index \in Int /\ last'[o].index >= last[o].index
                 /\ \A i \in 1 .. last[o].index : db'[o][i] = db[o][i]
          <6> SUFFICES ASSUME NEW o \in Nodes
                       PROVE  /\ last'[o].index \in Int
                              /\ last'[o].index >= last[o].index
                              /\ \A i \in 1 .. last[o].index :
                                    db'[o][i] = db[o][i]
            OBVIOUS
          <6>1. last[o].index \in Int
            BY <1>1, TipTypes
          <6>2. CASE o = n
            BY <6>1, <6>2, <3>6
          <6>3. CASE o # n
            <7>1. last'[o] = last[o] /\ db'[o] = db[o]
              BY <1>1, <1>5, <6>3 DEF Adopt, BlocksInv, Contents
            <7> QED BY <6>1, <7>1
          <6> QED BY <6>2, <6>3
        <5>3. sync[v].pc = "adopt" => last'[NodeOf[v]] = last[NodeOf[v]]
          <6>1. sync[v].pc = "adopt" => NodeOf[v] # n
            BY <1>2, <4>2 DEF ChainInv, Exclusive, s
          <6> QED BY <6>1, <5>1, <1>1, <1>5 DEF Adopt, BlocksInv, Contents
        <5> QED BY <1>1, <5>1, <5>2, <5>3, CallFrame
      <4> QED BY <4>1, <4>2
    <3> HIDE DEF n
    <3> QED BY <3>2, <3>3, <3>4, <3>5 DEF ChainInv
  <2> QED BY <2>6, <2>7
<1> QED BY <1>4, <1>5 DEF StoreNext

-----------------------------------------------------------------------------
(* The invariant.                                                          *)

LEMMA ChainInit == Init => ChainInv
<1> SUFFICES ASSUME Init PROVE ChainInv
  OBVIOUS
<1>1. BlocksInv
  BY BlocksInit
<1>2. HashesInv
  BY DEF Init, HashesInv
<1>3. ASSUME NEW n \in Nodes PROVE NodeInv(n)
  <2>1. /\ db[n] = [i \in 0 .. MaxIndex |-> None] /\ latest[n] = None
        /\ last[n] = ZeroBlock /\ applied[n] = << >> /\ MaxIndex \in Nat
    BY <1>3, ChainParameters DEF Init
  <2>2. last[n].index = 0 /\ last[n] # RootBlock
    BY <2>1, FixedBlocks
  <2>3. Chained(gossip, db[n], 0) /\ applied[n] = Transactions(Prefix(db[n], 0))
    BY <2>1, NothingApplied DEF Chained
  <2> QED BY <2>1, <2>2, <2>3 DEF NodeInv
<1>4. ASSUME NEW w \in Workers PROVE CallInv(w)
  <2>1. sync[w].pc = "idle"
    BY DEF Init, Idle
  <2> QED BY <2>1 DEF CallInv
<1>5. Exclusive
  BY DEF Init, Idle, Exclusive
<1> QED BY <1>1, <1>2, <1>3, <1>4, <1>5 DEF ChainInv

\* Every step of every process keeps it, unless it cuts a chain back that a
\* call relies on.
LEMMA ChainStep ==
    ASSUME ChainInv, [Next]_vars, ~ crossed'
    PROVE  ChainInv'
<1>1. BlocksInv' /\ Exclusive'
  BY BlocksStep, ExclusiveStep DEF ChainInv
<1>2. ASSUME NEW n \in Nodes, BuildTxBlock(n) PROVE ChainInv'
  <2> DEFINE b == NextBlock(n, last[n].weight, n, NonceOf(applied[n], n) + 1)
  <2>1. b = NextBlock(n, b.weight, b.sender, b.nonce)
    BY DEF NextBlock
  <2>2. AddBlock(n, b) /\ Publish(b) /\ UNCHANGED <<restarts, sync, crossed>>
    BY <1>2 DEF BuildTxBlock
  <2> HIDE DEF b
  <2> QED BY <1>1, <2>1, <2>2, BuildKeeps
<1>3. ASSUME NEW n \in Nodes, BuildGameBlock(n) PROVE ChainInv'
  <2> DEFINE b == NextBlock(n, last[n].weight + 1, None, 0)
  <2>1. b = NextBlock(n, b.weight, b.sender, b.nonce)
    BY DEF NextBlock
  <2>2. AddBlock(n, b) /\ Publish(b) /\ UNCHANGED <<restarts, sync, crossed>>
    BY <1>3 DEF BuildGameBlock
  <2> HIDE DEF b
  <2> QED BY <1>1, <2>1, <2>2, BuildKeeps
<1>4. ASSUME NEW n \in Nodes, NEW b \in gossip, Deliver(n, b) PROVE ChainInv'
  BY <1>1, <1>4, DeliverKeeps
<1>5. ASSUME NEW n \in Nodes, Restart(n) PROVE ChainInv'
  BY <1>1, <1>5, RestartKeeps
<1>6. ASSUME NEW w \in Workers, NEW q \in Nodes, AskStatus(w, q)
      PROVE  ChainInv'
  BY <1>1, <1>6, AskStatusKeeps
<1>7. ASSUME NEW w \in Workers, ReadLocal(w) PROVE ChainInv'
  BY <1>1, <1>7, ReadLocalKeeps
<1>8. ASSUME NEW w \in Workers, NEW ok, CheckTip(w, ok) PROVE ChainInv'
  BY <1>1, <1>8, CheckTipKeeps
<1>9. ASSUME NEW w \in Workers, NEW ok, Probe(w, ok) PROVE ChainInv'
  BY <1>1, <1>9, ProbeKeeps
<1>10. ASSUME NEW w \in Workers, NEW ok, Fetch(w, ok) PROVE ChainInv'
  BY <1>1, <1>10, FetchKeeps
<1>11. ASSUME NEW w \in Workers, ApplyPending(w) PROVE ChainInv'
  BY <1>1, <1>11, ApplyPendingKeeps
<1>12. ASSUME NEW w \in Workers, StoreNext(w) PROVE ChainInv'
  BY <1>1, <1>12, StoreNextKeeps
<1>13. CASE UNCHANGED vars
  <2>1. UNCHANGED <<db, latest, last, applied, gossip, sync>>
    BY <1>13 DEF vars, nodeVars
  <2>2. HashesInv'
    BY <2>1 DEF ChainInv, HashesInv
  <2>3. \A n \in Nodes : NodeInv(n)'
    BY <2>1 DEF ChainInv, NodeInv, Adopting
  <2>4. \A w \in Workers : CallInv(w)'
    BY <2>1 DEF ChainInv, CallInv, LocalInv, AncestorInv, PendingInv,
                FetchInv, AdoptInv
  <2> QED BY <1>1, <2>2, <2>3, <2>4 DEF ChainInv
<1> HIDE DEF ChainInv
<1> QED BY <1>2, <1>3, <1>4, <1>5, <1>6, <1>7, <1>8, <1>9, <1>10, <1>11, <1>12,
           <1>13 DEF Next, SyncStep

\* The inductive invariant.
IInv == crossed \in BOOLEAN /\ (crossed \/ ChainInv)

LEMMA Inductive ==
    /\ Init => IInv
    /\ IInv /\ [Next]_vars => IInv'
<1>1. Init => IInv
  BY ChainInit DEF Init, IInv
<1>2. ASSUME IInv, [Next]_vars PROVE IInv'
  <2> HIDE DEF ChainInv
  <2>1. crossed' \in BOOLEAN /\ (crossed => crossed')
    BY <1>2, CrossedStep DEF IInv
  <2>2. ~ crossed' => ChainInv'
    BY <1>2, <2>1, ChainStep DEF IInv
  <2> QED BY <2>1, <2>2, Zenon DEF IInv
<1> QED BY <1>1, <1>2

\* Two chains that end in the same block are the same: a hash names a block, and
\* a block names its parent.
LEMMA SameTipSameChain ==
    ASSUME HashesInv, NEW d, NEW e, NEW k \in Nat,
           Chained(gossip, d, k), Chained(gossip, e, k), k >= 1 => d[k] = e[k]
    PROVE  Prefix(d, k) = Prefix(e, k)
<1> DEFINE T == {j \in Nat : j < k /\ d[k - j] # e[k - j]}
<1>1. ASSUME T # {} PROVE FALSE
  <2>1. T \in SUBSET Nat
    OBVIOUS
  <2>2. PICK j \in T : \A i \in T : j <= i
    BY <1>1, <2>1, LeastNatural, Zenon
  <2>3. j \in Nat /\ j < k /\ d[k - j] # e[k - j]
    OBVIOUS
  <2>4. j # 0
    BY <2>3
  <2>5. j - 1 \in Nat /\ j - 1 < k /\ j - 1 \notin T
    BY <2>2, <2>3, <2>4
  <2>6. d[k - (j - 1)] = e[k - (j - 1)]
    BY <2>5
  <2> DEFINE i == k - j
  <2>7. i \in 1 .. k /\ i + 1 \in 1 .. k /\ k - (j - 1) = i + 1
    BY <2>3, <2>4
  <2> HIDE DEF i, T
  <2>8. /\ d[i] \in gossip /\ e[i] \in gossip
        /\ d[i + 1].prev = d[(i + 1) - 1].hash
        /\ e[i + 1].prev = e[(i + 1) - 1].hash
    BY <2>7 DEF Chained
  <2>9. (i + 1) - 1 = i
    BY <2>7
  <2>10. d[i].hash = e[i].hash
    BY <2>6, <2>7, <2>8, <2>9
  <2>11. d[i] = e[i]
    BY <2>8, <2>10 DEF HashesInv
  <2> QED BY <2>3, <2>11 DEF i
<1>2. ASSUME NEW i \in 1 .. k PROVE d[i] = e[i]
  <2>1. k - i \in Nat /\ k - i < k /\ k - (k - i) = i
    OBVIOUS
  <2> QED BY <1>1, <2>1
<1> QED BY <1>2 DEF Prefix

-----------------------------------------------------------------------------
(* What it says of the nodes.                                              *)

\* The chain of a node is the part of its database up to the tip.
LEMMA ChainOfIs ==
    ASSUME BlocksInv, NEW n \in Nodes
    PROVE  ChainOf(n) = Prefix(db[n], last[n].index)
<1>1. last[n].index \in Int
  BY TipTypes
<1>2. CASE last[n].index < 1
  <2>1. 1 .. last[n].index = {}
    BY <1>1, <1>2
  <2> QED BY <1>2, <2>1 DEF ChainOf, Prefix
<1>3. CASE ~ (last[n].index < 1)
  BY <1>3 DEF ChainOf, Prefix
<1> QED BY <1>2, <1>3

\* The stored chain of a node up to its tip is linked by parent hashes and
\* consecutive indices, whatever it adopted or restarted from, for any number
\* of calls of TriggerSync, until a chain is cut back that one relies on.
THEOREM ChainsLinked == Spec => []LinkedUnlessCrossed
<1>1. ChainInv => Linked
  <2> SUFFICES ASSUME ChainInv, NEW n \in Nodes
               PROVE  /\ \A i \in 1 .. last[n].index :
                            /\ db[n][i] # None
                            /\ db[n][i].index = i
                            /\ i > 1 => db[n][i].prev = db[n][i - 1].hash
                      /\ last[n].index > 0 => db[n][last[n].index] = last[n]
    BY DEF Linked
  <2>1. BlocksInv /\ NodeInv(n) /\ last[n].index \in Int
    BY TipTypes DEF ChainInv
  <2>2. None \notin gossip
    BY <2>1, FixedBlocks DEF BlocksInv, Built
  <2>3. Chained(gossip, db[n], last[n].index)
    BY <2>1 DEF NodeInv
  <2>4. last[n].index > 0 => last[n].index >= 1
    BY <2>1
  <2> QED BY <2>1, <2>2, <2>3, <2>4 DEF Chained, NodeInv
<1>2. IInv => LinkedUnlessCrossed
  BY <1>1 DEF IInv, LinkedUnlessCrossed
<1> QED BY <1>2, Inductive, PTL DEF Spec

\* The database holds a linked chain up to the latest_index key at every
\* moment, also between two writes of an adoption.
THEOREM DisksLinked == Spec => []DiskLinked
<1>1. ChainInv => DiskLinked
  BY DEF ChainInv, NodeInv, DiskLinked
<1>2. IInv => DiskLinked
  BY <1>1 DEF IInv, DiskLinked
<1> QED BY <1>2, Inductive, PTL DEF Spec

\* The ledger of a node is what its stored chain gives when replayed from
\* nothing, after every block, adoption and restart.
THEOREM LedgersReplay == Spec => []StateIsReplay
<1>1. ChainInv => StateIsReplay
  BY ChainOfIs DEF ChainInv, NodeInv, StateIsReplay, Transactions
<1>2. IInv => StateIsReplay
  BY <1>1 DEF IInv, StateIsReplay
<1> QED BY <1>2, Inductive, PTL DEF Spec

\* Nodes whose tips have the same hash have the same ledger.
THEOREM TipsDetermineLedgers == Spec => []SameTipSameState
<1>1. ChainInv => SameTipSameState
  <2> SUFFICES ASSUME ChainInv, NEW m \in Nodes, NEW n \in Nodes,
                      last[m].hash = last[n].hash
               PROVE  applied[m] = applied[n]
    BY DEF SameTipSameState
  <2>1. BlocksInv /\ HashesInv /\ NodeInv(m) /\ NodeInv(n)
    BY DEF ChainInv
  <2>2. /\ applied[m] = Transactions(Prefix(db[m], last[m].index))
        /\ applied[n] = Transactions(Prefix(db[n], last[n].index))
    BY <2>1 DEF NodeInv
  <2>3. CASE last[m] \in gossip /\ last[n] \in gossip
    <3> DEFINE k == last[m].index
    <3>1. last[m] = last[n]
      BY <2>1, <2>3 DEF HashesInv
    <3>2. k \in Nat /\ k >= 1
      BY <2>1, <2>3, TipTypes DEF HashesInv
    <3>3. /\ Chained(gossip, db[m], k) /\ Chained(gossip, db[n], k)
          /\ db[m][k] = last[m] /\ db[n][k] = last[n]
      BY <2>1, <3>1, <3>2 DEF NodeInv
    <3> HIDE DEF k
    <3>4. Prefix(db[m], k) = Prefix(db[n], k)
      BY <2>1, <3>1, <3>2, <3>3, SameTipSameChain
    <3> QED BY <2>2, <3>1, <3>4 DEF k
  <2>4. CASE ~ (last[m] \in gossip /\ last[n] \in gossip)
    <3>1. last[m].index = last[n].index /\ last[m].index <= 0
          /\ last[m].index \in Int
      BY <2>1, <2>4, TipCases
    <3>2. /\ Chained(gossip, db[m], last[m].index)
          /\ Chained(gossip, db[n], last[n].index)
      BY <2>1 DEF NodeInv
    <3>3. /\ Prefix(db[m], last[m].index) = << >>
          /\ Prefix(db[n], last[n].index) = << >>
      BY <3>1, <3>2, PrefixOf
    <3> QED BY <2>2, <3>3
  <2> QED BY <2>3, <2>4
<1>2. IInv => SameTipSameState
  BY <1>1 DEF IInv, SameTipSameState
<1> QED BY <1>2, Inductive, PTL DEF Spec
=============================================================================
