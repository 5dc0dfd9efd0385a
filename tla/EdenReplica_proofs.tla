-------------------------- MODULE EdenReplica_proofs --------------------------
(***************************************************************************)
(* Proof that EdenChain implements EdenReplica: every step of a node, of   *)
(* TriggerSync included, is one of the replica's or leaves its copy alone. *)
(* The inductive invariant is IInv of EdenChain_proofs.                    *)
(***************************************************************************)
EXTENDS EdenChain_proofs

-----------------------------------------------------------------------------
(* The node's copy of the chain.                                           *)

\* The replica's ledger of a chain.
LEMMA ReplicaTransactions == \A c : Replica!Transactions(c) = Transactions(c)
  BY DEF Replica!Transactions, Transactions, FoldLeft, Replica!FoldLeft,
         MapThenFoldSet, Replica!MapThenFoldSet, Max, Replica!Max, Apply

\* The blocks it accepts.
LEMMA ReplicaAccepts == \A txs, b : Replica!Accepts(txs, b) <=> Acceptable(txs, b)
  BY DEF Replica!Accepts, Acceptable, NonceOf, Cardinality, Replica!Cardinality

\* The copy after a step.
LEMMA CopyAfter ==
    ASSUME BlocksInv', NEW n \in Nodes
    PROVE  ChainOf(n)' = Prefix(db'[n], last'[n].index)
<1>1. last'[n].index \in Int
  <2>1. last'[n] \in gossip' \cup {ZeroBlock, RootBlock}
    BY DEF BlocksInv, Contents
  <2>2. \A b \in gossip' : b \in Block
    BY DEF BlocksInv, Built
  <2> QED BY <2>1, <2>2, FixedBlocks, ChainParameters DEF Block
<1>2. CASE last'[n].index < 1
  <2>1. 1 .. last'[n].index = {}
    BY <1>1, <1>2
  <2> QED BY <1>2, <2>1 DEF ChainOf, Prefix
<1>3. CASE ~ (last'[n].index < 1)
  BY <1>3 DEF ChainOf, Prefix
<1> QED BY <1>2, <1>3

\* A step of one node's chain takes its ledger along.
LEMMA Moved ==
    ASSUME ChainInv', NEW n \in Nodes, NEW c, ChainOf(n)' = c,
           BlocksInv,
           \A o \in Nodes \ {n} : /\ db'[o] = db[o] /\ last'[o] = last[o]
                                  /\ applied'[o] = applied[o]
    PROVE  Replica!MoveTo(n, c)
<1>1. applied'[n] = Replica!Transactions(c)
  <2>1. NodeInv(n)'
    BY DEF ChainInv
  <2>2. ChainOf(n)' = Prefix(db'[n], last'[n].index)
    <3>1. BlocksInv'
      BY DEF ChainInv
    <3> HIDE DEF ChainInv
    <3> QED BY <3>1, CopyAfter
  <2> QED BY <2>1, <2>2, ReplicaTransactions DEF NodeInv
<1>2. applied' = [applied EXCEPT ![n] = Replica!Transactions(c)]
  BY <1>1 DEF BlocksInv, Contents, ChainInv
<1>3. [m \in Nodes |-> ChainOf(m)]' = [[m \in Nodes |-> ChainOf(m)] EXCEPT ![n] = c]
  <2>1. \A o \in Nodes \ {n} : ChainOf(o)' = ChainOf(o)
    BY DEF ChainOf
  <2> QED BY <2>1
<1> QED BY <1>2, <1>3 DEF Replica!MoveTo

\* A chain that is cut at a height.
LEMMA SubPrefix ==
    ASSUME NEW g, NEW d, NEW m \in Int, Chained(g, d, m),
           NEW k \in Nat, k <= m
    PROVE  SubSeq(Prefix(d, m), 1, k) = Prefix(d, k)
<1>1. \A i \in 1 .. m : d[i] \in g
  BY DEF Chained
<1>2. /\ m \in Nat /\ Len(Prefix(d, m)) = m /\ Len(Prefix(d, k)) = k
      /\ Prefix(d, m) \in Seq(g) /\ Prefix(d, k) \in Seq(g)
  BY PrefixOf
<1>3. /\ SubSeq(Prefix(d, m), 1, k) \in Seq(g)
      /\ Len(SubSeq(Prefix(d, m), 1, k)) = k
      /\ \A i \in 1 .. k : SubSeq(Prefix(d, m), 1, k)[i] = Prefix(d, m)[i]
  BY <1>2, SubSeqProperties
<1>4. \A i \in 1 .. k : Prefix(d, m)[i] = d[i] /\ Prefix(d, k)[i] = d[i]
  BY DEF Prefix
<1> QED BY <1>2, <1>3, <1>4, SeqEqual

\* The tip of a node is the last block of its copy.
LEMMA CopyTip ==
    ASSUME BlocksInv, HashesInv, NEW n \in Nodes, NodeInv(n)
    PROVE  /\ ChainOf(n) = Prefix(db[n], last[n].index)
           /\ IF last[n] \in gossip
              THEN /\ Len(ChainOf(n)) = last[n].index /\ ChainOf(n) # << >>
                   /\ Last(ChainOf(n)) = last[n]
              ELSE ChainOf(n) = << >> /\ Len(ChainOf(n)) = 0
<1>1. ChainOf(n) = Prefix(db[n], last[n].index)
  BY ChainOfIs
<1>2. last[n].index \in Int /\ Chained(gossip, db[n], last[n].index)
  BY TipTypes DEF NodeInv
<1>3. CASE last[n] \in gossip
  <2>1. last[n].index \in Nat /\ last[n].index >= 1
        /\ last[n] = db[n][last[n].index]
    BY <1>2, <1>3 DEF HashesInv, NodeInv
  <2> DEFINE k == last[n].index
  <2>2. /\ Len(Prefix(db[n], k)) = k /\ Prefix(db[n], k) # << >>
        /\ Prefix(db[n], k) \in Seq(gossip)
    <3>1. Len(Prefix(db[n], k)) = k /\ Prefix(db[n], k) \in Seq(gossip)
      BY <1>2, <2>1, PrefixOf
    <3> HIDE DEF k
    <3> QED BY <2>1, <3>1, EmptySeq DEF k
  <2>3. Prefix(db[n], k)[k] = last[n]
    BY <2>1 DEF Prefix
  <2> HIDE DEF k
  <2> QED BY <1>1, <1>3, <2>2, <2>3 DEF Last, k
<1>4. CASE last[n] \notin gossip
  <2>1. last[n].index <= 0
    BY <1>4, TipCases
  <2>2. ChainOf(n) = << >>
    BY <1>1, <1>2, <2>1, PrefixOf
  <2> QED BY <1>1, <1>4, <2>2
<1> QED BY <1>3, <1>4

\* A child of the tip is a child of the copy.
LEMMA CopyGrows ==
    ASSUME BlocksInv, HashesInv, NEW n \in Nodes, NodeInv(n),
           gossip \subseteq gossip', NEW b \in gossip', HashesInv', BlocksInv',
           b.index \in 1 .. MaxIndex, None \notin gossip',
           Adopt(n, b), Acceptable(applied[n], b),
           IF last[n] = RootBlock THEN IsFirst(b) ELSE Extends(last[n], b)
    PROVE  /\ Replica!IsChild(ChainOf(n), b)
           /\ ChainOf(n)' = Append(ChainOf(n), b)
<1>1. /\ last'[n] = b
      /\ b.index = IF last[n] = RootBlock THEN 1 ELSE last[n].index + 1
      /\ Prefix(db'[n], b.index) = Append(Prefix(db[n], last[n].index), b)
  BY NodeGrows
<1>2. ChainOf(n)' = Append(ChainOf(n), b)
  BY <1>1, ChainOfIs, CopyAfter
<1>3. Replica!IsChild(ChainOf(n), b)
  <2>1. CASE last[n] \in gossip
    <3>1. last[n] # RootBlock
      BY <2>1, FixedBlocks DEF HashesInv
    <3>2. b.index = last[n].index + 1 /\ b.prev = last[n].hash
      BY <3>1 DEF Extends
    <3>3. /\ Len(ChainOf(n)) = last[n].index /\ ChainOf(n) # << >>
          /\ Last(ChainOf(n)) = last[n]
      BY <2>1, CopyTip
    <3> QED BY <3>2, <3>3 DEF Replica!IsChild, Replica!Last, Last
  <2>2. CASE last[n] \notin gossip
    <3>1. ChainOf(n) = << >> /\ Len(ChainOf(n)) = 0
      BY <2>2, CopyTip
    <3>2. b.index = 1
      BY <1>1, <2>2, TipCases
    <3>3. b.prev = EmptyHash
      BY <3>2 DEF HashesInv
    <3> QED BY <3>1, <3>2, <3>3 DEF Replica!IsChild
  <2> QED BY <2>1, <2>2
<1> QED BY <1>2, <1>3

\* What Adopt leaves alone.
LEMMA AdoptFrame ==
    ASSUME BlocksInv, NEW n \in Nodes, NEW b, Adopt(n, b)
    PROVE  \A o \in Nodes \ {n} : /\ db'[o] = db[o] /\ last'[o] = last[o]
                                  /\ applied'[o] = applied[o]
  BY DEF Adopt, BlocksInv, Contents

-----------------------------------------------------------------------------
(* Comparisons and goals.                                                  *)

Looking == {"tip", "search", "fetch", "apply"}

\* LooksOf and GoalOf of given calls and tips.
LooksIn(calls, n) ==
    {calls[w].localHeight - 1 :
        w \in {v \in Workers : NodeOf[v] = n /\ calls[v].pc \in Looking}}

GoalIn(calls, tips, n) ==
    LET adopting == {w \in Workers : NodeOf[w] = n /\ calls[w].pc = "adopt"}
        pending == calls[CHOOSE w \in adopting : TRUE].pending
    IN  IF adopting = {} THEN None
        ELSE IF pending = << >> THEN tips[n] ELSE Last(pending)

LEMMA LooksGoals ==
    ASSUME NEW n
    PROVE  /\ LooksOf(n) = LooksIn(sync, n) /\ LooksOf(n)' = LooksIn(sync', n)
           /\ GoalOf(n) = GoalIn(sync, last, n)
           /\ GoalOf(n)' = GoalIn(sync', last', n)
  BY DEF LooksOf, LooksIn, Looking, GoalOf, GoalIn

\* Calls that compare at the same heights.
LEMMA LooksSame ==
    ASSUME NEW x, NEW y, NEW n,
           \A v \in Workers : NodeOf[v] = n =>
              /\ x[v].pc \in Looking <=> y[v].pc \in Looking
              /\ x[v].pc \in Looking => y[v].localHeight = x[v].localHeight
    PROVE  LooksIn(y, n) = LooksIn(x, n)
  BY DEF LooksIn

\* A node out of the locked section has no goal.
LEMMA GoalNone ==
    ASSUME NEW x, NEW t, NEW n,
           \A v \in Workers : NodeOf[v] = n => x[v].pc # "adopt"
    PROVE  GoalIn(x, t, n) = None
  BY DEF GoalIn

\* The goal is the last block of the one call in the locked section.
LEMMA GoalIs ==
    ASSUME NEW x, NEW t, NEW n, NEW w \in Workers,
           NodeOf[w] = n, x[w].pc = "adopt",
           \A v \in Workers : NodeOf[v] = n /\ x[v].pc = "adopt" => v = w
    PROVE  GoalIn(x, t, n) = IF x[w].pending = << >> THEN t[n]
                             ELSE Last(x[w].pending)
<1> DEFINE adopting == {v \in Workers : NodeOf[v] = n /\ x[v].pc = "adopt"}
<1>1. adopting = {w}
  OBVIOUS
<1>2. (CHOOSE v \in adopting : TRUE) = w
  BY <1>1
<1> QED BY <1>1, <1>2 DEF GoalIn

\* Calls that adopt the same.
LEMMA GoalSame ==
    ASSUME NEW x, NEW y, NEW t, NEW u, NEW n,
           \A v \in Workers : NodeOf[v] = n =>
              /\ x[v].pc = "adopt" <=> y[v].pc = "adopt"
              /\ x[v].pc = "adopt" => y[v] = x[v] /\ u[n] = t[n]
    PROVE  GoalIn(y, u, n) = GoalIn(x, t, n)
<1> DEFINE A(calls) == {v \in Workers : NodeOf[v] = n /\ calls[v].pc = "adopt"}
           w == CHOOSE v \in A(x) : TRUE
<1>1. A(x) = A(y)
  OBVIOUS
<1>2. CASE A(x) = {}
  BY <1>1, <1>2 DEF GoalIn
<1>3. CASE A(x) # {}
  <2>1. w \in A(x)
    BY <1>3
  <2>2. y[w] = x[w] /\ u[n] = t[n]
    BY <2>1
  <2>3. GoalIn(x, t, n) = IF x[w].pending = << >> THEN t[n] ELSE Last(x[w].pending)
    BY <1>3 DEF GoalIn
  <2> DEFINE v == CHOOSE o \in A(y) : TRUE
  <2>4. GoalIn(y, u, n) = IF y[v].pending = << >> THEN u[n] ELSE Last(y[v].pending)
    BY <1>1, <1>3 DEF GoalIn
  <2>5. v = w
    BY <1>1
  <2> HIDE DEF v, w
  <2> QED BY <2>2, <2>3, <2>4, <2>5
<1> QED BY <1>2, <1>3

\* The replica's comparisons and goals.
Looks == [n \in Nodes |-> LooksOf(n)]
Goals == [n \in Nodes |-> GoalOf(n)]

\* A step without one of TriggerSync.
LEMMA CallsSame ==
    ASSUME sync' = sync,
           \A o \in Nodes : last'[o] = last[o] \/ Unlocked(o)
    PROVE  Looks' = Looks /\ Goals' = Goals
<1>1. ASSUME NEW o \in Nodes PROVE LooksOf(o)' = LooksOf(o)
  BY LooksGoals
<1>2. ASSUME NEW o \in Nodes PROVE GoalOf(o)' = GoalOf(o)
  <2>1. GoalIn(sync', last', o) = GoalIn(sync, last, o)
    BY GoalSame DEF Unlocked
  <2> QED BY <2>1, LooksGoals
<1> QED BY <1>1, <1>2 DEF Looks, Goals

\* A step of one call that neither starts nor ends a comparison or an adoption.
LEMMA CallMoves ==
    ASSUME BlocksInv, NEW w \in Workers, NEW rec, Goto(w, rec),
           sync[w].pc # "adopt", rec.pc # "adopt",
           sync[w].pc \in Looking <=> rec.pc \in Looking,
           sync[w].pc \in Looking => rec.localHeight = sync[w].localHeight,
           last' = last
    PROVE  Looks' = Looks /\ Goals' = Goals
<1>1. /\ sync'[w] = rec
      /\ \A v \in Workers \ {w} : sync'[v] = sync[v]
  BY DEF Goto, BlocksInv, Contents
<1>2. ASSUME NEW o \in Nodes PROVE LooksOf(o)' = LooksOf(o)
  <2>1. LooksIn(sync', o) = LooksIn(sync, o)
    BY <1>1, LooksSame
  <2> QED BY <2>1, LooksGoals
<1>3. ASSUME NEW o \in Nodes PROVE GoalOf(o)' = GoalOf(o)
  <2>1. GoalIn(sync', last', o) = GoalIn(sync, last, o)
    BY <1>1, GoalSame
  <2> QED BY <2>1, LooksGoals
<1> QED BY <1>2, <1>3 DEF Looks, Goals

\* The steps of one node's comparisons and goal.
LEMMA LooksMove ==
    ASSUME NEW n \in Nodes, NEW x, LooksOf(n)' = x,
           \A o \in Nodes \ {n} : LooksOf(o)' = LooksOf(o)
    PROVE  Looks' = [Looks EXCEPT ![n] = x]
<1>1. Looks' = [o \in Nodes |-> IF o = n THEN x ELSE LooksOf(o)]
  BY DEF Looks
<1>2. [Looks EXCEPT ![n] = x] = [o \in Nodes |-> IF o = n THEN x ELSE LooksOf(o)]
  BY DEF Looks
<1> QED BY <1>1, <1>2

LEMMA GoalsMove ==
    ASSUME NEW n \in Nodes, NEW x, GoalOf(n)' = x,
           \A o \in Nodes \ {n} : GoalOf(o)' = GoalOf(o)
    PROVE  Goals' = [Goals EXCEPT ![n] = x]
<1>1. Goals' = [o \in Nodes |-> IF o = n THEN x ELSE GoalOf(o)]
  BY DEF Goals
<1>2. [Goals EXCEPT ![n] = x] = [o \in Nodes |-> IF o = n THEN x ELSE GoalOf(o)]
  BY DEF Goals
<1> QED BY <1>1, <1>2

\* A step of calls of one node leaves the other nodes' alone.
LEMMA OthersSame ==
    ASSUME NEW n \in Nodes,
           \A v \in Workers : NodeOf[v] # n => sync'[v] = sync[v],
           \A o \in Nodes \ {n} : last'[o] = last[o]
    PROVE  \A o \in Nodes \ {n} : /\ LooksOf(o)' = LooksOf(o)
                                  /\ GoalOf(o)' = GoalOf(o)
<1> SUFFICES ASSUME NEW o \in Nodes \ {n}
             PROVE  LooksOf(o)' = LooksOf(o) /\ GoalOf(o)' = GoalOf(o)
  OBVIOUS
<1>1. \A v \in Workers : NodeOf[v] = o => sync'[v] = sync[v]
  OBVIOUS
<1>2. LooksIn(sync', o) = LooksIn(sync, o)
  BY <1>1, LooksSame
<1>3. GoalIn(sync', last', o) = GoalIn(sync, last, o)
  BY <1>1, GoalSame
<1> QED BY <1>2, <1>3, LooksGoals

\* A call that begins a comparison, and one that ends it.
LEMMA LooksBegin ==
    ASSUME NEW x, NEW y, NEW n, NEW w \in Workers, NodeOf[w] = n,
           x[w].pc \notin Looking, y[w].pc \in Looking,
           \A v \in Workers \ {w} : y[v] = x[v]
    PROVE  LooksIn(y, n) = LooksIn(x, n) \cup {y[w].localHeight - 1}
  BY DEF LooksIn

LEMMA LooksEnd ==
    ASSUME NEW n, NEW w \in Workers, NodeOf[w] = n,
           sync[w].pc \in Looking, sync'[w].pc \notin Looking,
           \A v \in Workers \ {w} : sync'[v] = sync[v]
    PROVE  /\ sync[w].localHeight - 1 \in LooksOf(n)
           /\ \/ LooksOf(n)' = LooksOf(n)
              \/ LooksOf(n)' = LooksOf(n) \ {sync[w].localHeight - 1}
<1> DEFINE l == sync[w].localHeight - 1
           R == {sync[v].localHeight - 1 :
                   v \in {u \in Workers \ {w} :
                            NodeOf[u] = n /\ sync[u].pc \in Looking}}
<1>1. LooksIn(sync, n) = R \cup {l}
  BY DEF LooksIn
<1>2. LooksIn(sync', n) = R
  BY DEF LooksIn
<1>3. LooksOf(n) = R \cup {l} /\ LooksOf(n)' = R
  BY <1>1, <1>2, LooksGoals
<1> HIDE DEF R, l
<1>4. l \in R => R \cup {l} = R
  OBVIOUS
<1>5. l \notin R => (R \cup {l}) \ {l} = R
  OBVIOUS
<1> QED BY <1>3, <1>4, <1>5 DEF l

\* The only comparison of its node.
LEMMA LooksLast ==
    ASSUME NEW n, NEW w \in Workers, NodeOf[w] = n,
           sync[w].pc \in Looking, sync'[w].pc \notin Looking,
           \A v \in Workers \ {w} : sync'[v] = sync[v],
           \A v \in Workers \ {w} : NodeOf[v] = n => sync[v].pc \notin Looking
    PROVE  /\ sync[w].localHeight - 1 \in LooksOf(n)
           /\ LooksOf(n)' = LooksOf(n) \ {sync[w].localHeight - 1}
<1> DEFINE l == sync[w].localHeight - 1
<1>1. LooksIn(sync, n) = {l}
  BY DEF LooksIn
<1>2. LooksIn(sync', n) = {}
  BY DEF LooksIn
<1> QED BY <1>1, <1>2, LooksGoals

\* The height of a node out of the locked section is that of its copy.
LEMMA CopyHeight ==
    ASSUME ChainInv, NEW n \in Nodes, Unlocked(n)
    PROVE  /\ last[n] # RootBlock
           /\ Len(ChainOf(n)) = last[n].index
           /\ Goals[n] = None
<1>1. BlocksInv /\ HashesInv /\ NodeInv(n)
  BY DEF ChainInv
<1>2. last[n] # RootBlock
  BY <1>1 DEF NodeInv, Adopting, Unlocked
<1>3. Len(ChainOf(n)) = last[n].index
  BY <1>1, <1>2, TipCases, CopyTip
<1>4. GoalIn(sync, last, n) = None
  BY GoalNone DEF Unlocked
<1> QED BY <1>2, <1>3, <1>4, LooksGoals DEF Goals

-----------------------------------------------------------------------------
(* The steps.                                                              *)

\* A built block is mined.
LEMMA BuildMines ==
    ASSUME ChainInv, ChainInv', NEW n \in Nodes, NEW b,
           b = NextBlock(n, b.weight, b.sender, b.nonce),
           b.weight \in Int, b.weight >= last[n].weight,
           AddBlock(n, b), Publish(b), UNCHANGED <<restarts, sync>>
    PROVE  Replica!Mine(n)
<1>1. BlocksInv /\ HashesInv /\ HashesInv' /\ BlocksInv' /\ NodeInv(n)
      /\ built \in Nat
  BY ChainParameters DEF ChainInv, BlocksInv
<1>2. gossip' = gossip \cup {b} /\ b \in gossip'
  BY DEF Publish
<1>3. b.hash = built + 1 /\ b.index = last[n].index + 1
  BY DEF NextBlock
<1>4. Unlocked(n) /\ last[n] # RootBlock /\ Goals[n] = None
  BY CopyHeight DEF AddBlock
<1>5. \A c \in gossip : c.hash \in 1 .. built
  BY <1>1 DEF BlocksInv, Built
<1>6. b \notin gossip
  BY <1>1, <1>3, <1>5
<1>7. b.index \in 1 .. MaxIndex /\ None \notin gossip'
  <2>1. Built(b)' /\ b.index >= 1 /\ \A c \in gossip' : Built(c)'
    BY <1>1, <1>2 DEF BlocksInv, HashesInv
  <2> QED BY <2>1, FixedBlocks, ChainParameters DEF Built, Block
<1>8. Adopt(n, b) /\ Acceptable(applied[n], b) /\ Extends(last[n], b)
  BY DEF AddBlock, Adopt
<1>9. /\ Replica!IsChild(ChainOf(n), b)
      /\ ChainOf(n)' = Append(ChainOf(n), b)
  BY <1>1, <1>2, <1>4, <1>7, <1>8, CopyGrows
<1>10. Replica!MoveTo(n, Append(ChainOf(n), b))
  BY <1>1, <1>8, <1>9, AdoptFrame, Moved
<1>11. b.weight >= Replica!TipWeight(ChainOf(n))
  <2>1. CASE last[n] \in gossip
    BY <1>1, <2>1, CopyTip DEF Replica!TipWeight, Replica!Last, Last
  <2>2. CASE last[n] \notin gossip
    <3>1. ChainOf(n) = << >>
      BY <1>1, <2>2, CopyTip
    <3>2. last[n].weight \in Nat
      BY <1>1, TipTypes
    <3> QED BY <3>1, <3>2 DEF Replica!TipWeight
  <2> QED BY <2>1, <2>2
<1>12. [m \in Nodes |-> ChainOf(m)][n] = ChainOf(n)
  OBVIOUS
<1>13. Looks' = Looks /\ Goals' = Goals
  BY <1>1, <1>4, <1>8, AdoptFrame, CallsSame
<1>14. Replica!Accepts(applied[n], b)
  BY <1>8, ReplicaAccepts
<1> QED BY <1>2, <1>4, <1>6, <1>9, <1>10, <1>11, <1>12, <1>13, <1>14
        DEF Replica!Mine, Looks, Goals

\* An adopted or delivered block extends the copy.
LEMMA AdoptExtends ==
    ASSUME ChainInv, ChainInv', NEW n \in Nodes, NEW b \in gossip,
           gossip' = gossip, restarts' = restarts,
           Looks' = Looks, Goals' = Goals,
           Adopt(n, b), Acceptable(applied[n], b),
           IF last[n] = RootBlock THEN IsFirst(b) ELSE Extends(last[n], b)
    PROVE  Replica!Extend(n)
<1>1. BlocksInv /\ BlocksInv' /\ HashesInv /\ HashesInv' /\ NodeInv(n)
  BY DEF ChainInv
<1>2. b.index \in 1 .. MaxIndex /\ None \notin gossip
  <2>1. Built(b) /\ b.index >= 1 /\ \A c \in gossip : Built(c)
    BY <1>1 DEF BlocksInv, HashesInv
  <2> QED BY <2>1, FixedBlocks, ChainParameters DEF Built, Block
<1>3. /\ Replica!IsChild(ChainOf(n), b)
      /\ ChainOf(n)' = Append(ChainOf(n), b)
  BY <1>1, <1>2, CopyGrows
<1>4. Replica!MoveTo(n, Append(ChainOf(n), b))
  BY <1>1, <1>3, AdoptFrame, Moved
<1>5. [m \in Nodes |-> ChainOf(m)][n] = ChainOf(n)
  OBVIOUS
<1>6. Replica!Accepts(applied[n], b)
  BY ReplicaAccepts
<1> QED BY <1>3, <1>4, <1>5, <1>6 DEF Replica!Extend, Looks, Goals

\* A step that moves no node.
LEMMA NothingMoved ==
    ASSUME UNCHANGED nodeVars, gossip' = gossip, restarts' = restarts,
           Looks' = Looks, Goals' = Goals
    PROVE  UNCHANGED Replica!vars
  BY DEF nodeVars, Replica!vars, ChainOf, Looks, Goals

\* One of a call that neither starts nor ends a comparison or an adoption.
LEMMA CallOnly ==
    ASSUME ChainInv, NEW w \in Workers, NEW rec, Goto(w, rec),
           sync[w].pc # "adopt", rec.pc # "adopt",
           sync[w].pc \in Looking <=> rec.pc \in Looking,
           sync[w].pc \in Looking => rec.localHeight = sync[w].localHeight,
           UNCHANGED nodeVars
    PROVE  UNCHANGED Replica!vars
<1>1. BlocksInv /\ last' = last /\ gossip' = gossip /\ restarts' = restarts
  BY DEF ChainInv, nodeVars, Goto
<1> HIDE DEF ChainInv
<1> QED BY <1>1, CallMoves, NothingMoved

\* A restart finds nothing.
LEMMA RestartRecovers ==
    ASSUME ChainInv, ChainInv', NEW n \in Nodes, Restart(n)
    PROVE  Replica!Recover(n)
<1>1. BlocksInv /\ BlocksInv' /\ Exclusive' /\ HashesInv /\ NodeInv(n)
      /\ NodeInv(n)'
  BY DEF ChainInv
<1>2. /\ last' = [last EXCEPT ![n] = ZeroBlock]
      /\ applied' = [applied EXCEPT ![n] = << >>]
      /\ db' = db /\ gossip' = gossip /\ restarts' = restarts + 1
  BY <1>1, RestartKeeps DEF Restart
<1>3. /\ last'[n] = ZeroBlock
      /\ \A o \in Nodes \ {n} : /\ db'[o] = db[o] /\ last'[o] = last[o]
                                /\ applied'[o] = applied[o]
  BY <1>1, <1>2 DEF BlocksInv, Contents
<1>4. ChainOf(n)' = << >>
  BY <1>3, FixedBlocks DEF ChainOf
<1>5. Replica!MoveTo(n, << >>)
  BY <1>1, <1>3, <1>4, Moved
<1> DEFINE C == [m \in Nodes |-> ChainOf(m)]
<1>6. C[n] = ChainOf(n) /\ Len(C[n]) \in Nat /\ C[n] \in Seq(gossip)
  <2>1. /\ last[n].index \in Int /\ last[n].index <= last[n].index
        /\ Chained(gossip, db[n], last[n].index)
    BY <1>1, TipTypes DEF NodeInv
  <2>2. ChainOf(n) \in Seq(gossip)
    BY <1>1, <2>1, PrefixOf, CopyTip
  <2> QED BY <2>2
<1>7. SubSeq(C[n], 1, 0) = << >> /\ 0 \in 0 .. Len(C[n])
  BY <1>6
<1>8. Replica!MoveTo(n, SubSeq(C[n], 1, 0))
  BY <1>5, <1>7
<1> HIDE DEF C
<1>9. \E k \in 0 .. Len(C[n]) : Replica!MoveTo(n, SubSeq(C[n], 1, k))
  BY <1>7, <1>8
<1>10. \A v \in Workers : sync'[v] = IF NodeOf[v] = n THEN Idle ELSE sync[v]
  BY DEF Restart
<1>11. \A v \in Workers : NodeOf[v] = n => sync'[v].pc = "idle"
  BY <1>10 DEF Idle
<1>12. LooksOf(n)' = {}
  <2>1. LooksIn(sync', n) = {}
    BY <1>11 DEF LooksIn, Looking
  <2> QED BY <2>1, LooksGoals
<1>13. GoalOf(n)' = None
  <2>1. GoalIn(sync', last', n) = None
    BY <1>11, GoalNone
  <2> QED BY <2>1, LooksGoals
<1>14. \A o \in Nodes \ {n} : LooksOf(o)' = LooksOf(o) /\ GoalOf(o)' = GoalOf(o)
  BY <1>3, <1>10, OthersSame
<1>15. Looks' = [Looks EXCEPT ![n] = {}]
  BY <1>12, <1>14, LooksMove
<1>16. Goals' = [Goals EXCEPT ![n] = None]
  BY <1>13, <1>14, GoalsMove
<1> QED BY <1>2, <1>9, <1>15, <1>16 DEF Replica!Recover, C, Looks, Goals

\* The comparison of the tips opens a look, or comes to nothing.
LEMMA ReadLocalLooks ==
    ASSUME ChainInv, NEW w \in Workers, ReadLocal(w)
    PROVE  Replica!Look(NodeOf[w]) \/ UNCHANGED Replica!vars
<1> DEFINE n == NodeOf[w]
           s == sync[w]
           rec == [s EXCEPT !.pc = "tip", !.localHeight = Height(n),
                            !.localWeight = last[n].weight,
                            !.high = Min({Height(n), s.height}) - 1]
<1>1. /\ BlocksInv /\ n \in Nodes /\ s \in SyncType(gossip)
      /\ s.pc = "local" /\ Unlocked(n) /\ UNCHANGED nodeVars
  BY ChainParameters DEF ChainInv, BlocksInv, Contents, ReadLocal, At
<1>2. CASE Goto(w, Idle)
  BY <1>1, <1>2, CallOnly DEF Looking, Idle
<1>3. CASE Goto(w, rec)
  <2>1. rec.pc = "tip" /\ rec.localHeight = last[n].index + 1
    BY <1>1 DEF SyncType, Height
  <2> HIDE DEF rec
  <2>2. /\ sync'[w] = rec /\ gossip' = gossip /\ restarts' = restarts
        /\ \A v \in Workers \ {w} : sync'[v] = sync[v]
        /\ last' = last /\ db' = db /\ applied' = applied
    BY <1>1, <1>3 DEF Goto, BlocksInv, Contents, nodeVars
  <2>3. last[n].index \in Int /\ rec.localHeight - 1 = last[n].index
    BY <1>1, <2>1, TipTypes
  <2>4. Len(ChainOf(n)) = last[n].index /\ Goals[n] = None
    BY <1>1, CopyHeight
  <2>5. LooksOf(n)' = LooksOf(n) \cup {Len(ChainOf(n))}
    <3>1. LooksIn(sync', n) = LooksIn(sync, n) \cup {sync'[w].localHeight - 1}
      BY <1>1, <2>1, <2>2, LooksBegin DEF Looking
    <3> QED BY <2>2, <2>3, <2>4, <3>1, LooksGoals
  <2>6. \A o \in Nodes \ {n} : LooksOf(o)' = LooksOf(o) /\ GoalOf(o)' = GoalOf(o)
    BY <1>1, <2>2, OthersSame
  <2>7. GoalOf(n)' = GoalOf(n)
    <3>1. GoalIn(sync', last', n) = GoalIn(sync, last, n)
      BY <1>1, <2>1, <2>2, GoalSame
    <3> QED BY <3>1, LooksGoals
  <2>8. Looks' = [Looks EXCEPT ![n] = LooksOf(n) \cup {Len(ChainOf(n))}]
    BY <1>1, <2>5, <2>6, LooksMove
  <2>9. Goals' = Goals
    BY <2>6, <2>7 DEF Goals
  <2>10. [m \in Nodes |-> ChainOf(m)]' = [m \in Nodes |-> ChainOf(m)]
    BY <2>2 DEF ChainOf
  <2>11. Looks[n] = LooksOf(n) /\ [m \in Nodes |-> ChainOf(m)][n] = ChainOf(n)
    BY <1>1 DEF Looks
  <2> QED BY <2>2, <2>4, <2>8, <2>9, <2>10, <2>11
          DEF Replica!Look, Looks, Goals
<1> QED BY <1>2, <1>3 DEF ReadLocal

\* Falling back to the common prefix is a rewind in favour of the last block
\* of the download.
LEMMA ApplyPendingRewinds ==
    ASSUME ChainInv, ChainInv', NEW w \in Workers, ApplyPending(w),
           Heavier(sync[w]), ~ crossed'
    PROVE  Replica!Rewind(NodeOf[w])
<1> DEFINE n == NodeOf[w]
           s == sync[w]
           a == s.ancestor
           k == IF a = -1 THEN 0 ELSE a
           j == s.localHeight - 1
           m == last[n].index
           d == db[n]
           b == Last(s.pending)
           C == [o \in Nodes |-> ChainOf(o)]
<1>1. /\ BlocksInv /\ HashesInv /\ CallInv(w) /\ n \in Nodes /\ NodeInv(n)
      /\ s \in SyncType(gossip) /\ BlocksInv'
  BY ChainParameters DEF ChainInv, BlocksInv, Contents
<1>2. /\ a \in -1 .. m /\ a # 0
      /\ last' = [last EXCEPT ![n] = IF a = -1 THEN RootBlock ELSE d[a]]
      /\ last'[n].index = a
      /\ \A i \in 1 .. a : db'[n][i] = d[i]
      /\ db' = [db EXCEPT ![n] = Trimmed(n, s)]
      /\ applied' = [applied EXCEPT ![n] = Transactions(Prefix(d, a))]
      /\ Goto(w, [s EXCEPT !.pc = "adopt"]) /\ s.pc = "apply"
      /\ Unlocked(n)
  BY CutToPrefix
<1>3. gossip' = gossip /\ restarts' = restarts
  BY <1>2 DEF Goto
<1>4. LocalInv(n, s)
  BY <1>1, <1>2 DEF CallInv
<1>5. m \in Int /\ Chained(gossip, d, m) /\ a \in Int /\ j \in Int
      /\ s.localHeight \in Int
  <2>1. s.localHeight \in Int /\ s.ancestor \in -1 .. MaxIndex
    BY <1>1 DEF SyncType
  <2> QED BY <1>1, <2>1, TipTypes DEF NodeInv
<1>6. m \in Nat /\ k \in Nat /\ j \in k .. m /\ k <= m
  BY <1>2, <1>4, <1>5 DEF LocalInv
<1>7. C[n] = Prefix(d, m) /\ Len(C[n]) = m
  <2>1. C[n] = Prefix(d, m)
    BY <1>1, CopyTip
  <2>2. m <= m /\ m >= 0
    BY <1>6
  <2> HIDE DEF m, d, C
  <2> QED BY <1>5, <2>1, <2>2, PrefixOf
<1>8. b \in gossip /\ b.weight > s.localWeight
  <2>1. s.pending # << >> /\ b.weight > s.localWeight
    BY DEF Heavier
  <2>2. s.pending \in Seq(gossip)
    BY <1>1 DEF SyncType
  <2> HIDE DEF s
  <2> QED BY <2>1, <2>2 DEF Last
<1>a. /\ sync'[w] = [s EXCEPT !.pc = "adopt"]
      /\ \A v \in Workers \ {w} : sync'[v] = sync[v]
  BY <1>1, <1>2 DEF Goto, BlocksInv, Contents
<1>b. sync'[w].pc = "adopt" /\ sync'[w].pending = s.pending
  BY <1>1, <1>a DEF SyncType
<1>c. s.pending # << >>
  BY DEF Heavier
<1>d. \A v \in Workers \ {w} : NodeOf[v] = n => sync[v].pc \notin Looking
  <2>1. CutBack(n, Workers \ {w})
    BY DEF ApplyPending
  <2>2. \A v \in Workers \ {w} : ~ ReliesOn(v, n)
    BY <2>1 DEF CutBack
  <2> QED BY <2>2 DEF ReliesOn, Looking
<1>e. s.pc = "apply" /\ NodeOf[w] = n /\ \A v \in Workers : NodeOf[v] = n => sync[v].pc # "adopt"
  BY <1>2 DEF Unlocked
<1>f. GoalOf(n)' = b
  <2>1. \A v \in Workers : NodeOf[v] = n /\ sync'[v].pc = "adopt" => v = w
    BY <1>a, <1>e
  <2>2. GoalIn(sync', last', n) = b
    BY <1>b, <1>c, <2>1, GoalIs
  <2> QED BY <2>2, LooksGoals
<1>g. LooksOf(n)' = LooksOf(n) \ {j} /\ j \in LooksOf(n)
  <2>1. /\ sync[w].pc \in Looking /\ sync'[w].pc \notin Looking
        /\ \A v \in Workers \ {w} : sync'[v] = sync[v]
    BY <1>a, <1>b, <1>e DEF Looking
  <2> QED BY <1>d, <1>e, <2>1, LooksLast
<1>h. Goals[n] = None /\ Looks[n] = LooksOf(n)
  BY <1>1, <1>2, CopyHeight DEF Looks
<1> HIDE DEF n, s
<1>9. ChainOf(n)' = Prefix(d, k)
  <2>1. ChainOf(n)' = Prefix(db'[n], a)
    BY <1>1, <1>2, CopyAfter
  <2>2. Prefix(db'[n], a) = Prefix(d, a)
    BY <1>2 DEF Prefix
  <2>3. Prefix(d, a) = Prefix(d, k)
    <3>1. CASE a = -1
      <4>1. 1 .. a = {} /\ 1 .. k = {}
        BY <3>1
      <4> QED BY <4>1 DEF Prefix
    <3>2. CASE a # -1
      BY <3>2
    <3> QED BY <3>1, <3>2
  <2> QED BY <2>1, <2>2, <2>3
<1>10. \A o \in Nodes \ {n} : /\ db'[o] = db[o] /\ last'[o] = last[o]
                              /\ applied'[o] = applied[o]
  BY <1>1, <1>2 DEF BlocksInv, Contents
<1>11. Replica!MoveTo(n, Prefix(d, k))
  BY <1>1, <1>9, <1>10, Moved
<1>12. b.weight > Replica!TipWeight(SubSeq(C[n], 1, j))
  <2>1. SubSeq(C[n], 1, j) = Prefix(d, j)
    <3>1. j \in Nat /\ j <= m
      BY <1>6
    <3> HIDE DEF j, m, d, C
    <3> QED BY <1>5, <1>7, <3>1, SubPrefix
  <2>2. Replica!TipWeight(Prefix(d, j)) = s.localWeight
    <3>1. CASE j = 0
      <4>1. Prefix(d, 0) = << >>
        <5> HIDE DEF d, m
        <5> QED BY <1>5, <1>6, PrefixOf
      <4>2. s.localWeight = 0
        BY <1>4, <1>5, <3>1 DEF LocalInv
      <4> QED BY <3>1, <4>1, <4>2 DEF Replica!TipWeight
    <3>2. CASE j # 0
      <4>1. j \in Nat /\ j >= 1 /\ j <= m
        <5> HIDE DEF j, k, m
        <5> QED BY <1>6, <3>2
      <4>2. s.localWeight = d[j].weight
        BY <1>4, <1>5, <3>2 DEF LocalInv
      <4> HIDE DEF j, m, d
      <4>3. Len(Prefix(d, j)) = j /\ Prefix(d, j) \in Seq(gossip)
        BY <1>5, <4>1, PrefixOf
      <4>4. Prefix(d, j) # << >>
        BY <4>1, <4>3, EmptySeq
      <4>5. Prefix(d, j)[j] = d[j]
        BY <4>1 DEF Prefix
      <4> QED BY <4>2, <4>3, <4>4, <4>5 DEF Replica!TipWeight, Replica!Last, Last
    <3> QED BY <3>1, <3>2
  <2> QED BY <1>8, <2>1, <2>2
<1>13. SubSeq(C[n], 1, k) = Prefix(d, k)
  <2> HIDE DEF k, m, d, C
  <2> QED BY <1>5, <1>6, <1>7, SubPrefix
<1>14. k \in 0 .. Len(C[n]) /\ k <= j /\ j <= Len(C[n])
  BY <1>6, <1>7
<1>16. Looks' = [Looks EXCEPT ![n] = Looks[n] \ {j}]
       /\ Goals' = [Goals EXCEPT ![n] = b]
  <2>1. \A v \in Workers : NodeOf[v] # n => sync'[v] = sync[v]
    BY <1>a, <1>e
  <2>2. \A o \in Nodes \ {n} : LooksOf(o)' = LooksOf(o) /\ GoalOf(o)' = GoalOf(o)
    BY <1>1, <1>10, <2>1, OthersSame
  <2>3. Looks' = [Looks EXCEPT ![n] = LooksOf(n) \ {j}]
    BY <1>1, <1>g, <2>2, LooksMove
  <2>4. Goals' = [Goals EXCEPT ![n] = b]
    BY <1>1, <1>f, <2>2, GoalsMove
  <2> QED BY <1>h, <2>3, <2>4
<1>15. Replica!MoveTo(n, SubSeq(C[n], 1, k))
  <2> HIDE DEF k, d, C
  <2> QED BY <1>11, <1>13, Zenon
<1>17. j \in Looks[n]
  BY <1>g, <1>h
<1> HIDE DEF k, j, b
<1> QED BY <1>3, <1>8, <1>h, <1>12, <1>14, <1>15, <1>16, <1>17
        DEF Replica!Rewind, Replica!Settle, C, n, Looks, Goals

\* A download that is not heavier is forgotten with its comparison.
LEMMA ApplyPendingForgets ==
    ASSUME ChainInv, NEW w \in Workers, ApplyPending(w), ~ Heavier(sync[w])
    PROVE  Replica!Forget(NodeOf[w]) \/ UNCHANGED Replica!vars
<1> DEFINE n == NodeOf[w]
           l == sync[w].localHeight - 1
<1>1. /\ BlocksInv /\ n \in Nodes /\ sync[w].pc = "apply"
      /\ Goto(w, Idle) /\ UNCHANGED nodeVars
  BY ChainParameters DEF ChainInv, ApplyPending, At
<1>2. /\ sync'[w] = Idle /\ sync'[w].pc = "idle"
      /\ gossip' = gossip /\ restarts' = restarts
      /\ \A v \in Workers \ {w} : sync'[v] = sync[v]
      /\ last' = last /\ db' = db /\ applied' = applied
  BY <1>1 DEF Goto, BlocksInv, Contents, nodeVars, Idle
<1>3. /\ l \in LooksOf(n)
      /\ LooksOf(n)' = LooksOf(n) \/ LooksOf(n)' = LooksOf(n) \ {l}
  <2>1. sync[w].pc \in Looking /\ sync'[w].pc \notin Looking
    BY <1>1, <1>2 DEF Looking
  <2> QED BY <1>2, <2>1, LooksEnd
<1>4. \A o \in Nodes \ {n} : LooksOf(o)' = LooksOf(o) /\ GoalOf(o)' = GoalOf(o)
  BY <1>1, <1>2, OthersSame
<1>5. GoalOf(n)' = GoalOf(n)
  <2>1. GoalIn(sync', last', n) = GoalIn(sync, last, n)
    BY <1>1, <1>2, GoalSame
  <2> QED BY <2>1, LooksGoals
<1>6. Goals' = Goals
  BY <1>4, <1>5 DEF Goals
<1>7. Looks[n] = LooksOf(n)
  BY <1>1 DEF Looks
<1>8. CASE LooksOf(n)' = LooksOf(n)
  <2>1. Looks' = Looks
    BY <1>4, <1>8 DEF Looks
  <2> QED BY <1>1, <1>2, <1>6, <2>1, NothingMoved
<1>9. CASE LooksOf(n)' = LooksOf(n) \ {l}
  <2>1. Looks' = [Looks EXCEPT ![n] = Looks[n] \ {l}]
    BY <1>1, <1>4, <1>7, <1>9, LooksMove
  <2>2. [m \in Nodes |-> ChainOf(m)]' = [m \in Nodes |-> ChainOf(m)]
    BY <1>2 DEF ChainOf
  <2> HIDE DEF l
  <2> QED BY <1>2, <1>3, <1>6, <1>7, <2>1, <2>2
          DEF Replica!Forget, Replica!Settle, Looks, Goals
<1> QED BY <1>3, <1>8, <1>9

\* What a node adopts is what it goes for, until the end.
LEMMA StoreNextGoal ==
    ASSUME ChainInv, NEW w \in Workers, sync[w].pc = "adopt",
           Goto(w, [sync[w] EXCEPT !.pending = Tail(@)]),
           sync[w].pending # << >>, Adopt(NodeOf[w], Head(sync[w].pending))
    PROVE  Looks' = Looks /\ Goals' = Goals
<1> DEFINE n == NodeOf[w]
           s == sync[w]
           t == Tail(s.pending)
<1>1. /\ BlocksInv /\ Exclusive /\ n \in Nodes /\ s \in SyncType(gossip)
      /\ s.pending \in Seq(gossip)
  BY ChainParameters DEF ChainInv, BlocksInv, Contents, SyncType
<1>2. /\ sync'[w] = [s EXCEPT !.pending = t]
      /\ \A v \in Workers \ {w} : sync'[v] = sync[v]
      /\ last'[n] = Head(s.pending)
      /\ \A o \in Nodes \ {n} : last'[o] = last[o]
  BY <1>1 DEF Goto, Adopt, BlocksInv, Contents
<1> HIDE DEF t
<1>3. sync'[w].pc = "adopt" /\ sync'[w].pending = t
  BY <1>1, <1>2 DEF SyncType
<1>4. \A v \in Workers : NodeOf[v] = n /\ sync[v].pc = "adopt" => v = w
  BY <1>1 DEF Exclusive
<1>5. GoalIn(sync, last, n) = Last(s.pending)
  <2>1. GoalIn(sync, last, n) = IF s.pending = << >> THEN last[n] ELSE Last(s.pending)
    BY <1>4, GoalIs
  <2> QED BY <2>1
<1>6. GoalIn(sync', last', n) = IF t = << >> THEN Head(s.pending) ELSE Last(t)
  <2>1. \A v \in Workers : NodeOf[v] = n /\ sync'[v].pc = "adopt" => v = w
    BY <1>2, <1>4
  <2>2. GoalIn(sync', last', n) = IF sync'[w].pending = << >> THEN last'[n]
                                  ELSE Last(sync'[w].pending)
    BY <1>3, <2>1, GoalIs
  <2> QED BY <1>2, <1>3, <2>2
<1>7. (IF t = << >> THEN Head(s.pending) ELSE Last(t)) = Last(s.pending)
  <2> DEFINE p == s.pending
             m == Len(p)
  <2>1. /\ m \in Nat /\ m >= 1 /\ t \in Seq(gossip) /\ Len(t) = m - 1
        /\ \A i \in 1 .. m - 1 : t[i] = p[i + 1]
        /\ Head(p) = p[1]
    <3>1. m \in Nat /\ m # 0
      BY <1>1, EmptySeq
    <3> QED BY <1>1, <3>1 DEF t
  <2>2. CASE t = << >>
    <3>1. m = 1
      BY <2>1, <2>2
    <3> QED BY <2>1, <2>2, <3>1 DEF Last
  <2>3. CASE t # << >>
    <3>1. m - 1 # 0
      BY <2>1, <2>3, EmptySeq
    <3>2. m - 1 \in 1 .. m - 1
      <4>1. m \in Nat /\ m >= 1
        BY <2>1
      <4> HIDE DEF m
      <4> QED BY <3>1, <4>1
    <3>3. t[m - 1] = p[(m - 1) + 1]
      BY <2>1, <3>2
    <3>4. (m - 1) + 1 = m
      BY <2>1
    <3> QED BY <2>1, <2>3, <3>3, <3>4 DEF Last
  <2> QED BY <2>2, <2>3
<1>8. GoalOf(n)' = GoalOf(n)
  BY <1>5, <1>6, <1>7, LooksGoals
<1>9. \A o \in Nodes \ {n} : LooksOf(o)' = LooksOf(o) /\ GoalOf(o)' = GoalOf(o)
  BY <1>1, <1>2, OthersSame
<1>10. LooksOf(n)' = LooksOf(n)
  <2>1. LooksIn(sync', n) = LooksIn(sync, n)
    <3>1. sync[w].pc \notin Looking /\ sync'[w].pc \notin Looking
      BY <1>3 DEF Looking
    <3>2. \A v \in Workers : NodeOf[v] = n =>
             /\ sync[v].pc \in Looking <=> sync'[v].pc \in Looking
             /\ sync[v].pc \in Looking =>
                   sync'[v].localHeight = sync[v].localHeight
      BY <1>2, <3>1
    <3> QED BY <3>2, LooksSame
  <2> QED BY <2>1, LooksGoals
<1> QED BY <1>8, <1>9, <1>10 DEF Looks, Goals

\* An adoption ends with the last block, or at one that is refused.
LEMMA StoreNextFinishes ==
    ASSUME ChainInv, NEW w \in Workers, sync[w].pc = "adopt",
           Goto(w, Idle), UNCHANGED nodeVars,
           sync[w].pending # << >> =>
              ~ Acceptable(applied[NodeOf[w]], Head(sync[w].pending))
    PROVE  Replica!Finish(NodeOf[w])
<1> DEFINE n == NodeOf[w]
           s == sync[w]
           b == Head(s.pending)
           C == [m \in Nodes |-> ChainOf(m)]
<1>1. /\ BlocksInv /\ HashesInv /\ Exclusive /\ CallInv(w) /\ n \in Nodes
      /\ NodeInv(n) /\ s \in SyncType(gossip) /\ s.pending \in Seq(gossip)
  BY ChainParameters DEF ChainInv, BlocksInv, Contents, SyncType
<1>2. /\ sync'[w] = Idle /\ sync'[w].pc = "idle"
      /\ gossip' = gossip /\ restarts' = restarts
      /\ \A v \in Workers \ {w} : sync'[v] = sync[v]
      /\ last' = last /\ db' = db /\ applied' = applied
  BY <1>1 DEF Goto, BlocksInv, Contents, nodeVars, Idle
<1>3. AdoptInv(n, s)
  BY <1>1 DEF CallInv
<1>4. \A v \in Workers : NodeOf[v] = n /\ sync[v].pc = "adopt" => v = w
  BY <1>1 DEF Exclusive
<1>5. Goals[n] = IF s.pending = << >> THEN last[n] ELSE Last(s.pending)
  <2>1. GoalIn(sync, last, n) = IF s.pending = << >> THEN last[n] ELSE Last(s.pending)
    BY <1>4, GoalIs
  <2> QED BY <1>1, <2>1, LooksGoals DEF Goals
<1>6. Goals' = [Goals EXCEPT ![n] = None]
  <2>1. GoalIn(sync', last', n) = None
    BY <1>2, <1>4, GoalNone
  <2>2. GoalOf(n)' = None
    BY <2>1, LooksGoals
  <2>3. \A o \in Nodes \ {n} : GoalOf(o)' = GoalOf(o)
    BY <1>1, <1>2, OthersSame
  <2> QED BY <1>1, <2>2, <2>3, GoalsMove
<1>7. Looks' = Looks
  <2>1. LooksIn(sync', n) = LooksIn(sync, n)
    BY <1>2, LooksSame DEF Looking
  <2>2. LooksOf(n)' = LooksOf(n)
    BY <2>1, LooksGoals
  <2>3. \A o \in Nodes \ {n} : LooksOf(o)' = LooksOf(o)
    BY <1>1, <1>2, OthersSame
  <2> QED BY <2>2, <2>3 DEF Looks
<1>8. None \notin gossip
  <2>1. \A c \in gossip : Built(c)
    BY <1>1 DEF BlocksInv
  <2> QED BY <2>1, FixedBlocks DEF Built
<1>9. C' = C /\ C[n] = ChainOf(n)
  <2>1. C' = C
    BY <1>2 DEF ChainOf
  <2> QED BY <1>1, <2>1
<1> HIDE DEF b, C
<1>10. CASE s.pending = << >>
  <2>1. last[n].index >= 1 /\ Goals[n] = last[n]
    BY <1>3, <1>5, <1>10 DEF AdoptInv
  <2>2. last[n] \in gossip
    <3>1. last[n].index # 0 /\ last[n].index # -1
      BY <2>1
    <3> QED BY <1>1, <3>1, TipCases
  <2>3. C[n] # << >> /\ Last(C[n]) = last[n]
    BY <1>1, <1>9, <2>2, CopyTip
  <2>4. Goals[n] # None
    BY <1>8, <2>1, <2>2
  <2> QED BY <1>2, <1>6, <1>7, <1>9, <2>1, <2>3, <2>4
          DEF Replica!Finish, Replica!Last, Last, Looks, Goals, C
<1>11. CASE s.pending # << >>
  <2>1. b \in gossip /\ ~ Acceptable(applied[n], b)
    BY <1>1, <1>3, <1>11, JoinedTail DEF AdoptInv, b
  <2>2. Goals[n] # None
    <3>1. Len(s.pending) \in 1 .. Len(s.pending)
      BY <1>1, <1>11, EmptySeq
    <3>2. Last(s.pending) \in gossip
      BY <1>1, <3>1 DEF Last
    <3> QED BY <1>5, <1>8, <1>11, <3>2
  <2>3. last[n] # RootBlock
    <3> SUFFICES ASSUME last[n] = RootBlock PROVE FALSE
      OBVIOUS
    <3>1. last[n].index = -1
      BY FixedBlocks
    <3>2. IsFirst(b)
      BY <1>3, <1>11 DEF AdoptInv, b
    <3>3. applied[n] = Transactions(<< >>)
      <4>1. Prefix(db[n], -1) = << >>
        BY <1>1, <3>1, PrefixOf DEF NodeInv
      <4> QED BY <1>1, <3>1, <4>1 DEF NodeInv
    <3>4. Transactions(<< >>) = << >>
      BY TransactionsFold
    <3> QED BY <2>1, <3>2, <3>3, <3>4 DEF IsFirst
  <2>4. last[n].index >= 1 /\ Follows(last[n], b)
    BY <1>3, <1>11, <2>3 DEF AdoptInv, b
  <2>5. /\ C[n] # << >> /\ Last(C[n]) = last[n]
        /\ Len(C[n]) = last[n].index
    <3>1. last[n].index # 0 /\ last[n].index # -1
      BY <2>4
    <3>2. last[n] \in gossip
      BY <1>1, <3>1, TipCases
    <3> QED BY <1>1, <1>9, <3>2, CopyTip
  <2>6. Replica!IsChild(C[n], b) \/ (C[n] # << >> /\ b = Last(C[n]))
    BY <2>4, <2>5 DEF Follows, Replica!IsChild, Replica!Last, Last
  <2>7. ~ Replica!Accepts(applied[n], b)
    BY <2>1, ReplicaAccepts
  <2>8. Replica!Refused(n)
    BY <2>1, <2>6, <2>7 DEF Replica!Refused, Replica!Last, Last, C
  <2> QED BY <1>2, <1>6, <1>7, <1>9, <2>2, <2>8
          DEF Replica!Finish, Looks, Goals, C
<1> QED BY <1>10, <1>11

\* An adopted block extends the copy, or was the tip already.
LEMMA StoreNextExtends ==
    ASSUME ChainInv, ChainInv', NEW w \in Workers, StoreNext(w)
    PROVE  \/ Replica!Extend(NodeOf[w]) \/ Replica!Finish(NodeOf[w])
           \/ UNCHANGED Replica!vars
<1> DEFINE n == NodeOf[w]
           s == sync[w]
           b == Head(s.pending)
<1>1. /\ BlocksInv /\ HashesInv /\ CallInv(w) /\ n \in Nodes /\ NodeInv(n)
      /\ s \in SyncType(gossip)
  BY ChainParameters DEF ChainInv, BlocksInv, Contents
<1>2. s.pc = "adopt" /\ s.pending \in Seq(gossip)
      /\ gossip' = gossip /\ restarts' = restarts
  BY <1>1 DEF StoreNext, At, SyncType, Goto
<1>3. AdoptInv(n, s)
  BY <1>1, <1>2 DEF CallInv
<1>4. CASE /\ s.pending # << >> => ~ Acceptable(applied[n], b)
           /\ Goto(w, Idle) /\ UNCHANGED nodeVars
  <2>1. Replica!Finish(n)
    BY <1>2, <1>4, StoreNextFinishes
  <2> QED BY <2>1
<1>5. CASE /\ s.pending # << >> /\ Acceptable(applied[n], b) /\ Adopt(n, b)
           /\ Goto(w, [s EXCEPT !.pending = Tail(@)]) /\ UNCHANGED crossed
  <2>1. b \in gossip
    BY <1>2, <1>3, <1>5, JoinedTail DEF AdoptInv
  <2>2. Looks' = Looks /\ Goals' = Goals
    BY <1>2, <1>5, StoreNextGoal
  <2>3. CASE last[n] # RootBlock /\ b = last[n]
    <3>1. last[n].index >= 1
      BY <1>1, <2>1, <2>3 DEF HashesInv
    <3>2. UNCHANGED nodeVars
      BY <1>1, <1>5, <2>3, <3>1, RepeatedBlock DEF nodeVars
    <3> QED BY <1>2, <2>2, <3>2, NothingMoved
  <2>4. CASE ~ (last[n] # RootBlock /\ b = last[n])
    <3>1. IF last[n] = RootBlock THEN IsFirst(b) ELSE Extends(last[n], b)
      BY <1>3, <1>5, <2>4 DEF AdoptInv, Follows, Extends
    <3> HIDE DEF b
    <3>2. Replica!Extend(n)
      BY <1>1, <1>2, <1>5, <2>1, <2>2, <3>1, AdoptExtends
    <3> QED BY <3>2
  <2> QED BY <2>3, <2>4
<1> QED BY <1>4, <1>5 DEF StoreNext

\* As long as no call was crossed, every step is one of the replica's or moves
\* nothing.
LEMMA StepRefines ==
    ASSUME ChainInv, ChainInv', [Next]_vars, ~ crossed'
    PROVE  (\E n \in Nodes : Replica!Step(n)) \/ UNCHANGED Replica!vars
<1>0. BlocksInv /\ HashesInv
  BY DEF ChainInv
<1>1. ASSUME NEW n \in Nodes, BuildTxBlock(n) PROVE Replica!Mine(n)
  <2> DEFINE b == NextBlock(n, last[n].weight, n, NonceOf(applied[n], n) + 1)
  <2>1. b = NextBlock(n, b.weight, b.sender, b.nonce) /\ b.weight = last[n].weight
    BY DEF NextBlock
  <2>2. AddBlock(n, b) /\ Publish(b) /\ UNCHANGED <<restarts, sync>>
    BY <1>1 DEF BuildTxBlock
  <2>3. b.weight \in Int /\ b.weight >= last[n].weight
    BY <1>0, <2>1, TipTypes
  <2> HIDE DEF b
  <2> QED BY <2>1, <2>2, <2>3, BuildMines
<1>2. ASSUME NEW n \in Nodes, BuildGameBlock(n) PROVE Replica!Mine(n)
  <2> DEFINE b == NextBlock(n, last[n].weight + 1, None, 0)
  <2>1. b = NextBlock(n, b.weight, b.sender, b.nonce)
        /\ b.weight = last[n].weight + 1
    BY DEF NextBlock
  <2>2. AddBlock(n, b) /\ Publish(b) /\ UNCHANGED <<restarts, sync>>
    BY <1>2 DEF BuildGameBlock
  <2>3. b.weight \in Int /\ b.weight >= last[n].weight
    BY <1>0, <2>1, TipTypes
  <2> HIDE DEF b
  <2> QED BY <2>1, <2>2, <2>3, BuildMines
<1>3. ASSUME NEW n \in Nodes, NEW b \in gossip, Deliver(n, b)
      PROVE  Replica!Extend(n)
  <2>1. /\ gossip' = gossip /\ restarts' = restarts /\ Adopt(n, b)
        /\ Acceptable(applied[n], b) /\ Extends(last[n], b) /\ Unlocked(n)
        /\ sync' = sync
    BY <1>3 DEF Deliver, AddBlock, Adopt
  <2>2. last[n] # RootBlock
    BY <2>1, CopyHeight
  <2>3. Looks' = Looks /\ Goals' = Goals
    BY <1>0, <2>1, AdoptFrame, CallsSame
  <2> QED BY <2>1, <2>2, <2>3, AdoptExtends
<1>4. ASSUME NEW n \in Nodes, Restart(n) PROVE Replica!Recover(n)
  BY <1>4, RestartRecovers
<1>5. ASSUME NEW w \in Workers, NEW q \in Nodes, AskStatus(w, q)
      PROVE  UNCHANGED Replica!vars
  <2> DEFINE rec == [Idle EXCEPT !.pc = "local", !.peer = q,
                       !.height = Height(q), !.weight = last[q].weight]
  <2>1. /\ Goto(w, rec) /\ UNCHANGED nodeVars /\ sync[w].pc = "idle"
        /\ rec.pc = "local"
    BY <1>5 DEF AskStatus, At, Idle
  <2> HIDE DEF rec
  <2> QED BY <2>1, CallOnly DEF Looking
<1>6. ASSUME NEW w \in Workers, ReadLocal(w)
      PROVE  Replica!Look(NodeOf[w]) \/ UNCHANGED Replica!vars
  BY <1>6, ReadLocalLooks
<1>7. ASSUME NEW w \in Workers, NEW ok, CheckTip(w, ok)
      PROVE  UNCHANGED Replica!vars
  <2>1. PICK rec : /\ Goto(w, rec) /\ sync[w].pc = "tip"
                   /\ rec.pc \in {"fetch", "search"}
                   /\ rec.localHeight = sync[w].localHeight
                   /\ UNCHANGED nodeVars
    <3>1. sync[w] \in SyncType(gossip)
      BY <1>0 DEF BlocksInv, Contents
    <3> QED BY <1>7, <3>1 DEF CheckTip, At, SyncType
  <2> QED BY <2>1, CallOnly DEF Looking
<1>8. ASSUME NEW w \in Workers, NEW ok, Probe(w, ok)
      PROVE  UNCHANGED Replica!vars
  <2>1. PICK rec : /\ Goto(w, rec) /\ sync[w].pc = "search"
                   /\ rec.pc \in {"fetch", "search"}
                   /\ rec.localHeight = sync[w].localHeight
                   /\ UNCHANGED nodeVars
    <3>1. sync[w] \in SyncType(gossip)
      BY <1>0 DEF BlocksInv, Contents
    <3> QED BY <1>8, <3>1 DEF Probe, Probed, At, SyncType
  <2> QED BY <2>1, CallOnly DEF Looking
<1>9. ASSUME NEW w \in Workers, NEW ok, Fetch(w, ok)
      PROVE  UNCHANGED Replica!vars
  <2>1. PICK rec : /\ Goto(w, rec) /\ sync[w].pc = "fetch"
                   /\ rec.pc \in {"fetch", "apply"}
                   /\ rec.localHeight = sync[w].localHeight
                   /\ UNCHANGED nodeVars
    <3>1. sync[w] \in SyncType(gossip)
      BY <1>0 DEF BlocksInv, Contents
    <3> QED BY <1>9, <3>1 DEF Fetch, At, SyncType
  <2> QED BY <2>1, CallOnly DEF Looking
<1>10. ASSUME NEW w \in Workers, ApplyPending(w)
       PROVE  \/ Replica!Rewind(NodeOf[w]) \/ Replica!Forget(NodeOf[w])
              \/ UNCHANGED Replica!vars
  <2>1. CASE Heavier(sync[w])
    BY <1>10, <2>1, ApplyPendingRewinds
  <2>2. CASE ~ Heavier(sync[w])
    BY <1>10, <2>2, ApplyPendingForgets
  <2> QED BY <2>1, <2>2
<1>11. ASSUME NEW w \in Workers, StoreNext(w)
       PROVE  \/ Replica!Extend(NodeOf[w]) \/ Replica!Finish(NodeOf[w])
              \/ UNCHANGED Replica!vars
  BY <1>11, StoreNextExtends
<1>12. CASE UNCHANGED vars
  <2>1. UNCHANGED nodeVars /\ gossip' = gossip /\ restarts' = restarts
        /\ sync' = sync /\ last' = last
    BY <1>12 DEF vars, nodeVars
  <2>2. Looks' = Looks /\ Goals' = Goals
    BY <2>1, CallsSame
  <2> QED BY <2>1, <2>2, NothingMoved
<1>13. \A w \in Workers : NodeOf[w] \in Nodes
  BY ChainParameters
<1>14. \A n \in Nodes : \/ Replica!Mine(n) \/ Replica!Extend(n)
                        \/ Replica!Look(n) \/ Replica!Forget(n)
                        \/ Replica!Rewind(n) \/ Replica!Finish(n)
                        \/ Replica!Recover(n)
                        => Replica!Step(n)
  BY DEF Replica!Step
<1> HIDE DEF ChainInv
<1> QED BY <1>1, <1>2, <1>3, <1>4, <1>5, <1>6, <1>7, <1>8, <1>9, <1>10, <1>11,
           <1>12, <1>13, <1>14 DEF Next, SyncStep

\* A node keeps the promises of EdenReplica about its copy of the chain and its
\* ledger, for any number of calls of TriggerSync, until a copy is cut back
\* under a call that relies on it.
THEOREM ReplicaImplemented == Spec => ImplementsReplica
<1>1. Init => Replica!Init
  <2> SUFFICES ASSUME Init PROVE Replica!Init
    OBVIOUS
  <2>1. ASSUME NEW n \in Nodes PROVE ChainOf(n) = << >>
    BY ChainInit, CopyTip DEF ChainInv, Init
  <2>2. \A w \in Workers : sync[w].pc = "idle"
    BY DEF Init, Idle
  <2>3. ASSUME NEW n \in Nodes PROVE LooksOf(n) = {} /\ GoalOf(n) = None
    <3>1. LooksIn(sync, n) = {}
      BY <2>2 DEF LooksIn, Looking
    <3>2. GoalIn(sync, last, n) = None
      BY <2>2, GoalNone
    <3> QED BY <3>1, <3>2, LooksGoals
  <2> QED BY <2>1, <2>3 DEF Init, Replica!Init
<1>2. IInv /\ [Next]_vars => IInv'
  BY Inductive
<1>3. IInv /\ IInv' /\ [Next]_vars => [Replica!Next]_(Replica!vars)
  <2> SUFFICES ASSUME IInv, IInv', [Next]_vars
               PROVE  [Replica!Next]_(Replica!vars)
    OBVIOUS
  <2>1. CASE crossed'
    BY <2>1 DEF Replica!Next
  <2>2. CASE ~ crossed'
    <3> HIDE DEF ChainInv
    <3>1. ~ crossed
      BY <2>2, CrossedStep DEF IInv
    <3>2. ChainInv /\ ChainInv'
      BY <2>2, <3>1, Zenon DEF IInv
    <3>3. (\E n \in Nodes : Replica!Step(n)) \/ UNCHANGED Replica!vars
      BY <2>2, <3>2, StepRefines
    <3> QED BY <2>2, <3>1, <3>3, Zenon DEF Replica!Next
  <2> QED BY <2>1, <2>2
<1>4. Init => IInv
  BY Inductive
<1> QED BY <1>1, <1>2, <1>3, <1>4, PTL
        DEF Spec, ImplementsReplica, Replica!Spec
===============================================================================
