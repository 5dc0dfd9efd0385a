------------------------------ MODULE EdenChain ------------------------------
(***************************************************************************)
(* The chains of several nodes: building and gossiping blocks, storing     *)
(* them in LevelDB, restarting from it, and adopting a heavier chain with  *)
(* TriggerSync (src/core/eveUE.go, src/core/mainUE.go).                    *)
(*                                                                         *)
(* The ledger a chain produces is the module EdenLedger; here it is the    *)
(* sequence of user transactions that were applied, which is all that the  *)
(* nonce check looks at.  A block holds one transaction: a user's, with    *)
(* its nonce, or (a game block) the exempt SYSTEM_MINT one.                *)
(***************************************************************************)
EXTENDS Integers, Sequences, FiniteSets, SequencesExt

CONSTANTS
    Nodes,
    Workers,      \* calls of TriggerSync that may run
    NodeOf,       \* the node a worker runs on
    Producers,    \* nodes that build blocks in this instance
    Restarters,   \* nodes that may crash and restart
    Outcomes,     \* subset of BOOLEAN: whether requests may fail
    Batch,        \* blocks per BLOCKS request (100 in the code)
    MaxBlocks,    \* bound: blocks ever built
    MaxIndex,     \* bound: block index
    MaxRestarts,  \* bound: restarts
    None          \* nothing stored, no sender

ASSUME ChainParameters ==
    /\ NodeOf \in [Workers -> Nodes]
    /\ Producers \subseteq Nodes /\ Restarters \subseteq Nodes
    /\ Outcomes \subseteq BOOLEAN
    /\ Batch \in Nat \ {0}
    /\ {MaxBlocks, MaxIndex, MaxRestarts} \subseteq Nat

\* Hashes: built blocks count up from 1; the strings "", "0" and
\* "GENESIS_BLOCK" are the three hashes no built block has.
EmptyHash == 0
RootHash == -1
GenesisHash == -2

Hash == GenesisHash .. MaxBlocks

Block == [hash : Hash, index : -1 .. MaxIndex, prev : Hash,
          weight : 0 .. MaxBlocks, sender : Nodes \cup {None},
          nonce : 0 .. MaxBlocks]

ASSUME NoneIsNothing == None \notin Nodes \cup Block \cup (-1 .. MaxIndex)

\* The zero value of LastBlock, and the block TriggerSync falls back to.
ZeroBlock == [hash |-> EmptyHash, index |-> 0, prev |-> EmptyHash,
              weight |-> 0, sender |-> None, nonce |-> 0]
RootBlock == [ZeroBlock EXCEPT !.hash = RootHash, !.index = -1]
Genesis == [ZeroBlock EXCEPT !.hash = GenesisHash, !.prev = RootHash]

VARIABLES
    db,        \* per node: the block_i keys
    latest,    \* per node: the latest_index key, or None
    last,      \* per node: LastBlock
    applied,   \* per node: user transactions the maps reflect
    gossip,    \* blocks published on the block topic
    built,     \* number of blocks built
    restarts,
    sync,      \* per worker: the locals of TriggerSync
    crossed    \* history: a chain was cut back that another call relied on

nodeVars == <<db, latest, last, applied, crossed>>
vars == <<nodeVars, gossip, built, restarts, sync>>

-----------------------------------------------------------------------------
(* Blocks and the database.                                                *)

NonceOf(txs, p) == Cardinality({i \in DOMAIN txs : txs[i].sender = p})

\* ProcessBlockState accepts the block on top of these transactions.
Acceptable(txs, b) == b.sender = None \/ b.nonce = NonceOf(txs, b.sender) + 1

\* The transactions after an accepted block.
Apply(txs, b) == IF b.sender = None THEN txs ELSE Append(txs, b)

\* Mutant of Extends: only the height is compared.
ExtendsHeight(tip, b) == b.index = tip.index + 1

\* The two guards of AddBlock.
Extends(tip, b) == b.prev = tip.hash /\ b.index = tip.index + 1

\* GetBlocksRange: the stored blocks of start .. end - 1, gaps skipped.
BlocksRange(store, start, end) ==
    FoldLeft(LAMBDA blocks, i : IF i \in DOMAIN store /\ store[i] # None
                                THEN Append(blocks, store[i]) ELSE blocks,
             << >>, [k \in 1 .. end - start |-> start + k - 1])

\* Mutant of Replay: the maps are emptied and stay so.
ReplayNothing(blocks) == << >>

\* ProcessBlockState on blocks being replayed, which go on after a refusal.
Process(txs, b) == IF Acceptable(txs, b) THEN Apply(txs, b) ELSE txs

\* Replaying blocks whatever ProcessBlockState answers.
Replay(blocks) == FoldLeft(Process, << >>, blocks)

\* Mutant of Tip: no fallback.
TipOrNone(blocks, none) == IF blocks = << >> THEN None ELSE Last(blocks)

\* The end of a replay: the last block read, or what a node has without any.
Tip(blocks, none) == IF blocks = << >> THEN none ELSE Last(blocks)

\* No TriggerSync holds the node's chain mutex for its locked section.
Unlocked(n) == \A w \in Workers : NodeOf[w] = n => sync[w].pc # "adopt"

\* AddBlock, for a block that passes its checks.
AddBlock(n, b) ==
    /\ Unlocked(n)
    /\ Extends(last[n], b)
    /\ Acceptable(applied[n], b)
    /\ applied' = [applied EXCEPT ![n] = Apply(@, b)]
    /\ last' = [last EXCEPT ![n] = b]
    /\ db' = [db EXCEPT ![n][b.index] = b]
    /\ latest' = [latest EXCEPT ![n] = b.index]

-----------------------------------------------------------------------------
(* Building and gossiping.  The builders read LastBlock and the nonce in   *)
(* separate steps; a block built from reads that straddle a change fails   *)
(* the checks of AddBlock and leaves no trace, so only the consistent ones *)
(* are actions.                                                            *)

Publish(b) == gossip' = gossip \cup {b} /\ built' = built + 1

NextBlock(n, weight, sender, nonce) ==
    [hash |-> built + 1, index |-> last[n].index + 1, prev |-> last[n].hash,
     weight |-> weight, sender |-> sender, nonce |-> nonce]

CanBuild(n) ==
    /\ n \in Producers
    /\ built < MaxBlocks
    /\ last[n].index < MaxIndex

\* SendTransaction, PlaceBet, StartMatch, ...: one user transaction, and the
\* weight of the block it extends.
BuildTxBlock(n) ==
    LET b == NextBlock(n, last[n].weight, n, NonceOf(applied[n], n) + 1)
    IN  /\ CanBuild(n)
        /\ AddBlock(n, b)
        /\ Publish(b)
        /\ UNCHANGED <<restarts, sync, crossed>>

\* SubmitGameBlock: CalculateValidatorWeight adds 1 when no staker signed.
BuildGameBlock(n) ==
    LET b == NextBlock(n, last[n].weight + 1, None, 0)
    IN  /\ CanBuild(n)
        /\ AddBlock(n, b)
        /\ Publish(b)
        /\ UNCHANGED <<restarts, sync, crossed>>

\* A gossiped block is added when it extends the tip and dropped otherwise;
\* messages are lost, reordered and repeated.
Deliver(n, b) ==
    /\ b \in gossip
    /\ AddBlock(n, b)
    /\ UNCHANGED <<gossip, built, restarts, sync, crossed>>

-----------------------------------------------------------------------------
(* Restart.                                                                *)

\* The call goes on with what it read of the node's chain: its own node's from
\* the comparison of the tips to the adoption, its peer's until it has
\* downloaded what it wants.
ReliesOn(v, n) ==
    \/ NodeOf[v] = n /\ sync[v].pc \in {"tip", "search", "fetch", "apply"}
    \/ sync[v].peer = n /\ sync[v].pc \in {"local", "tip", "search", "fetch"}

\* The node gives up blocks; no code looks after the calls that read them.
CutBack(n, others) ==
    crossed' = (crossed \/ \E v \in others : ReliesOn(v, n))

Idle == [pc |-> "idle", peer |-> None, height |-> 0, localHeight |-> 0,
         localWeight |-> 0, weight |-> 0, low |-> 0, high |-> 0,
         ancestor |-> -1, start |-> 0, pending |-> << >>]

\* The blocks LoadFromDB replays: from block_0 up to the first missing key.
Replayed(n) ==
    LET gaps == {i \in 0 .. latest[n] : db[n][i] = None}
    IN  BlocksRange(db[n], 0, IF gaps = {} THEN latest[n] + 1 ELSE Min(gaps))

\* InitializeChain. Without history AddBlock(genesis) is tried; it does not
\* extend the zero block and is refused.
Restart(n) ==
    /\ n \in Restarters
    /\ restarts < MaxRestarts
    /\ restarts' = restarts + 1
    /\ sync' = [w \in Workers |-> IF NodeOf[w] = n THEN Idle ELSE sync[w]]
    /\ CutBack(n, {w \in Workers : NodeOf[w] # n})
    /\ UNCHANGED <<db, latest, gossip, built>>
    /\ \/ /\ latest[n] = None
          /\ ~ Extends(ZeroBlock, Genesis)
          /\ last' = [last EXCEPT ![n] = ZeroBlock]
          /\ applied' = [applied EXCEPT ![n] = << >>]
       \/ /\ latest[n] # None
          /\ last' = [last EXCEPT ![n] = Tip(Replayed(n), ZeroBlock)]
          /\ applied' = [applied EXCEPT ![n] = Replay(Replayed(n))]

-----------------------------------------------------------------------------
(* TriggerSync, one request or database write per step.                    *)

Height(n) == last[n].index + 1

Goto(w, rec) ==
    /\ sync' = [sync EXCEPT ![w] = rec]
    /\ UNCHANGED <<gossip, built, restarts>>

At(w, pc) == sync[w].pc = pc

\* FindAndConnect or ConnectToPeer starts a call; its STATUS request is
\* answered with the peer's height and weight.
AskStatus(w, q) ==
    /\ At(w, "idle")
    /\ q # NodeOf[w] /\ Unlocked(q)
    /\ Goto(w, [Idle EXCEPT !.pc = "local", !.peer = q,
                            !.height = Height(q), !.weight = last[q].weight])
    /\ UNCHANGED nodeVars

\* The comparison with the local tip, read after the answer.
ReadLocal(w) ==
    LET n == NodeOf[w]
        s == sync[w]
    IN  /\ At(w, "local") /\ Unlocked(n)
        /\ UNCHANGED nodeVars
        /\ \/ /\ s.weight <= last[n].weight \/ s.height = 0
              /\ Goto(w, Idle)
           \/ /\ s.weight > last[n].weight /\ s.height # 0
              /\ Goto(w, [s EXCEPT !.pc = "tip",
                                   !.localHeight = Height(n),
                                   !.localWeight = last[n].weight,
                                   !.high = Min({Height(n), s.height}) - 1])

\* VERIFY: the peer has stored the block this node has at an index.
Verified(w, i, ok) ==
    /\ ok
    /\ i \in 0 .. MaxIndex
    /\ db[NodeOf[w]][i] # None
    /\ db[sync[w].peer][i] # None
    /\ db[NodeOf[w]][i].hash = db[sync[w].peer][i].hash

CheckTip(w, ok) ==
    LET s == sync[w]
    IN  /\ At(w, "tip") /\ Unlocked(s.peer)
        /\ UNCHANGED nodeVars
        /\ \/ /\ Verified(w, s.high, ok)
              /\ Goto(w, [s EXCEPT !.pc = "fetch", !.ancestor = s.high,
                                   !.start = s.high + 1])
           \/ /\ ~ Verified(w, s.high, ok)
              /\ Goto(w, [s EXCEPT !.pc = "search"])

Mid(s) == s.low + (s.high - s.low) \div 2

\* Mutant of Probed: a mismatch keeps the middle in the interval.
ProbedStuck(s, match) ==
    IF match THEN [s EXCEPT !.ancestor = Mid(s), !.low = Mid(s) + 1]
             ELSE [s EXCEPT !.high = Mid(s)]

\* The interval after one answer of the binary search.
Probed(s, match) ==
    IF match THEN [s EXCEPT !.ancestor = Mid(s), !.low = Mid(s) + 1]
             ELSE [s EXCEPT !.high = Mid(s) - 1]

\* The search ends on an empty interval, a block this node lacks, or an error.
Probe(w, ok) ==
    LET s == sync[w]
        over == s.low > s.high \/ db[NodeOf[w]][Mid(s)] = None \/ ~ ok
    IN  /\ At(w, "search") /\ Unlocked(s.peer)
        /\ UNCHANGED nodeVars
        /\ \/ /\ over
              /\ Goto(w, [s EXCEPT !.pc = "fetch", !.start = s.ancestor + 1])
           \/ /\ ~ over
              /\ Goto(w, Probed(s, Verified(w, Mid(s), ok)))

\* The peer's answer to a BLOCKS request.
Served(q, start) ==
    IF start < Height(q)
    THEN BlocksRange(db[q], start, Min({start + Batch, Height(q)}))
    ELSE << >>

\* Downloading goes on until the announced height, an empty answer or an
\* error; the next request starts as many indices further as blocks came.
Fetch(w, ok) ==
    LET s == sync[w]
        blocks == IF s.start < s.height /\ ok THEN Served(s.peer, s.start)
                                              ELSE << >>
    IN  /\ At(w, "fetch") /\ Unlocked(s.peer)
        /\ UNCHANGED nodeVars
        /\ \/ /\ blocks = << >>
              /\ Goto(w, [s EXCEPT !.pc = "apply"])
           \/ /\ blocks # << >>
              /\ Goto(w, [s EXCEPT !.pending = @ \o blocks,
                                   !.start = @ + Len(blocks)])

\* Mutant of Heavier: a download as heavy as the own tip is adopted.
AsHeavy(s) == s.pending # << >> /\ Last(s.pending).weight >= s.localWeight

\* What was downloaded outweighs the tip the node had at the comparison.
Heavier(s) == s.pending # << >> /\ Last(s.pending).weight > s.localWeight

\* The database once the blocks above the ancestor are deleted, as far as
\* the height this node had when the call began.
Trimmed(n, s) ==
    [i \in DOMAIN db[n] |-> IF i \in s.ancestor + 1 .. s.localHeight - 1
                            THEN None ELSE db[n][i]]

\* Mutant of TrimmedLatest: the key is left to the first SaveBlockToDB.
TrimmedLatestKept(n, s) == latest[n]

\* The latest_index key the same batch writes.
TrimmedLatest(n, s) == s.ancestor

\* The locked section begins: one batch trims the database, then the maps are
\* emptied and the common prefix is replayed.
ApplyPending(w) ==
    LET n == NodeOf[w]
        s == sync[w]
        kept == BlocksRange(Trimmed(n, s), 0, s.ancestor + 1)
    IN  /\ At(w, "apply")
        /\ \/ /\ Heavier(s)
              /\ Unlocked(n)
              /\ Goto(w, [s EXCEPT !.pc = "adopt"])
              /\ CutBack(n, Workers \ {w})
              /\ db' = [db EXCEPT ![n] = Trimmed(n, s)]
              /\ latest' = [latest EXCEPT ![n] = TrimmedLatest(n, s)]
              /\ last' = [last EXCEPT ![n] = Tip(kept, RootBlock)]
              /\ applied' = [applied EXCEPT ![n] = Replay(kept)]
           \/ /\ ~ Heavier(s)
              /\ Goto(w, Idle)
              /\ UNCHANGED nodeVars

\* Mutant of Adopt: the block is stored but not processed.
AdoptUnprocessed(n, b) ==
    /\ last' = [last EXCEPT ![n] = b]
    /\ db' = [db EXCEPT ![n][b.index] = b]
    /\ latest' = [latest EXCEPT ![n] = b.index]
    /\ UNCHANGED applied

\* One pending block processed and stored: neither its parent nor its index
\* is looked at.
Adopt(n, b) ==
    /\ applied' = [applied EXCEPT ![n] = Apply(@, b)]
    /\ last' = [last EXCEPT ![n] = b]
    /\ db' = [db EXCEPT ![n][b.index] = b]
    /\ latest' = [latest EXCEPT ![n] = b.index]

\* The loop over the pending blocks ends after them or at the first refusal,
\* and the mutex is released.
StoreNext(w) ==
    LET n == NodeOf[w]
        s == sync[w]
        over == s.pending # << >> => ~ Acceptable(applied[n], Head(s.pending))
    IN  /\ At(w, "adopt")
        /\ \/ /\ ~ over
              /\ Adopt(n, Head(s.pending))
              /\ Goto(w, [s EXCEPT !.pending = Tail(@)])
              /\ UNCHANGED crossed
           \/ /\ over
              /\ Goto(w, Idle)
              /\ UNCHANGED nodeVars

-----------------------------------------------------------------------------

Init ==
    /\ db = [n \in Nodes |-> [i \in 0 .. MaxIndex |-> None]]
    /\ latest = [n \in Nodes |-> None]
    /\ last = [n \in Nodes |-> ZeroBlock]
    /\ applied = [n \in Nodes |-> << >>]
    /\ gossip = {}
    /\ built = 0
    /\ restarts = 0
    /\ sync = [w \in Workers |-> Idle]
    /\ crossed = FALSE

SyncStep(w, outcomes) ==
    \/ ReadLocal(w)
    \/ \E ok \in outcomes : CheckTip(w, ok) \/ Probe(w, ok) \/ Fetch(w, ok)
    \/ ApplyPending(w)
    \/ StoreNext(w)

Next ==
    \/ \E n \in Nodes :
         \/ BuildTxBlock(n)
         \/ BuildGameBlock(n)
         \/ \E b \in gossip : Deliver(n, b)
         \/ Restart(n)
    \/ \E w \in Workers :
         \/ \E q \in Nodes : AskStatus(w, q)
         \/ SyncStep(w, Outcomes)

Spec == Init /\ [][Next]_vars

\* A started call of TriggerSync is a goroutine that keeps running: its
\* requests are answered unless they fail, which it cannot wait for, and a
\* chain mutex that is released again and again does not leave it waiting for
\* ever (sync.RWMutex).
FairSpec == Spec /\ \A w \in Workers : SF_vars(SyncStep(w, {TRUE}))

-----------------------------------------------------------------------------
(* Properties.                                                             *)

TypeOK ==
    /\ db \in [Nodes -> [0 .. MaxIndex -> Block \cup {None}]]
    /\ latest \in [Nodes -> (-1 .. MaxIndex) \cup {None}]
    /\ last \in [Nodes -> Block]
    /\ applied \in [Nodes -> Seq(Block)]
    /\ gossip \subseteq Block
    /\ built \in 0 .. MaxBlocks
    /\ restarts \in 0 .. MaxRestarts
    /\ \A w \in Workers : sync[w].pending \in Seq(Block)
    /\ crossed \in BOOLEAN

\* The blocks a node stores up to its tip.
ChainOf(n) ==
    IF last[n].index < 1 THEN << >>
    ELSE [i \in 1 .. last[n].index |-> db[n][i]]

\* The stored chain is what AddBlock's guards promise: a block at every index
\* from 1 to the tip, each the parent of the next, the tip last.
Linked ==
    \A n \in Nodes :
        /\ \A i \in 1 .. last[n].index :
              /\ db[n][i] # None
              /\ db[n][i].index = i
              /\ i > 1 => db[n][i].prev = db[n][i - 1].hash
        /\ last[n].index > 0 => db[n][last[n].index] = last[n]

\* Gossip, adoption of another chain by any number of calls, and restarts over
\* a database with old keys keep every chain linked, as long as no node gave
\* up blocks while a call went on with what it had read of them.
LinkedUnlessCrossed == crossed \/ Linked

\* As long, the database holds a whole chain up to the latest_index key at
\* every moment, also between two writes of an adoption: a crash loses no
\* parent of a block it keeps.
DiskLinked ==
    crossed \/ \A n \in Nodes : latest[n] # None =>
        \A i \in 1 .. latest[n] :
            /\ db[n][i] # None
            /\ i > 1 => db[n][i].prev = db[n][i - 1].hash

\* As long, the maps of a node are what replaying its stored chain from nothing
\* gives: no transaction of that chain was lost, applied twice or left over
\* from an abandoned branch.
StateIsReplay ==
    crossed \/ \A n \in Nodes :
        applied[n] = FoldLeft(Apply, << >>, ChainOf(n))

\* As long, two nodes at the same tip agree on every applied transaction,
\* however each of them got there.
SameTipSameState ==
    crossed \/ \A m, n \in Nodes :
        last[m].hash = last[n].hash => applied[m] = applied[n]

\* The heights a node had when its calls that are still to decide compared it
\* with their peers.
LooksOf(n) ==
    {sync[w].localHeight - 1 :
        w \in {v \in Workers : /\ NodeOf[v] = n
                               /\ sync[v].pc \in {"tip", "search", "fetch",
                                                   "apply"}}}

\* The last of the blocks a node is adopting.
GoalOf(n) ==
    LET adopting == {w \in Workers : NodeOf[w] = n /\ sync[w].pc = "adopt"}
        pending == sync[CHOOSE w \in adopting : TRUE].pending
    IN  IF adopting = {} THEN None
        ELSE IF pending = << >> THEN last[n] ELSE Last(pending)

\* The node's copy of the chain, as an abstract replica sees it.
Replica == INSTANCE EdenReplica WITH
    RootHash <- EmptyHash,
    chain <- [n \in Nodes |-> ChainOf(n)],
    ledger <- applied,
    published <- gossip,
    boots <- restarts,
    looks <- [n \in Nodes |-> LooksOf(n)],
    goal <- [n \in Nodes |-> GoalOf(n)]

\* As long, a node's copy only grows by published children of its tip that its
\* ledger accepts; a call cuts it back only to a prefix of the copy it compared
\* with its peer's, for a published block heavier than the tip of that copy,
\* and it neither builds nor compares until it has that block or a refused one is
\* in the way; and its ledger follows every step, restarts included.
ImplementsReplica == Replica!Spec

\* Every call of TriggerSync returns.
SyncTerminates == \A w \in Workers : sync[w].pc # "idle" ~> sync[w].pc = "idle"

\* eveUE.go:229 reports "State restoration complete." after a restart: a node
\* that had a chain still has it.
RestartKeepsChain ==
    [][\A n \in Nodes : last'[n] = ZeroBlock => last[n] = ZeroBlock]_vars
=============================================================================
