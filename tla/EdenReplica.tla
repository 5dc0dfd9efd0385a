----------------------------- MODULE EdenReplica -----------------------------
(***************************************************************************)
(* What a node promises about its copy of the chain, without database,     *)
(* messages or locks: the copy grows by published children of its tip that *)
(* the ledger accepts; it is cut back to a prefix by a restart, or for a   *)
(* block heavier than the tip it was compared by, which the node then goes *)
(* for; and the ledger is at every moment the one of the copy.  The        *)
(* promise ends when a copy is cut back under a call that relies on it.    *)
(*                                                                         *)
(* EdenChain implements it with chain <- the stored blocks up to the tip,  *)
(* ledger <- the transactions its maps reflect, looks <- the heights       *)
(* TriggerSync compared and goal <- the last block it is adopting.         *)
(***************************************************************************)
EXTENDS Integers, Sequences, FiniteSets, SequencesExt

CONSTANTS
    Nodes,
    None,       \* no user's transaction, no goal
    RootHash    \* the parent hash of the first block

VARIABLES
    chain,      \* per node: its blocks, oldest first
    ledger,     \* per node: the user transactions in force
    published,  \* blocks any node ever built
    boots,      \* restarts of any node
    looks,      \* per node: its heights at comparisons still open
    goal,       \* per node: the block it gave up others for, or None
    crossed     \* a copy was cut back under a call that relied on it

vars == <<chain, ledger, published, boots, looks, goal, crossed>>

TipWeight(c) == IF c = << >> THEN 0 ELSE Last(c).weight

\* The block extends the copy.
IsChild(c, b) ==
    /\ b.index = Len(c) + 1
    /\ b.prev = IF c = << >> THEN RootHash ELSE Last(c).hash

\* The ledger accepts the block: it is exempt, or the next of its sender.
Accepts(txs, b) ==
    \/ b.sender = None
    \/ b.nonce = Cardinality({i \in DOMAIN txs : txs[i].sender = b.sender}) + 1

Transactions(c) ==
    FoldLeft(LAMBDA txs, b : IF b.sender = None THEN txs ELSE Append(txs, b),
             << >>, c)

\* A step of one node to another copy takes its ledger along.
MoveTo(n, c) ==
    /\ chain' = [chain EXCEPT ![n] = c]
    /\ ledger' = [ledger EXCEPT ![n] = Transactions(c)]

\* The node publishes a block on top of its own copy, no lighter than its tip.
Mine(n) ==
    \E b \in published' \ published :
        /\ goal[n] = None
        /\ UNCHANGED <<boots, looks, goal>>
        /\ published' = published \cup {b}
        /\ IsChild(chain[n], b) /\ Accepts(ledger[n], b)
        /\ b.weight >= TipWeight(chain[n])
        /\ MoveTo(n, Append(chain[n], b))

\* The node takes over a published child of its tip.
Extend(n) ==
    /\ UNCHANGED <<published, boots, looks, goal>>
    /\ \E b \in published :
          /\ IsChild(chain[n], b) /\ Accepts(ledger[n], b)
          /\ MoveTo(n, Append(chain[n], b))

\* The node compares its tip with a peer's.
Look(n) ==
    /\ goal[n] = None
    /\ looks' = [looks EXCEPT ![n] = @ \cup {Len(chain[n])}]
    /\ UNCHANGED <<chain, ledger, published, boots, goal>>

\* A comparison is settled.
Settle(n, l) == looks' = [looks EXCEPT ![n] = @ \ {l}]

\* A comparison comes to nothing.
Forget(n) ==
    /\ \E l \in looks[n] : Settle(n, l)
    /\ UNCHANGED <<chain, ledger, published, boots, goal>>

\* The node falls back to a prefix of the copy it compared, for a published
\* block heavier than the tip of that copy.  What it gained since, however
\* heavy, is given up too.
Rewind(n) ==
    /\ goal[n] = None
    /\ UNCHANGED <<published, boots>>
    /\ \E l \in looks[n], b \in published, k \in 0 .. Len(chain[n]) :
          /\ k <= l /\ l <= Len(chain[n])
          /\ b.weight > TipWeight(SubSeq(chain[n], 1, l))
          /\ MoveTo(n, SubSeq(chain[n], 1, k))
          /\ Settle(n, l)
          /\ goal' = [goal EXCEPT ![n] = b]

\* A published block that continues the copy, or repeats its tip, and that the
\* ledger refuses.
Refused(n) ==
    \E b \in published :
        /\ IsChild(chain[n], b) \/ (chain[n] # << >> /\ b = Last(chain[n]))
        /\ ~ Accepts(ledger[n], b)

\* The node has the block it gave up others for, or cannot get there.
Finish(n) ==
    /\ goal[n] # None
    /\ (chain[n] # << >> /\ Last(chain[n]) = goal[n]) \/ Refused(n)
    /\ goal' = [goal EXCEPT ![n] = None]
    /\ UNCHANGED <<chain, ledger, published, boots, looks>>

\* A restart finds a prefix of what the node had; its comparisons are gone.
Recover(n) ==
    /\ boots' = boots + 1
    /\ looks' = [looks EXCEPT ![n] = {}]
    /\ goal' = [goal EXCEPT ![n] = None]
    /\ UNCHANGED published
    /\ \E k \in 0 .. Len(chain[n]) : MoveTo(n, SubSeq(chain[n], 1, k))

Step(n) ==
    \/ Mine(n) \/ Extend(n)
    \/ Look(n) \/ Forget(n)
    \/ Rewind(n) \/ Finish(n)
    \/ Recover(n)

Init ==
    /\ chain = [n \in Nodes |-> << >>]
    /\ ledger = [n \in Nodes |-> << >>]
    /\ published = {}
    /\ boots = 0
    /\ looks = [n \in Nodes |-> {}]
    /\ goal = [n \in Nodes |-> None]
    /\ crossed = FALSE

\* Once a copy was cut back under a call, nothing is promised.
Next ==
    \/ ~ crossed /\ ~ crossed' /\ \E n \in Nodes : Step(n)
    \/ crossed'

Spec == Init /\ [][Next]_vars
=============================================================================
