---------------------------- MODULE EdenGameBlock ----------------------------
(***************************************************************************)
(* Mining a game block (src/core/mainUE.go, src/core/eveUE.go): the host   *)
(* proposes it to the validators, waits three seconds for signatures,      *)
(* weighs them by stake and adds the block, while blocks arrive and        *)
(* TriggerSync replaces its chain.                                         *)
(*                                                                         *)
(* A block is its number, which stands for its hash; it keeps the stakes   *)
(* its chain leaves behind.  A node's chain and state are given by its     *)
(* tip: that equal tips mean equal states is what EdenChain checks.        *)
(* TriggerSync is its download and its locked section; EdenChain has all   *)
(* of its steps.                                                           *)
(***************************************************************************)
EXTENDS Integers, FiniteSets, FiniteSetsExt

CONSTANTS
    Nodes,
    Miners,        \* nodes that submit game blocks
    Stakers,       \* nodes that stake
    Amount,        \* coins staked at a time
    PlayerCounts,  \* player counts games are submitted with
    MaxBlocks,     \* bound: blocks ever created
    MaxSyncs,      \* bound: downloads in all
    None

ASSUME GameBlockParameters ==
    /\ Miners \subseteq Nodes /\ Stakers \subseteq Nodes
    /\ Amount \in Nat \ {0}
    /\ PlayerCounts \subseteq Nat
    /\ MaxBlocks \in Nat /\ MaxSyncs \in Nat

Hash == 0 .. MaxBlocks       \* 0 is the tip of an empty chain
Block == [parent : Hash, index : Nat, weight : Nat,
          kind : {"root", "stake", "game"}, stakes : [Nodes -> Nat],
          sigs : SUBSET Nodes, undisturbed : BOOLEAN]
Signature == [by : Nodes, hash : Hash]
Proposal == [by : Nodes, hash : Hash]

RootBlock == [parent |-> 0, index |-> 0, weight |-> 0, kind |-> "root",
              stakes |-> [p \in Nodes |-> 0], sigs |-> {}, undisturbed |-> TRUE]

\* A call of CreateGameBlock: its block, its progress, and what it has got.
Waiting ==
    [step : {"waiting", "signed"}, hash : Hash, sigs : SUBSET Nodes, weight : {0}]
    \cup [step : {"weighed"}, hash : Hash, sigs : SUBSET Nodes, weight : Nat \ {0}]
Idle == [step |-> "idle", hash |-> 0, sigs |-> {}, weight |-> 0]

\* A TriggerSync between its download and its locked section.
Download == [tip : Hash, localWeight : Nat]

VARIABLES
    created,       \* number of blocks ever created
    tree,          \* every block by its hash; unused ones are the root
    tip,           \* LastBlock of each node
    published,     \* hashes of the blocks broadcast
    proposals,     \* blocks proposed to validators, with their miners
    signatures,    \* signatures published by validators
    pending,       \* pendingBlockSigs of each node
    mining,        \* the CreateGameBlock of each node
    undisturbed,   \* history: no sync replaced the chain during that call
    sync,          \* the TriggerSync of each node, or None
    syncs          \* history: downloads

topic == <<proposals, signatures>>
vars == <<created, tree, tip, published, topic, pending, mining, undisturbed, sync, syncs>>

Tip(n) == tree[tip[n]]

-----------------------------------------------------------------------------

\* Mutant of Extends: a block may also come too late.
ExtendsUpTo(n, h) == tree[h].index <= Tip(n).index + 1

\* The checks of AddBlock before the block is processed.
Extends(n, h) == tree[h].parent = tip[n] /\ tree[h].index = Tip(n).index + 1

\* A staking transaction in a block of its own, added where it is built.
BuildStake(n) ==
    LET h == created + 1
    IN  /\ n \in Stakers /\ h \in Hash
        /\ created' = h
        /\ tree' = [tree EXCEPT ![h] =
              [parent |-> tip[n], index |-> Tip(n).index + 1,
               weight |-> Tip(n).weight, kind |-> "stake",
               stakes |-> [Tip(n).stakes EXCEPT ![n] = @ + Amount],
               sigs |-> {}, undisturbed |-> TRUE]]
        /\ tip' = [tip EXCEPT ![n] = h]
        /\ published' = published \cup {h}
        /\ UNCHANGED <<topic, pending, mining, undisturbed, sync, syncs>>

\* A broadcast block arrives, in any order, perhaps again.
Deliver(n, h) ==
    /\ Extends(n, h)
    /\ tip' = [tip EXCEPT ![n] = h]
    /\ UNCHANGED <<created, tree, published, topic, pending, mining,
                   undisturbed, sync, syncs>>

-----------------------------------------------------------------------------
(* Mining.                                                                 *)

\* SubmitGameBlock names no witnesses, and half of the players are required.
Witnesses == 0
Required(players) == (players + 1) \div 2

\* CreateGameBlock up to the wait: the block is made on the tip and proposed.
Propose(n, players) ==
    LET h == created + 1
    IN  /\ n \in Miners /\ h \in Hash /\ mining[n] = Idle
        /\ Witnesses >= Required(players)
        /\ created' = h
        /\ tree' = [tree EXCEPT ![h] =
              [parent |-> tip[n], index |-> Tip(n).index + 1,
               weight |-> Tip(n).weight, kind |-> "game", stakes |-> Tip(n).stakes,
               sigs |-> {}, undisturbed |-> FALSE]]
        /\ proposals' = proposals \cup {[by |-> n, hash |-> h]}
        /\ mining' = [mining EXCEPT ![n] =
              [step |-> "waiting", hash |-> h, sigs |-> {}, weight |-> 0]]
        /\ undisturbed' = [undisturbed EXCEPT ![n] = TRUE]
        /\ UNCHANGED <<tip, published, signatures, pending, sync, syncs>>

\* Mutant of MaySign: anybody on the same tip signs.
MaySignUnstaked(n, h) == tree[h].parent = tip[n]

\* A validator signs a block on its own tip, if it has a stake there.
MaySign(n, h) == Tip(n).stakes[n] > 0 /\ tree[h].parent = tip[n]

\* handleBlockProposal; a node's own messages are skipped.
Sign(n, x) ==
    /\ x.by # n
    /\ MaySign(n, x.hash)
    /\ signatures' = signatures \cup {[by |-> n, hash |-> x.hash]}
    /\ UNCHANGED <<created, tree, tip, published, proposals, pending, mining,
                   undisturbed, sync, syncs>>

\* handleBlockSignature: kept whatever the block is and whoever made it.
ReceiveSignature(n, s) ==
    /\ s.by # n
    /\ pending' = [pending EXCEPT ![n] = @ \cup {s}]
    /\ UNCHANGED <<created, tree, tip, published, topic, mining, undisturbed, sync, syncs>>

\* The signatures of the block that have come.
Collected(n) == {s.by : s \in {x \in pending[n] : x.hash = mining[n].hash}}

\* After three seconds: what has come is taken.
TakeSignatures(n) ==
    /\ mining[n].step = "waiting"
    /\ mining' = [mining EXCEPT ![n] =
          [step |-> "signed", hash |-> @.hash, sigs |-> Collected(n), weight |-> 0]]
    /\ pending' = [pending EXCEPT ![n] = {s \in @ : s.hash # mining[n].hash}]
    /\ UNCHANGED <<created, tree, tip, published, topic, undisturbed, sync, syncs>>

Stake(stakes, sigs) == MapThenSumSet(LAMBDA p : stakes[p], sigs)

\* Mutant of ValidatorWeight: a block nobody signed weighs nothing.
ValidatorWeightUnsigned(stakes, sigs) == Stake(stakes, sigs)

\* CalculateValidatorWeight: the stake of the signers, and 1 for a block that
\* none has signed. Whoever has a stake has a public key on the chain.
ValidatorWeight(stakes, sigs) ==
    IF Stake(stakes, sigs) = 0 THEN 1 ELSE Stake(stakes, sigs)

\* The stakes are those of the node's chain now.
Weigh(n) ==
    /\ mining[n].step = "signed"
    /\ mining' = [mining EXCEPT ![n] =
          [step |-> "weighed", hash |-> @.hash, sigs |-> @.sigs,
           weight |-> ValidatorWeight(Tip(n).stakes, @.sigs)]]
    /\ UNCHANGED <<created, tree, tip, published, topic, pending, undisturbed, sync, syncs>>

\* AddBlock and broadcast; a refused block is dropped.
AddMined(n) ==
    LET h == mining[n].hash
    IN  /\ mining[n].step = "weighed"
        /\ mining' = [mining EXCEPT ![n] = Idle]
        /\ IF Extends(n, h)
           THEN /\ tip' = [tip EXCEPT ![n] = h]
                /\ tree' = [tree EXCEPT ![h] =
                      [parent |-> @.parent, index |-> @.index,
                       weight |-> tree[@.parent].weight + mining[n].weight,
                       kind |-> "game", stakes |-> @.stakes,
                       sigs |-> mining[n].sigs, undisturbed |-> undisturbed[n]]]
                /\ published' = published \cup {h}
           ELSE UNCHANGED <<tip, tree, published>>
        /\ UNCHANGED <<created, topic, pending, undisturbed, sync, syncs>>

-----------------------------------------------------------------------------
(* TriggerSync.                                                            *)

Fetch(n, p) ==
    /\ sync[n] = None /\ syncs < MaxSyncs
    /\ Tip(p).weight > Tip(n).weight
    /\ sync' = [sync EXCEPT ![n] = [tip |-> tip[p], localWeight |-> Tip(n).weight]]
    /\ syncs' = syncs + 1
    /\ UNCHANGED <<created, tree, tip, published, topic, pending, mining, undisturbed>>

\* The downloaded chain takes the place of the node's, whatever that is now.
Apply(n) ==
    /\ sync[n] # None
    /\ tree[sync[n].tip].weight > sync[n].localWeight
    /\ tip' = [tip EXCEPT ![n] = sync[n].tip]
    /\ sync' = [sync EXCEPT ![n] = None]
    /\ undisturbed' = [undisturbed EXCEPT ![n] = FALSE]
    /\ UNCHANGED <<created, tree, published, topic, pending, mining, syncs>>

-----------------------------------------------------------------------------

Init ==
    /\ created = 0
    /\ tree = [h \in Hash |-> RootBlock]
    /\ tip = [n \in Nodes |-> 0]
    /\ published = {} /\ proposals = {} /\ signatures = {}
    /\ pending = [n \in Nodes |-> {}]
    /\ mining = [n \in Nodes |-> Idle]
    /\ undisturbed = [n \in Nodes |-> FALSE]
    /\ sync = [n \in Nodes |-> None]
    /\ syncs = 0

Next ==
    \E n \in Nodes :
        \/ BuildStake(n)
        \/ \E h \in published : Deliver(n, h)
        \/ \E x \in proposals : Sign(n, x)
        \/ \E players \in PlayerCounts : Propose(n, players)
        \/ \E s \in signatures : ReceiveSignature(n, s)
        \/ TakeSignatures(n) \/ Weigh(n) \/ AddMined(n)
        \/ \E p \in Nodes \ {n} : Fetch(n, p)
        \/ Apply(n)

Spec == Init /\ [][Next]_vars

-----------------------------------------------------------------------------
(* Properties.                                                             *)

TypeOK ==
    /\ created \in Hash
    /\ tree \in [Hash -> Block]
    /\ tip \in [Nodes -> Hash]
    /\ published \subseteq Hash /\ proposals \subseteq Proposal
    /\ signatures \subseteq Signature
    /\ pending \in [Nodes -> SUBSET Signature]
    /\ mining \in [Nodes -> Waiting \cup {Idle}]
    /\ undisturbed \in [Nodes -> BOOLEAN]
    /\ sync \in [Nodes -> Download \cup {None}]
    /\ syncs \in Nat

\* Who signed a block had a stake on the chain it extends, although validators
\* sign by their own tip, and chains and stakes change until it is added.
SignersAreStakers ==
    \A h \in Hash : \A p \in tree[h].sigs : tree[tree[h].parent].stakes[p] > 0

\* A mined block weighs the stake behind its signatures on the chain it
\* extends, though it is weighed three seconds later on the tip of that
\* moment: unless a sync replaced the chain meanwhile, a block that came in
\* between makes AddBlock refuse it.
WeightIsSignedStake ==
    \A h \in published : tree[h].kind = "game" /\ tree[h].undisturbed =>
        tree[h].weight = tree[tree[h].parent].weight
                            + ValidatorWeight(tree[tree[h].parent].stakes, tree[h].sigs)
=============================================================================
